-------------------------------- MODULE Kmd --------------------------------
(***************************************************************************)
(* The life of the Windows driver (kernel/kmd/src/libiht_kmd.cpp):         *)
(* DriverEntry creates the device, registers the process notification,     *)
(* hooks the context switch and initialises the engines; DriverExit undoes *)
(* that in another order.  What goes wrong in DriverEntry is returned, and *)
(* what was done before stays.                                             *)
(***************************************************************************)
EXTENDS InfinityHook

VARIABLES
    device,      \* is the device object, with its symbolic link, there?
    notify       \* is create_proc_notify registered?

vars == <<hook, device, notify>>

EntryPC == {"device_create", "notify_create", "lbr_init", "bts_init"}
ExitPC  == {"bts_exit", "lbr_exit", "notify_remove", "device_remove"}
Idle    == {"none", "done", "loaded", "failed", "unloaded"}

\* The type invariant.
TypeOK ==
    /\ HookTypeOK
    /\ DOMAIN pc = Thread
    /\ pc["driver"] \in EntryPC \cup InitPC \cup StopPC \cup ExitPC
                         \cup {"loaded", "failed", "unloaded"}
    /\ device \in BOOLEAN /\ notify \in BOOLEAN

Init ==
    /\ HookInit
    /\ pc = [driver |-> "device_create", detect |-> "none"]
    /\ device = FALSE /\ notify = FALSE

----------------------------------------------------------------------------
HookOnly == UNCHANGED <<device, notify>>
DriverRest == <<build, globals, saved, kernel, inCallback, timer, alone, resets, stops>>

\* The device goes again if its link cannot be made.
DeviceCreate ==
    /\ \/ Step("driver", "device_create", "notify_create") /\ device' = TRUE
       \/ Step("driver", "device_create", "failed") /\ device' = FALSE
    /\ UNCHANGED <<notify, DriverRest>>

NotifyCreate ==
    /\ \/ Step("driver", "notify_create", "test") /\ notify' = TRUE
       \/ Step("driver", "notify_create", "failed") /\ notify' = FALSE
    /\ UNCHANGED <<device, DriverRest>>

\* lbr_init and bts_init, whose results are ignored (Lkm has what they do).
EngineInit ==
    /\ Step("driver", "lbr_init", "bts_init") \/ Step("driver", "bts_init", "loaded")
    /\ UNCHANGED <<device, notify, DriverRest>>

Unload ==
    /\ Step("driver", "loaded", "bts_exit")
    /\ UNCHANGED <<device, notify, DriverRest>>

\* bts_exit and lbr_exit come first, while the hook still calls the handlers.
EngineExit ==
    /\ Step("driver", "bts_exit", "lbr_exit") \/ Step("driver", "lbr_exit", "flag")
    /\ UNCHANGED <<device, notify, DriverRest>>

\* After infinity_hook_remove's sleep.
NotifyRemove ==
    /\ \/ timer["driver"] = 0 /\ Step("driver", "sleep", "notify_remove") /\ UNCHANGED notify
       \/ Step("driver", "notify_remove", "device_remove") /\ notify' = FALSE
    /\ UNCHANGED <<device, DriverRest>>

DeviceRemove ==
    /\ Step("driver", "device_remove", "unloaded")
    /\ device' = FALSE
    /\ UNCHANGED <<notify, DriverRest>>

----------------------------------------------------------------------------
DriverStep ==
    \/ DeviceCreate \/ NotifyCreate \/ EngineInit
    \/ EngineExit \/ NotifyRemove \/ DeviceRemove
    \/ ((Initializes("driver") \/ StopStep) /\ HookOnly)

KernelStep == (Cswitch \/ CallbackEnds \/ Reset) /\ HookOnly

Next ==
    \/ DriverStep \/ Unload
    \/ DetectStep /\ HookOnly
    \/ KernelStep
    \/ Tick(Idle) /\ HookOnly

Spec == Init /\ [][Next]_vars

\* Both threads go on, callbacks end and time passes; and the detecting
\* thread's trace controls and searches do not fail for ever.
Fairness ==
    /\ WF_vars(DriverStep) /\ WF_vars(DetectStep /\ HookOnly)
    /\ WF_vars(CallbackEnds /\ HookOnly) /\ SF_vars(Tick(Idle) /\ HookOnly)
    /\ SF_vars(Trace("detect") /\ pc'["detect"] = "locate" /\ HookOnly)
    /\ SF_vars(Trace("detect") /\ pc'["detect"] = "reupdate" /\ HookOnly)
    /\ SF_vars(Locate("detect") /\ HookOnly)

FairSpec == Spec /\ Fairness

----------------------------------------------------------------------------
(* Properties.                                                             *)

\* When the driver's image goes, nothing leads into it any more: its thread has
\* ended, no callback runs, neither clock nor notification points to it.  The
\* 10 seconds of infinity_hook_remove are enough for that.  Not so if stop
\* could not restart the session, which is ignored, or met the detecting
\* thread within initialize, which then hooks again (libiht_kmd.cpp,
\* infinity_hook_remove: "make sure that the execution point of the system is
\* no longer in the current driver").
UnloadSafe ==
    pc["driver"] = "unloaded" =>
        /\ pc["detect"] \in {"none", "done"}
        /\ ~notify /\ ~device
        /\ (build = "new" \/ (result /\ ~overlap)) => ~Hooked /\ ~inCallback

\* What stop puts back is what the kernel had, however often start ran: start
\* never saves its own values, and after stop a new build has its own again
\* (hook.cpp: start, stop).
OriginalsKept ==
    /\ savedClock # "two" /\ savedHalp # "self"
    /\ (build = "new" /\ pc["driver"] \in {"sleep", "notify_remove", "device_remove"}) =>
            clock = "original" /\ halp = "original"

\* On an old build a reset of the clock by others is found and undone while the
\* driver is loaded, if its thread exists (hook.cpp: detect_routine).
HookReturns ==
    (build = "old" /\ pc["driver"] = "loaded" /\ pc["detect"] # "none" /\ clock # "self")
        ~> (clock = "self" \/ pc["driver"] # "loaded")
=============================================================================
