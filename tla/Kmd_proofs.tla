------------------------------ MODULE Kmd_proofs ------------------------------
(***************************************************************************)
(* What is proved about the Windows driver's life: types, that stop puts   *)
(* the original values back, and that the driver's image goes only when    *)
(* nothing leads into it, for any number of resets by others and for all   *)
(* sleeps of which the driver's is the longer one.                         *)
(***************************************************************************)
EXTENDS Kmd, TLAPS

\* The driver sleeps longer than its detecting thread (10 s and 4 s).
SleepsLonger == ThreadSleep < RemoveSleep

----------------------------------------------------------------------------
(* The inductive invariant.                                                *)

\* The driver's way: before start has run, after stop has begun, after stop.
Before   == {"device_create", "notify_create", "failed"} \cup InitPC
Stopping == {"stop_trace", "start_trace", "restore", "sleep",
             "notify_remove", "device_remove", "unloaded"}
Restored == {"sleep", "notify_remove", "device_remove", "unloaded"}
Gone     == {"notify_remove", "device_remove", "unloaded"}
Ended    == {"none", "done"}
PC       == Before \cup Stopping \cup DetectPC
                   \cup {"lbr_init", "bts_init", "loaded", "bts_exit", "lbr_exit", "flag"}

\* The type invariant, with the functions' domains.
InvType ==
    /\ TypeOK
    /\ pc \in [Thread -> PC] /\ timer \in [Thread -> Nat]

\* The detecting thread exists only once start has run, and sees the status
\* cleared once stop has begun.
ThreadLife ==
    /\ pc["driver"] \in Before => pc["detect"] = "none"
    /\ pc["driver"] \in Stopping => m_routine_status = FALSE

\* It hooks again on old builds only, and not after a stop that it did not overlap.
NoLateHook ==
    /\ build = "new" => pc["detect"] \notin InitPC
    /\ (pc["driver"] \in Stopping /\ overlap = FALSE) => pc["detect"] \notin InitPC \ {"test"}

\* What start has saved is what was there before it, and stop can write it back.
SavedValues ==
    /\ build = "old" => savedClock = "none" /\ savedHalp = "none"
    /\ (build = "new" /\ pc["driver"] \in Before) =>
            savedClock = "none" /\ savedHalp = "none" /\ clock = "original" /\ halp = "original"
    /\ (build = "new" /\ pc["driver"] \notin Before) =>
            savedClock = "original" /\ savedHalp = "original"
    /\ build = "new" => clock # "self"
    /\ (build = "new" /\ clock = "two") => located = TRUE

\* After stop the kernel's values are its own.
Unhooked ==
    /\ (build = "new" /\ pc["driver"] \in Restored) => clock = "original" /\ halp = "original"
    /\ (build = "old" /\ pc["driver"] \in Restored \cup {"restore"} /\ result = TRUE
        /\ overlap = FALSE)
            => clock # "self"

\* While the driver sleeps it has at least the rest of the thread's sleep, and
\* the difference of the two, before it.
Outlasts ==
    /\ \A w \in Thread : timer[w] > 0 => pc[w] = "sleep"
    /\ (pc["driver"] = "sleep" /\ pc["detect"] \notin Ended) =>
            timer["detect"] + RemoveSleep <= timer["driver"] + ThreadSleep
    /\ (SleepsLonger /\ pc["driver"] \in Gone) => pc["detect"] \in Ended

\* A callback that ran when stop unhooked has ended by the first tick.
Quiet ==
    ((build = "new" \/ (result = TRUE /\ overlap = FALSE))
        /\ (pc["driver"] \in Gone \/ (pc["driver"] = "sleep" /\ timer["driver"] < RemoveSleep)))
    => inCallback = FALSE

Unregistered ==
    /\ pc["driver"] \in {"device_remove", "unloaded"} => notify = FALSE
    /\ pc["driver"] = "unloaded" => device = FALSE

IInv ==
    /\ InvType /\ ThreadLife /\ NoLateHook /\ SavedValues
    /\ Unhooked /\ Outlasts /\ Quiet /\ Unregistered

----------------------------------------------------------------------------
\* The sets of program points and the groups of variables, always expanded.
USE DEF Before, Stopping, Restored, Gone, Ended, Thread, InitPC, DetectPC, StopPC,
        EntryPC, ExitPC, globals, saved, kernel, stops

LEMMA InitHolds == Init => IInv
<1> SUFFICES ASSUME Init PROVE IInv
  OBVIOUS
<1>1. InvType
  <2>1. pc["driver"] = "device_create" /\ pc["detect"] = "none" /\ DOMAIN pc = Thread
    BY DEF Init
  <2>2. pc \in [Thread -> PC]
    BY DEF Init, PC
  <2>3. timer \in [Thread -> Nat] /\ timer["driver"] = 0 /\ timer["detect"] = 0
    BY DEF Init, HookInit
  <2>4. /\ 0 \in 0..ThreadSleep /\ 0 \in 0..RemoveSleep /\ 0 \in 0..MaxResets
    BY HookAssumption
  <2>5. HookTypeOK
    BY <2>1, <2>3, <2>4 DEF Init, HookInit, HookTypeOK
  <2>6. QED
    BY <2>1, <2>2, <2>3, <2>5 DEF Init, InvType, TypeOK
<1>2. ThreadLife /\ NoLateHook /\ SavedValues /\ Unhooked
  BY DEF Init, HookInit, ThreadLife, NoLateHook, SavedValues, Unhooked
<1>3. Outlasts /\ Quiet /\ Unregistered
  BY DEF Init, HookInit, Outlasts, Quiet, Unregistered
<1>4. QED
  BY <1>1, <1>2, <1>3 DEF IInv

\* A step of a thread moves its own counter only.
LEMMA DriverMoves ==
    ASSUME pc \in [Thread -> PC], NEW from, NEW to \in PC, Step("driver", from, to)
    PROVE  /\ pc' \in [Thread -> PC]
           /\ pc["driver"] = from /\ pc'["driver"] = to /\ pc'["detect"] = pc["detect"]
BY DEF Step

LEMMA DetectMoves ==
    ASSUME pc \in [Thread -> PC], NEW from, NEW to \in PC, Step("detect", from, to)
    PROVE  /\ pc' \in [Thread -> PC]
           /\ pc["detect"] = from /\ pc'["detect"] = to /\ pc'["driver"] = pc["driver"]
BY DEF Step

----------------------------------------------------------------------------
(* Every action keeps the invariant; first those of the driver's thread    *)
(* outside the hook.                                                       *)

LEMMA DeviceCreateKeeps == ASSUME IInv, DeviceCreate PROVE IInv'
<1>1. /\ pc' \in [Thread -> PC] /\ pc'["detect"] = pc["detect"]
      /\ pc["driver"] = "device_create" /\ pc'["driver"] \in {"notify_create", "failed"}
  BY DriverMoves DEF DeviceCreate, IInv, InvType, PC
<1>2. device' \in BOOLEAN /\ UNCHANGED <<notify, DriverRest>>
  BY DEF DeviceCreate
<1>3. QED
  BY <1>1, <1>2 DEF IInv, InvType, TypeOK, HookTypeOK, ThreadLife, NoLateHook, SavedValues,
      Unhooked, Outlasts, Quiet, Unregistered, DriverRest

LEMMA NotifyCreateKeeps == ASSUME IInv, NotifyCreate PROVE IInv'
<1>1. /\ pc' \in [Thread -> PC] /\ pc'["detect"] = pc["detect"]
      /\ pc["driver"] = "notify_create" /\ pc'["driver"] \in {"test", "failed"}
  BY DriverMoves DEF NotifyCreate, IInv, InvType, PC
<1>2. notify' \in BOOLEAN /\ UNCHANGED <<device, DriverRest>>
  BY DEF NotifyCreate
<1>3. QED
  BY <1>1, <1>2 DEF IInv, InvType, TypeOK, HookTypeOK, ThreadLife, NoLateHook, SavedValues,
      Unhooked, Outlasts, Quiet, Unregistered, DriverRest

LEMMA EngineInitKeeps == ASSUME IInv, EngineInit PROVE IInv'
<1>1. /\ pc' \in [Thread -> PC] /\ pc'["detect"] = pc["detect"]
      /\ pc["driver"] \in {"lbr_init", "bts_init"} /\ pc'["driver"] \in {"bts_init", "loaded"}
  BY DriverMoves DEF EngineInit, IInv, InvType, PC
<1>2. UNCHANGED <<notify, device, DriverRest>>
  BY DEF EngineInit
<1>3. QED
  BY <1>1, <1>2 DEF IInv, InvType, TypeOK, HookTypeOK, ThreadLife, NoLateHook, SavedValues,
      Unhooked, Outlasts, Quiet, Unregistered, DriverRest

LEMMA UnloadKeeps == ASSUME IInv, Unload PROVE IInv'
<1>1. /\ pc' \in [Thread -> PC] /\ pc'["detect"] = pc["detect"]
      /\ pc["driver"] = "loaded" /\ pc'["driver"] = "bts_exit"
  BY DriverMoves DEF Unload, IInv, InvType, PC
<1>2. UNCHANGED <<notify, device, DriverRest>>
  BY DEF Unload
<1>3. QED
  BY <1>1, <1>2 DEF IInv, InvType, TypeOK, HookTypeOK, ThreadLife, NoLateHook, SavedValues,
      Unhooked, Outlasts, Quiet, Unregistered, DriverRest

LEMMA EngineExitKeeps == ASSUME IInv, EngineExit PROVE IInv'
<1>1. /\ pc' \in [Thread -> PC] /\ pc'["detect"] = pc["detect"]
      /\ pc["driver"] \in {"bts_exit", "lbr_exit"} /\ pc'["driver"] \in {"lbr_exit", "flag"}
  BY DriverMoves DEF EngineExit, IInv, InvType, PC
<1>2. UNCHANGED <<notify, device, DriverRest>>
  BY DEF EngineExit
<1>3. QED
  BY <1>1, <1>2 DEF IInv, InvType, TypeOK, HookTypeOK, ThreadLife, NoLateHook, SavedValues,
      Unhooked, Outlasts, Quiet, Unregistered, DriverRest

LEMMA NotifyRemoveKeeps == ASSUME IInv, NotifyRemove PROVE IInv'
<1>1. /\ pc' \in [Thread -> PC] /\ pc'["detect"] = pc["detect"]
      /\ \/ /\ pc["driver"] = "sleep" /\ pc'["driver"] = "notify_remove"
            /\ timer["driver"] = 0 /\ notify' = notify
         \/ /\ pc["driver"] = "notify_remove" /\ pc'["driver"] = "device_remove"
            /\ notify' = FALSE
  <2>1. CASE timer["driver"] = 0 /\ Step("driver", "sleep", "notify_remove") /\ notify' = notify
    BY <2>1, DriverMoves DEF IInv, InvType, PC
  <2>2. CASE Step("driver", "notify_remove", "device_remove") /\ notify' = FALSE
    BY <2>2, DriverMoves DEF IInv, InvType, PC
  <2>3. QED
    BY <2>1, <2>2 DEF NotifyRemove
<1>2. notify' \in BOOLEAN /\ UNCHANGED <<device, DriverRest>>
  BY DEF NotifyRemove, IInv, InvType, TypeOK
\* The driver's sleep is over, so the thread, whose sleep was shorter, has ended.
<1>3. pc["driver"] = "sleep" =>
        (SleepsLonger => pc["detect"] \in Ended) /\ timer["driver"] < RemoveSleep
  BY <1>1, HookAssumption DEF IInv, InvType, TypeOK, HookTypeOK, Outlasts, SleepsLonger
<1>4. QED
  BY <1>1, <1>2, <1>3 DEF IInv, InvType, TypeOK, HookTypeOK, ThreadLife, NoLateHook,
      SavedValues, Unhooked, Outlasts, Quiet, Unregistered, DriverRest

LEMMA DeviceRemoveKeeps == ASSUME IInv, DeviceRemove PROVE IInv'
<1>1. /\ pc' \in [Thread -> PC] /\ pc'["detect"] = pc["detect"]
      /\ pc["driver"] = "device_remove" /\ pc'["driver"] = "unloaded"
  BY DriverMoves DEF DeviceRemove, IInv, InvType, PC
<1>2. /\ device' = FALSE /\ device' \in BOOLEAN
      /\ UNCHANGED <<notify, DriverRest>>
  BY DEF DeviceRemove
<1>3. QED
  BY <1>1, <1>2 DEF IInv, InvType, TypeOK, HookTypeOK, ThreadLife, NoLateHook, SavedValues,
      Unhooked, Outlasts, Quiet, Unregistered, DriverRest

(* initialize and start, by either thread.                                 *)

LEMMA TestKeeps == ASSUME IInv, NEW w \in Thread, Test(w), HookOnly PROVE IInv'
<1>1. ASSUME Test("driver") PROVE IInv'
  <2>1. /\ pc' \in [Thread -> PC] /\ pc'["detect"] = pc["detect"]
        /\ pc["driver"] = "test" /\ pc'["driver"] \in {"update", "failed"}
    BY <1>1, DriverMoves DEF Test, MayInitialize, TypeOK, HookTypeOK, GivenUp, IInv,
        InvType, PC
  <2>2. m_call_back' \in BOOLEAN
    BY <1>1 DEF Test, HookRest, IInv, InvType, TypeOK, HookTypeOK
  <2>3. QED
    BY <1>1, <2>1, <2>2 DEF IInv, InvType, TypeOK, HookTypeOK, ThreadLife, NoLateHook,
        SavedValues, Unhooked, Outlasts, Quiet, Unregistered, Test, HookOnly, HookRest
<1>2. ASSUME Test("detect") PROVE IInv'
  <2>1. /\ pc' \in [Thread -> PC] /\ pc'["driver"] = pc["driver"]
        /\ pc["detect"] = "test"
        /\ pc'["detect"] = "loop" \/ (m_routine_status = TRUE /\ pc'["detect"] = "update")
    BY <1>2, DetectMoves DEF Test, MayInitialize, TypeOK, HookTypeOK, GivenUp, IInv,
        InvType, PC
  <2>2. m_call_back' \in BOOLEAN
    BY <1>2 DEF Test, HookRest, IInv, InvType, TypeOK, HookTypeOK
  <2>3. QED
    BY <1>2, <2>1, <2>2 DEF IInv, InvType, TypeOK, HookTypeOK, ThreadLife, NoLateHook,
        SavedValues, Unhooked, Outlasts, Quiet, Unregistered, Test, HookOnly, HookRest
<1>3. QED
  BY <1>1, <1>2

\* What a trace control does to what the kernel holds.
LEMMA TraceEffect ==
    ASSUME HookTypeOK, UpdateTrace \/ StartTrace \/ StopTrace \/ TraceFails
    PROVE  /\ session' \in {"off", "on", "cswitch"} /\ located' \in BOOLEAN
           /\ clock' \in {clock, "original"} /\ halp' = halp
           /\ clock' = "original" \/ (clock' = clock /\ located' = located)
<1>1. CASE UpdateTrace
  BY <1>1 DEF HookTypeOK, UpdateTrace
<1>2. CASE StartTrace
  BY <1>2 DEF HookTypeOK, StartTrace
<1>3. CASE StopTrace
  BY <1>3 DEF HookTypeOK, StopTrace
<1>4. CASE TraceFails
  BY <1>4 DEF HookTypeOK, TraceFails
<1>5. QED
  BY <1>1, <1>2, <1>3, <1>4

LEMMA TraceKeeps == ASSUME IInv, NEW w \in Thread, Trace(w), HookOnly PROVE IInv'
<1>1. UNCHANGED <<m_routine_status, m_call_back, alone, HookRest, device, notify>>
  BY DEF Trace, HookOnly
<1>2. /\ session' \in {"off", "on", "cswitch"} /\ located' \in BOOLEAN
      /\ clock' \in {clock, "original"} /\ halp' = halp
      /\ clock' = "original" \/ (clock' = clock /\ located' = located)
  <2>1. UpdateTrace \/ StartTrace \/ TraceFails
    BY DEF Trace
  <2>2. QED
    BY <2>1, TraceEffect DEF IInv, InvType, TypeOK
<1>3. ASSUME Trace("driver") PROVE IInv'
  <2>1. /\ pc' \in [Thread -> PC] /\ pc'["detect"] = pc["detect"]
        /\ pc["driver"] \in {"update", "open", "reupdate"}
        /\ pc'["driver"] \in {"open", "reupdate", "locate", "failed"}
    BY <1>3, DriverMoves DEF Trace, GivenUp, IInv, InvType, PC
  <2>2. QED
    BY <1>1, <1>2, <2>1 DEF IInv, InvType, TypeOK, HookTypeOK, ThreadLife, NoLateHook,
        SavedValues, Unhooked, Outlasts, Quiet, Unregistered, HookRest
<1>4. ASSUME Trace("detect") PROVE IInv'
  <2>1. /\ pc' \in [Thread -> PC] /\ pc'["driver"] = pc["driver"]
        /\ pc["detect"] \in {"update", "open", "reupdate"}
        /\ pc'["detect"] \in {"open", "reupdate", "locate", "loop"}
    BY <1>4, DetectMoves DEF Trace, GivenUp, IInv, InvType, PC
  <2>2. QED
    BY <1>1, <1>2, <2>1 DEF IInv, InvType, TypeOK, HookTypeOK, ThreadLife, NoLateHook,
        SavedValues, Unhooked, Outlasts, Quiet, Unregistered, HookRest
<1>5. QED
  BY <1>3, <1>4

LEMMA LocateKeeps == ASSUME IInv, NEW w \in Thread, Locate(w), HookOnly PROVE IInv'
<1>1. ASSUME Locate("driver") PROVE IInv'
  <2>1. /\ pc' \in [Thread -> PC] /\ pc'["detect"] = pc["detect"]
        /\ pc["driver"] = "locate" /\ pc'["driver"] = "start"
    BY <1>1, DriverMoves DEF Locate, GivenUp, IInv, InvType, PC
  <2>2. located' \in BOOLEAN
    BY <1>1 DEF Locate, HookRest, IInv, InvType, TypeOK, HookTypeOK
  <2>3. QED
    BY <1>1, <2>1, <2>2 DEF IInv, InvType, TypeOK, HookTypeOK, ThreadLife, NoLateHook,
        SavedValues, Unhooked, Outlasts, Quiet, Unregistered, Locate, HookOnly, HookRest
<1>2. ASSUME Locate("detect") PROVE IInv'
  <2>1. /\ pc' \in [Thread -> PC] /\ pc'["driver"] = pc["driver"]
        /\ pc["detect"] = "locate" /\ pc'["detect"] \in {"start", "loop"}
    BY <1>2, DetectMoves DEF Locate, GivenUp, IInv, InvType, PC
  <2>2. located' \in BOOLEAN
    BY <1>2 DEF Locate, HookRest, IInv, InvType, TypeOK, HookTypeOK
  <2>3. QED
    BY <1>2, <2>1, <2>2 DEF IInv, InvType, TypeOK, HookTypeOK, ThreadLife, NoLateHook,
        SavedValues, Unhooked, Outlasts, Quiet, Unregistered, Locate, HookOnly, HookRest
<1>3. QED
  BY <1>1, <1>2

LEMMA LocateFailsKeeps == ASSUME IInv, NEW w \in Thread, LocateFails(w), HookOnly PROVE IInv'
<1>1. ASSUME LocateFails("driver") PROVE IInv'
  <2>1. /\ pc' \in [Thread -> PC] /\ pc'["detect"] = pc["detect"]
        /\ pc["driver"] = "locate" /\ pc'["driver"] = "failed"
    BY <1>1, DriverMoves DEF LocateFails, GivenUp, IInv, InvType, PC
  <2>2. QED
    BY <1>1, <2>1 DEF IInv, InvType, TypeOK, HookTypeOK, ThreadLife, NoLateHook,
        SavedValues, Unhooked, Outlasts, Quiet, Unregistered, LocateFails, HookOnly,
        HookRest
<1>2. ASSUME LocateFails("detect") PROVE IInv'
  <2>1. /\ pc' \in [Thread -> PC] /\ pc'["driver"] = pc["driver"]
        /\ pc["detect"] = "locate" /\ pc'["detect"] = "loop"
    BY <1>2, DetectMoves DEF LocateFails, GivenUp, IInv, InvType, PC
  <2>2. QED
    BY <1>2, <2>1 DEF IInv, InvType, TypeOK, HookTypeOK, ThreadLife, NoLateHook,
        SavedValues, Unhooked, Outlasts, Quiet, Unregistered, LocateFails, HookOnly,
        HookRest
<1>3. QED
  BY <1>1, <1>2

LEMMA StartFailsKeeps == ASSUME IInv, NEW w \in Thread, StartFails(w), HookOnly PROVE IInv'
<1>1. ASSUME StartFails("driver") PROVE IInv'
  <2>1. /\ pc' \in [Thread -> PC] /\ pc'["detect"] = pc["detect"]
        /\ pc["driver"] = "start" /\ pc'["driver"] = "failed"
    BY <1>1, DriverMoves DEF StartFails, GivenUp, IInv, InvType, PC
  <2>2. QED
    BY <1>1, <2>1 DEF IInv, InvType, TypeOK, HookTypeOK, ThreadLife, NoLateHook,
        SavedValues, Unhooked, Outlasts, Quiet, Unregistered, StartFails, HookOnly,
        HookRest
<1>2. ASSUME StartFails("detect") PROVE IInv'
  <2>1. /\ pc' \in [Thread -> PC] /\ pc'["driver"] = pc["driver"]
        /\ pc["detect"] = "start" /\ pc'["detect"] = "loop"
    BY <1>2, DetectMoves DEF StartFails, GivenUp, IInv, InvType, PC
  <2>2. QED
    BY <1>2, <2>1 DEF IInv, InvType, TypeOK, HookTypeOK, ThreadLife, NoLateHook,
        SavedValues, Unhooked, Outlasts, Quiet, Unregistered, StartFails, HookOnly,
        HookRest
<1>3. QED
  BY <1>1, <1>2

LEMMA StartKeeps == ASSUME IInv, NEW w \in Thread, Start(w), HookOnly PROVE IInv'
<1>1. /\ UNCHANGED <<build, globals, session, inCallback, timer, alone, resets, stops, notify, device>>
      /\ located
  BY DEF Start, HookOnly
<1>2. \/ /\ build = "old" /\ clock' = "self" /\ UNCHANGED <<halp, saved>>
      \/ /\ build = "new" /\ savedClock' = clock /\ clock' = "two"
         /\ savedHalp' = halp /\ halp' = "self"
  BY DEF Start, Redirect
<1>3. CASE w = "driver"
  <2>1. PICK first \in {"loop", "none"} :
            pc["driver"] = "start" /\ pc' = [driver |-> "lbr_init", detect |-> first]
    BY <1>3 DEF Start
  <2>2. /\ pc' \in [Thread -> PC] /\ DOMAIN pc' = Thread
        /\ pc["driver"] = "start"
        /\ pc'["driver"] = "lbr_init" /\ pc'["detect"] \in {"loop", "none"}
    BY <2>1 DEF PC
  <2>3. build = "new" => clock = "original" /\ halp = "original"
    BY <2>2 DEF IInv, SavedValues
  <2>4. timer'["detect"] = 0
    BY <1>1, <2>2 DEF IInv, InvType, TypeOK, HookTypeOK, ThreadLife, Outlasts
  <2>5. QED
    BY <1>1, <1>2, <2>2, <2>3, <2>4 DEF IInv, InvType, TypeOK, HookTypeOK, ThreadLife,
        NoLateHook, SavedValues, Unhooked, Outlasts, Quiet, Unregistered, PC
<1>4. CASE w = "detect"
  <2>1. /\ pc' \in [Thread -> PC] /\ pc'["driver"] = pc["driver"]
        /\ pc["detect"] = "start" /\ pc'["detect"] = "loop"
    BY <1>4, DetectMoves DEF Start, IInv, InvType, PC
  \* Only on an old build, and not after a stop that it did not overlap.
  <2>2. build = "old"
    BY <2>1 DEF IInv, InvType, TypeOK, HookTypeOK, NoLateHook
  <2>3. QED
    BY <1>1, <1>2, <2>1, <2>2 DEF IInv, InvType, TypeOK, HookTypeOK, ThreadLife,
        NoLateHook, SavedValues, Unhooked, Outlasts, Quiet, Unregistered, PC
<1>5. QED
  BY <1>3, <1>4

(* detect_routine.                                                         *)

LEMMA LoopKeeps == ASSUME IInv, Loop, HookOnly PROVE IInv'
<1>1. UNCHANGED <<build, globals, saved, kernel, inCallback, alone, resets, stops, notify, device>>
  BY DEF Loop, HookOnly
<1>2. CASE /\ m_routine_status /\ Step("detect", "loop", "sleep")
           /\ timer' = [timer EXCEPT !["detect"] = ThreadSleep]
  <2>1. /\ pc' \in [Thread -> PC] /\ pc'["driver"] = pc["driver"]
        /\ pc["detect"] = "loop" /\ pc'["detect"] = "sleep"
    BY <1>2, DetectMoves DEF IInv, InvType, PC
  <2>2. /\ timer' \in [Thread -> Nat] /\ timer'["driver"] = timer["driver"]
        /\ timer'["detect"] = ThreadSleep /\ ThreadSleep \in 0..ThreadSleep
    BY <1>2, HookAssumption DEF IInv, InvType
  \* The thread does not sleep again after stop has begun.
  <2>3. pc["driver"] \notin Stopping
    BY <1>2 DEF IInv, InvType, TypeOK, HookTypeOK, ThreadLife
  <2>4. QED
    BY <1>1, <2>1, <2>2, <2>3 DEF IInv, InvType, TypeOK, HookTypeOK, ThreadLife,
        NoLateHook, SavedValues, Unhooked, Outlasts, Quiet, Unregistered
<1>3. CASE ~m_routine_status /\ Step("detect", "loop", "done") /\ UNCHANGED timer
  <2>1. /\ pc' \in [Thread -> PC] /\ pc'["driver"] = pc["driver"]
        /\ pc["detect"] = "loop" /\ pc'["detect"] = "done"
    BY <1>3, DetectMoves DEF IInv, InvType, PC
  <2>2. QED
    BY <1>1, <1>3, <2>1 DEF IInv, InvType, TypeOK, HookTypeOK, ThreadLife, NoLateHook,
        SavedValues, Unhooked, Outlasts, Quiet, Unregistered
<1>4. QED
  BY <1>2, <1>3 DEF Loop

LEMMA WakeKeeps == ASSUME IInv, Wake, HookOnly PROVE IInv'
<1>1. /\ pc' \in [Thread -> PC] /\ pc'["driver"] = pc["driver"]
      /\ timer["detect"] = 0 /\ pc["detect"] = "sleep" /\ pc'["detect"] = "check"
  BY DetectMoves DEF Wake, IInv, InvType, PC
<1>2. UNCHANGED <<globals, kernel, alone, HookRest, notify, device>>
  BY DEF Wake, HookOnly, IInv, InvType, PC, TypeOK, HookTypeOK
<1>3. QED
  BY <1>1, <1>2 DEF IInv, InvType, TypeOK, HookTypeOK, ThreadLife, NoLateHook, SavedValues,
      Unhooked, Outlasts, Quiet, Unregistered, HookRest

LEMMA CheckKeeps == ASSUME IInv, Check, HookOnly PROVE IInv'
<1>1. /\ pc' \in [Thread -> PC] /\ pc'["driver"] = pc["driver"]
      /\ pc["detect"] = "check" /\ (pc'["detect"] = "loop" \/ (build = "old" /\ pc'["detect"] = "test"))
  BY DetectMoves DEF Check, IInv, InvType, PC, Looks
<1>2. /\ alone' \in BOOLEAN
      /\ UNCHANGED <<globals, kernel, HookRest, notify, device>>
  BY DEF Check, HookOnly, IInv, InvType, PC, TypeOK, HookTypeOK
<1>3. QED
  BY <1>1, <1>2 DEF IInv, InvType, TypeOK, HookTypeOK, ThreadLife, NoLateHook, SavedValues,
      Unhooked, Outlasts, Quiet, Unregistered, HookRest

(* stop and the sleep after it.                                            *)

LEMMA ClearStatusKeeps == ASSUME IInv, ClearStatus, HookOnly PROVE IInv'
<1>1. /\ pc' \in [Thread -> PC] /\ pc'["detect"] = pc["detect"]
      /\ pc["driver"] = "flag" /\ pc'["driver"] = "stop_trace"
  BY DriverMoves DEF ClearStatus, IInv, InvType, PC
<1>2. /\ m_routine_status' = FALSE /\ m_routine_status' \in BOOLEAN
      /\ UNCHANGED <<build, m_call_back, located, saved, kernel, inCallback, timer, alone,
                     resets, result, notify, device>>
  BY DEF ClearStatus, HookOnly
<1>3. overlap' <=> pc["detect"] \in InitPC \ {"test"}
  BY Zenon DEF ClearStatus
<1>4. overlap' \in BOOLEAN
  <2>1. overlap' = (pc["detect"] \in InitPC \ {"test"})
    BY DEF ClearStatus
  <2>2. (pc["detect"] \in InitPC \ {"test"}) \in BOOLEAN
    OBVIOUS
  <2>3. QED
    BY <2>1, <2>2, Zenon
<1>5. overlap' = FALSE => pc["detect"] \notin InitPC \ {"test"}
  BY <1>3
<1>6. QED
  BY <1>1, <1>2, <1>4, <1>5 DEF IInv, InvType, TypeOK, HookTypeOK, ThreadLife, NoLateHook,
      SavedValues, Unhooked, Outlasts, Quiet, Unregistered, HookRest

LEMMA RestartKeeps == ASSUME IInv, Restart, HookOnly PROVE IInv'
<1>1. UNCHANGED <<build, m_routine_status, m_call_back, saved, inCallback, timer, alone,
                  resets, overlap, notify, device>>
  BY DEF Restart, HookOnly
<1>2. /\ session' \in {"off", "on", "cswitch"} /\ located' \in BOOLEAN
      /\ clock' \in {clock, "original"} /\ halp' = halp
      /\ clock' = "original" \/ (clock' = clock /\ located' = located)
  <2>1. StartTrace \/ StopTrace \/ TraceFails
    BY DEF Restart
  <2>2. QED
    BY <2>1, TraceEffect DEF IInv, InvType, TypeOK
<1>3. /\ pc' \in [Thread -> PC] /\ pc'["detect"] = pc["detect"]
      /\ pc["driver"] \in {"stop_trace", "start_trace"}
      /\ pc'["driver"] \in {"start_trace", "restore"}
  BY DriverMoves DEF Restart, IInv, InvType, PC
<1>4. result' \in BOOLEAN
  BY DEF Restart, IInv, InvType, TypeOK, HookTypeOK
\* If stop will say that it worked, the session has a clock of its own.
<1>5. pc'["driver"] = "restore" /\ result' = TRUE => clock' = "original"
  <2>1. CASE Step("driver", "stop_trace", "start_trace")
    BY <2>1, DriverMoves DEF IInv, InvType, PC
  <2>2. CASE StartTrace
    BY <2>2 DEF StartTrace
  <2>3. CASE result' = FALSE
    BY <2>3
  <2>4. QED
    BY <2>1, <2>2, <2>3 DEF Restart
<1>6. QED
  BY <1>1, <1>2, <1>3, <1>4, <1>5 DEF IInv, InvType, TypeOK, HookTypeOK, ThreadLife,
      NoLateHook, SavedValues, Unhooked, Outlasts, Quiet, Unregistered, HookRest

LEMMA RestoreKeeps == ASSUME IInv, Restore, HookOnly PROVE IInv'
<1>1. /\ pc' \in [Thread -> PC] /\ pc'["detect"] = pc["detect"]
      /\ pc["driver"] = "restore" /\ pc'["driver"] = "sleep"
  BY DriverMoves DEF Restore, IInv, InvType, PC
<1>2. /\ timer' \in [Thread -> Nat] /\ timer'["detect"] = timer["detect"]
      /\ timer'["driver"] = RemoveSleep /\ RemoveSleep \in 0..RemoveSleep
  BY HookAssumption DEF Restore, IInv, InvType
<1>3. UNCHANGED <<build, globals, saved, session, inCallback, alone, resets, stops, notify, device>>
  BY DEF Restore, HookOnly
<1>4. /\ build = "old" => clock' = clock /\ halp' = halp
      /\ build = "new" => clock' = "original" /\ halp' = "original"
  BY <1>1 DEF Restore, PutBack, IInv, InvType, TypeOK, HookTypeOK, SavedValues
<1>5. timer["detect"] + RemoveSleep <= RemoveSleep + ThreadSleep
  BY HookAssumption DEF IInv, InvType, TypeOK, HookTypeOK
<1>6. QED
  BY <1>1, <1>2, <1>3, <1>4, <1>5, HookAssumption DEF IInv, InvType, TypeOK, HookTypeOK,
      ThreadLife, NoLateHook, SavedValues, Unhooked, Outlasts, Quiet, Unregistered,
      HookRest

(* The kernel, others, and time.                                           *)

LEMMA CswitchKeeps == ASSUME IInv, Cswitch, HookOnly PROVE IInv'
<1>1. /\ UNCHANGED <<build, globals, saved, kernel, pc, timer, alone, resets, stops, notify, device>>
      /\ inCallback' \in BOOLEAN
  BY DEF Cswitch, HookOnly
<1>2. \/ build = "old" /\ clock = "self"
      \/ build = "new" /\ clock = "two"
  BY DEF Cswitch, Hooked, IInv, InvType, TypeOK, HookTypeOK
<1>3. QED
  BY <1>1, <1>2 DEF IInv, InvType, TypeOK, HookTypeOK, ThreadLife, NoLateHook, SavedValues,
      Unhooked, Outlasts, Quiet, Unregistered

LEMMA CallbackEndsKeeps == ASSUME IInv, CallbackEnds, HookOnly PROVE IInv'
<1>1. /\ UNCHANGED <<build, globals, saved, kernel, pc, timer, alone, resets, stops, notify, device>>
      /\ inCallback' = FALSE /\ inCallback' \in BOOLEAN
  BY DEF CallbackEnds, HookOnly
<1>2. QED
  BY <1>1 DEF IInv, InvType, TypeOK, HookTypeOK, ThreadLife, NoLateHook, SavedValues,
      Unhooked, Outlasts, Quiet, Unregistered, PC

LEMMA ResetKeeps == ASSUME IInv, Reset, HookOnly PROVE IInv'
<1>1. /\ UNCHANGED <<build, m_routine_status, m_call_back, saved, halp, inCallback, pc, timer,
                     alone, stops, notify, device>>
      /\ session' \in {"off", "on", "cswitch"} /\ clock' = "original"
  BY DEF Reset, HookOnly
<1>2. located' \in BOOLEAN
  BY DEF Reset, IInv, InvType, TypeOK, HookTypeOK
<1>3. resets' \in 0..MaxResets
  BY HookAssumption DEF Reset, IInv, InvType, TypeOK, HookTypeOK
<1>4. QED
  BY <1>1, <1>2, <1>3 DEF IInv, InvType, TypeOK, HookTypeOK, ThreadLife, NoLateHook,
      SavedValues, Unhooked, Outlasts, Quiet, Unregistered, PC

LEMMA TickKeeps == ASSUME IInv, Tick(Idle), HookOnly PROVE IInv'
<1>1. /\ UNCHANGED <<build, globals, saved, kernel, inCallback, pc, alone, resets, stops, notify, device>>
      /\ inCallback = FALSE
  BY DEF Tick, HookOnly, IInv, InvType, TypeOK, HookTypeOK
<1>2. \A w \in Thread : timer'[w] = IF Sleeps(w) THEN timer[w] - 1 ELSE timer[w]
  BY DEF Tick
<1>3. /\ timer' \in [Thread -> Nat]
      /\ timer'["detect"] \in 0..ThreadSleep /\ timer'["driver"] \in 0..RemoveSleep
      /\ \A w \in Thread : timer'[w] <= timer[w] /\ timer'[w] \in Nat
  BY <1>2, HookAssumption DEF Tick, Sleeps, IInv, InvType, TypeOK, HookTypeOK
\* If the driver's sleep goes on, so does that of a thread that has not ended.
<1>4. (pc["driver"] = "sleep" /\ pc["detect"] \notin Ended)
        => timer'["detect"] + RemoveSleep <= timer'["driver"] + ThreadSleep
  <2>1. ASSUME pc["driver"] = "sleep", pc["detect"] \notin Ended
        PROVE  timer'["detect"] + RemoveSleep <= timer'["driver"] + ThreadSleep
    <3>1. Sleeps("detect")
      BY <2>1 DEF Tick, Idle, IInv, InvType, TypeOK, HookTypeOK
    <3>2. timer'["detect"] = timer["detect"] - 1 /\ timer'["driver"] >= timer["driver"] - 1
      BY <3>1, <1>2 DEF IInv, InvType
    <3>3. timer["detect"] + RemoveSleep <= timer["driver"] + ThreadSleep
      BY <2>1 DEF IInv, Outlasts
    <3>4. /\ timer["detect"] \in Nat /\ timer["driver"] \in Nat /\ timer'["driver"] \in Nat
      BY <1>3 DEF IInv, InvType
    <3>5. QED
      BY <3>2, <3>3, <3>4, HookAssumption
  <2>2. QED
    BY <2>1
<1>5. QED
  BY <1>1, <1>3, <1>4 DEF IInv, InvType, TypeOK, HookTypeOK, ThreadLife, NoLateHook,
      SavedValues, Unhooked, Outlasts, Quiet, Unregistered, PC

LEMMA StutterKeeps == ASSUME IInv, UNCHANGED vars PROVE IInv'
<1>1. UNCHANGED <<build, globals, saved, kernel, inCallback, pc, timer, alone, resets, stops, device, notify>>
  BY DEF vars, hook
<1>2. QED
  BY <1>1 DEF IInv, InvType, TypeOK, HookTypeOK, ThreadLife, NoLateHook, SavedValues,
      Unhooked, Outlasts, Quiet, Unregistered, PC

LEMMA StepKeeps == ASSUME IInv, [Next]_vars PROVE IInv'
<1>1. ASSUME NEW w \in Thread, Initializes(w), HookOnly PROVE IInv'
  BY <1>1, TestKeeps, TraceKeeps, LocateKeeps, LocateFailsKeeps, StartKeeps, StartFailsKeeps
  DEF Initializes
<1>2. CASE DriverStep
  <2>1. CASE Initializes("driver") /\ HookOnly
    BY <2>1, <1>1
  <2>2. CASE StopStep /\ HookOnly
    BY <2>2, ClearStatusKeeps, RestartKeeps, RestoreKeeps DEF StopStep
  <2>3. CASE DeviceCreate \/ NotifyCreate \/ EngineInit
    BY <2>3, DeviceCreateKeeps, NotifyCreateKeeps, EngineInitKeeps
  <2>4. CASE EngineExit \/ NotifyRemove \/ DeviceRemove
    BY <2>4, EngineExitKeeps, NotifyRemoveKeeps, DeviceRemoveKeeps
  <2>5. QED
    BY <1>2, <2>1, <2>2, <2>3, <2>4 DEF DriverStep
<1>3. CASE Unload
  BY <1>3, UnloadKeeps
<1>4. CASE DetectStep /\ HookOnly
  BY <1>4, <1>1, LoopKeeps, WakeKeeps, CheckKeeps DEF DetectStep
<1>5. CASE KernelStep
  BY <1>5, CswitchKeeps, CallbackEndsKeeps, ResetKeeps DEF KernelStep
<1>6. CASE Tick(Idle) /\ HookOnly
  BY <1>6, TickKeeps
<1>7. CASE UNCHANGED vars
  BY <1>7, StutterKeeps
<1>8. QED
  BY <1>2, <1>3, <1>4, <1>5, <1>6, <1>7 DEF Next

----------------------------------------------------------------------------
(* The theorems.                                                           *)

LEMMA Invariance == Spec => []IInv
<1>1. Init => IInv
  BY InitHolds
<1>2. IInv /\ [Next]_vars => IInv'
  BY StepKeeps
<1>3. QED
  BY <1>1, <1>2, PTL DEF Spec

\* The type invariant over all of hook.cpp's and libiht_kmd.cpp's state.
THEOREM KmdTypes == Spec => []TypeOK
<1>1. IInv => TypeOK
  BY DEF IInv, InvType
<1>2. QED
  BY <1>1, Invariance, PTL

\* stop puts back what the kernel had (hook.cpp: start, stop).
THEOREM KmdRestores == Spec => []OriginalsKept
<1>1. IInv => OriginalsKept
  BY DEF IInv, InvType, TypeOK, HookTypeOK, SavedValues, Unhooked, OriginalsKept
<1>2. QED
  BY <1>1, Invariance, PTL

\* The driver's image goes when nothing leads into it, whatever the two sleeps
\* are, as long as the driver's is longer (infinity_hook_remove).
THEOREM KmdUnloadsSafely == ASSUME SleepsLonger PROVE Spec => []UnloadSafe
<1>1. IInv => UnloadSafe
  <2>1. SUFFICES ASSUME IInv, pc["driver"] = "unloaded"
                 PROVE  /\ pc["detect"] \in Ended
                        /\ ~notify /\ ~device
                        /\ (build = "new" \/ (result /\ ~overlap)) => ~Hooked /\ ~inCallback
    BY DEF UnloadSafe
  <2>2. pc["detect"] \in Ended
    BY <2>1 DEF IInv, Outlasts
  <2>3. ~notify /\ ~device
    BY <2>1 DEF IInv, Unregistered
  <2>4. ASSUME build = "new" \/ (result /\ ~overlap) PROVE ~Hooked /\ ~inCallback
    <3>1. build = "new" \/ (build = "old" /\ result = TRUE /\ overlap = FALSE)
      BY <2>1, <2>4 DEF IInv, InvType, TypeOK, HookTypeOK
    <3>2. ~Hooked
      BY <2>1, <3>1 DEF IInv, Unhooked, Hooked
    <3>3. ~inCallback
      BY <2>1, <3>1 DEF IInv, Quiet
    <3>4. QED
      BY <3>2, <3>3
  <2>5. QED
    BY <2>2, <2>3, <2>4
<1>2. QED
  BY <1>1, Invariance, PTL
=============================================================================
