---------------------------- MODULE InfinityHook ----------------------------
(***************************************************************************)
(* The Windows context-switch hook (kernel/kmd/infinity_hook/hook.cpp).    *)
(* Windows has no tracepoint to register at.  The driver turns on context- *)
(* switch events in a system trace session (CKCL) and redirects a pointer  *)
(* that the kernel follows when it takes an event's time stamp: on old     *)
(* builds the session's GetCpuClock, on new ones a HAL function that the   *)
(* clock type 2 leads to.  Others use that session too and may reset it; a *)
(* thread of the driver looks every 4 seconds and hooks again.             *)
(*                                                                         *)
(* Two threads run this code: the one that loads and unloads the driver    *)
(* and the detecting one.  Each trace control and each access to shared    *)
(* globals that matters is a step.  Sleeping is counted in units of two    *)
(* seconds, and code that does not sleep ends within a unit.               *)
(***************************************************************************)
EXTENDS Naturals

CONSTANTS
    MaxResets,     \* bound: how often others reset the session
    ThreadSleep,   \* units detect_routine sleeps: 4 s
    RemoveSleep    \* units infinity_hook_remove sleeps: 10 s

ASSUME HookAssumption ==
    MaxResets \in Nat /\ ThreadSleep \in Nat \ {0} /\ RemoveSleep \in Nat \ {0}

VARIABLES
    build,             \* "old": up to 18363, "new": above
    \* globals of the driver
    m_routine_status,
    m_call_back,       \* is it set?
    located,           \* does m_GetCpuClock_ptr point into the current session?
    savedClock,        \* m_original_GetCpuClock
    savedHalp,         \* m_original_HalpTimerQueryHostPerformanceCounter
    \* the kernel
    clock,             \* the session's GetCpuClock
    halp,              \* the HAL's pointer
    session,           \* CKCL: off, on, or on with context-switch events
    inCallback,        \* does a core execute self_get_cpu_clock?
    \* the two threads
    pc,                \* what each does next
    timer,             \* units left of its sleep
    alone,             \* does the detecting thread call initialize without start?
    \* history
    resets,            \* the resets so far
    result,            \* what stop returned
    overlap            \* was the detecting thread past initialize's test of
                       \* m_routine_status when stop cleared it?

globals == <<m_routine_status, m_call_back, located>>
saved   == <<savedClock, savedHalp>>
kernel  == <<clock, halp, session>>
stops   == <<result, overlap>>
hook    == <<build, globals, saved, kernel, inCallback, pc, timer, alone, resets, stops>>

----------------------------------------------------------------------------
Thread == {"driver", "detect"}

\* Points of initialize and start, which both threads call, of detect_routine,
\* and of stop and infinity_hook_remove.
InitPC   == {"test", "update", "open", "reupdate", "locate", "start"}
DetectPC == {"none", "loop", "sleep", "check", "done"}
StopPC   == {"flag", "stop_trace", "start_trace", "restore", "sleep"}

HookTypeOK ==
    /\ build \in {"old", "new"}
    /\ m_routine_status \in BOOLEAN /\ m_call_back \in BOOLEAN /\ located \in BOOLEAN
    /\ savedClock \in {"none", "original", "two"} /\ savedHalp \in {"none", "original", "self"}
    /\ clock \in {"original", "self", "two"} /\ halp \in {"original", "self"}
    /\ session \in {"off", "on", "cswitch"} /\ inCallback \in BOOLEAN
    /\ pc["detect"] \in InitPC \cup DetectPC
    /\ timer["detect"] \in 0..ThreadSleep /\ timer["driver"] \in 0..RemoveSleep
    /\ alone \in BOOLEAN
    /\ resets \in 0..MaxResets /\ result \in BOOLEAN /\ overlap \in BOOLEAN

\* The driver's image is loaded; whether the session is on is others' business.
HookInit ==
    /\ build \in {"old", "new"}
    /\ m_routine_status = TRUE /\ m_call_back = FALSE /\ located = FALSE
    /\ savedClock = "none" /\ savedHalp = "none"
    /\ clock = "original" /\ halp = "original" /\ session \in {"off", "on"}
    /\ inCallback = FALSE
    /\ timer = [w \in Thread |-> 0] /\ alone = FALSE
    /\ resets = 0 /\ result = FALSE /\ overlap = FALSE

----------------------------------------------------------------------------
(* modify_trace_settings: each control may fail.                           *)

Step(w, from, to) == pc[w] = from /\ pc' = [pc EXCEPT ![w] = to]

\* Context-switch events are asked for: the session has to be on.
UpdateTrace ==
    session # "off" /\ session' = "cswitch" /\ UNCHANGED <<clock, halp, located>>

\* A new session has a clock of its own, in the old place or in another.
StartTrace ==
    /\ session = "off" /\ session' = "on" /\ clock' = "original"
    /\ located' \in {located, FALSE}
    /\ UNCHANGED halp

StopTrace ==
    session # "off" /\ session' = "off" /\ UNCHANGED <<clock, halp, located>>

TraceFails == UNCHANGED <<kernel, located>>

----------------------------------------------------------------------------
(* initialize, called by w.                                                *)

\* Where a failure of initialize or start leads.  A faulty variant first.
GivenUpAlways(w) == "failed"
GivenUp(w) == IF w = "detect" THEN "loop" ELSE "failed"
HookRest == <<build, saved, inCallback, timer, resets, stops>>

\* initialize tests m_routine_status before anything else, and only then.
TestNothing == TRUE
MayInitialize == m_routine_status

Test(w) ==
    /\ \/ MayInitialize /\ Step(w, "test", "update") /\ m_call_back' = TRUE
       \/ ~MayInitialize /\ Step(w, "test", GivenUp(w)) /\ UNCHANGED m_call_back
    /\ UNCHANGED <<m_routine_status, located, kernel, alone, HookRest>>

\* Update the session; if that fails start it, and update it again.
Trace(w) ==
    /\ \/ Step(w, "update", "locate") /\ UpdateTrace
       \/ Step(w, "update", "open") /\ TraceFails
       \/ Step(w, "open", "reupdate") /\ StartTrace
       \/ Step(w, "open", GivenUp(w)) /\ TraceFails
       \/ Step(w, "reupdate", "locate") /\ UpdateTrace
       \/ Step(w, "reupdate", GivenUp(w)) /\ TraceFails
    /\ UNCHANGED <<m_routine_status, m_call_back, alone, HookRest>>

\* The addresses are searched for in the kernel's image and in the session.
Locate(w) ==
    /\ session # "off" /\ located' = TRUE
    /\ Step(w, "locate", IF w = "detect" /\ alone THEN "loop" ELSE "start")
    /\ UNCHANGED <<m_routine_status, m_call_back, kernel, alone, HookRest>>

LocateFails(w) ==
    /\ Step(w, "locate", GivenUp(w))
    /\ UNCHANGED <<globals, kernel, alone, HookRest>>

----------------------------------------------------------------------------
(* start, called by w.                                                     *)

\* On a new build the values replaced are kept for stop.
Redirect ==
    \/ /\ build = "old" /\ clock' = "self" /\ UNCHANGED <<halp, saved>>
    \/ /\ build = "new"
       /\ savedClock' = clock /\ clock' = "two"
       /\ savedHalp' = halp /\ halp' = "self"

\* The driver's call creates the detecting thread, which may fail unnoticed.
Start(w) ==
    /\ located
    /\ Redirect
    /\ \/ w = "detect" /\ Step(w, "start", "loop")
       \/ w = "driver" /\ \E first \in {"loop", "none"} :
            /\ pc["driver"] = "start"
            /\ pc' = [driver |-> "lbr_init", detect |-> first]
    /\ UNCHANGED <<build, globals, session, inCallback, timer, alone, resets, stops>>

StartFails(w) ==
    /\ ~located /\ Step(w, "start", GivenUp(w))
    /\ UNCHANGED <<globals, kernel, alone, HookRest>>

----------------------------------------------------------------------------
(* detect_routine.                                                         *)

\* Only on old builds, where the pointer itself is replaced, is it looked at.
\* Faulty variants first.
LooksAlways == TRUE
LooksNever == FALSE
Looks == build = "old"

Loop ==
    /\ \/ m_routine_status /\ Step("detect", "loop", "sleep")
          /\ timer' = [timer EXCEPT !["detect"] = ThreadSleep]
       \/ ~m_routine_status /\ Step("detect", "loop", "done") /\ UNCHANGED timer
    /\ UNCHANGED <<build, globals, saved, kernel, inCallback, alone, resets, stops>>

Wake ==
    /\ timer["detect"] = 0 /\ Step("detect", "sleep", "check")
    /\ UNCHANGED <<globals, kernel, alone, HookRest>>

Check ==
    /\ \/ ~Looks /\ Step("detect", "check", "loop") /\ UNCHANGED alone
       \/ Looks /\ located /\ clock = "self" /\ Step("detect", "check", "loop") /\ UNCHANGED alone
       \/ Looks /\ located /\ clock # "self" /\ Step("detect", "check", "test") /\ alone' = FALSE
       \/ Looks /\ ~located /\ Step("detect", "check", "test") /\ alone' = TRUE
    /\ UNCHANGED <<globals, kernel, HookRest>>

----------------------------------------------------------------------------
(* stop and infinity_hook_remove, called by the driver.                    *)

ClearStatus ==
    /\ Step("driver", "flag", "stop_trace")
    /\ m_routine_status' = FALSE
    /\ overlap' = (pc["detect"] \in InitPC \ {"test"})
    /\ UNCHANGED <<build, m_call_back, located, saved, kernel, inCallback, timer, alone,
                   resets, result>>

\* The session is stopped and, if that worked, started again.
Restart ==
    /\ \/ Step("driver", "stop_trace", "start_trace") /\ StopTrace /\ UNCHANGED result
       \/ Step("driver", "start_trace", "restore") /\ StartTrace /\ result' = TRUE
       \/ /\ Step("driver", "stop_trace", "restore") \/ Step("driver", "start_trace", "restore")
          /\ TraceFails /\ result' = FALSE
    /\ UNCHANGED <<build, m_routine_status, m_call_back, saved, inCallback, timer, alone,
                   resets, overlap>>

\* On a new build both values are put back, the clock where the session was.
\* Then infinity_hook_remove sleeps, whatever stop returned.
PutBack ==
    \/ build = "old" /\ UNCHANGED <<clock, halp>>
    \/ build = "new" /\ halp' = savedHalp /\ clock' = IF located THEN savedClock ELSE clock

Restore ==
    /\ Step("driver", "restore", "sleep")
    /\ PutBack
    /\ timer' = [timer EXCEPT !["driver"] = RemoveSleep]
    /\ UNCHANGED <<build, globals, saved, session, inCallback, alone, resets, stops>>

----------------------------------------------------------------------------
(* The kernel, other users of the session, and time.                       *)

\* An event is logged and the pointer leads to the driver.
Hooked == IF build = "old" THEN clock = "self" ELSE clock = "two" /\ halp = "self"

Cswitch ==
    /\ session = "cswitch" /\ Hooked /\ ~inCallback
    /\ inCallback' = TRUE
    /\ UNCHANGED <<build, globals, saved, kernel, pc, timer, alone, resets, stops>>

CallbackEnds ==
    /\ inCallback /\ inCallback' = FALSE
    /\ UNCHANGED <<build, globals, saved, kernel, pc, timer, alone, resets, stops>>

\* Somebody else restarts or stops the session.
Reset ==
    /\ resets < MaxResets /\ resets' = resets + 1
    /\ session' \in {"off", "on"} /\ clock' = "original" /\ located' \in {located, FALSE}
    /\ UNCHANGED <<build, m_routine_status, m_call_back, saved, halp, inCallback, pc,
                   timer, alone, stops>>

Sleeps(w) == pc[w] = "sleep" /\ timer[w] > 0

\* Two seconds pass; by then all code that does not sleep has ended.
Tick(idle) ==
    /\ \E w \in Thread : Sleeps(w)
    /\ \A w \in Thread : Sleeps(w) \/ pc[w] \in idle
    /\ ~inCallback
    /\ timer' = [w \in Thread |-> IF Sleeps(w) THEN timer[w] - 1 ELSE timer[w]]
    /\ UNCHANGED <<build, globals, saved, kernel, inCallback, pc, alone, resets, stops>>

\* The steps of initialize and start that w takes.
Initializes(w) ==
    Test(w) \/ Trace(w) \/ Locate(w) \/ LocateFails(w) \/ Start(w) \/ StartFails(w)

DetectStep == Initializes("detect") \/ Loop \/ Wake \/ Check
StopStep   == ClearStatus \/ Restart \/ Restore
=============================================================================
