----------------------------- MODULE BreakerThreads -----------------------------
(***************************************************************************)
(* The circuit breaker of circuit.rs as the proxy's worker threads really  *)
(* run it: `state` and `probe_in_flight` are separate atomics, `opened_at` *)
(* and `window` sit behind separate mutexes, and the handlers of a         *)
(* multi-threaded runtime interleave between any two of those accesses.    *)
(* Each action is one atomic access or one critical section of one task,   *)
(* and pc names the access the task makes next.  The accesses are taken    *)
(* in a single order (sequential consistency).                             *)
(***************************************************************************)
EXTENDS BreakerOps

CONSTANTS
    Tasks,      \* the handler tasks that use this backend
    MaxTotal    \* bound: outcomes counted in one window

VARIABLES
    state, opened_at, probe_in_flight, window,   \* the fields of Breaker
    pc,         \* the next access of each task
    success,    \* the outcome a task is recording
    probe       \* tasks whose request claimed the half-open slot

vars == <<state, opened_at, probe_in_flight, window, pc, success, probe>>

Labels == {"idle",
           "can_route_time", "can_route_slot", "selected",   \* can_route
           "admit_time", "admit_claim", "admit_promote",     \* try_admit
           "in_flight",
           "record_release", "record_window",                \* record
           "release_slot",                                   \* release_probe
           "trip_state", "trip_time", "trip_window",         \* trip
           "close_state", "close_time", "close_window"}      \* close

TypeOK ==
    /\ state \in States
    /\ opened_at \in OpenedAt
    /\ probe_in_flight \in BOOLEAN
    /\ window \in Window
    /\ pc \in [Tasks -> Labels]
    /\ success \in [Tasks -> BOOLEAN]
    /\ probe \in SUBSET Tasks

Init ==
    /\ state = newBreaker.state
    /\ opened_at = newBreaker.opened_at
    /\ probe_in_flight = newBreaker.probe_in_flight
    /\ window = newBreaker.window
    /\ pc = [t \in Tasks |-> "idle"]
    /\ success = [t \in Tasks |-> TRUE]
    /\ probe = {}

goto(t, from, to) ==
    /\ pc[t] = from
    /\ pc' = [pc EXCEPT ![t] = to]

-----------------------------------------------------------------------------
(* can_route: the candidate filter a request passes before try_admit.      *)

CanRouteState(t) ==
    /\ \/ state = "Closed" /\ goto(t, "idle", "selected")
       \/ state = "Open" /\ goto(t, "idle", "can_route_time")
    /\ UNCHANGED <<state, opened_at, probe_in_flight, window, success, probe>>

CanRouteTime(t) ==
    /\ goto(t, "can_route_time",
            IF opened_at = "cooled" THEN "can_route_slot" ELSE "idle")
    /\ UNCHANGED <<state, opened_at, probe_in_flight, window, success, probe>>

CanRouteSlot(t) ==
    /\ goto(t, "can_route_slot", IF probe_in_flight THEN "idle" ELSE "selected")
    /\ UNCHANGED <<state, opened_at, probe_in_flight, window, success, probe>>

-----------------------------------------------------------------------------
(* try_admit: load the state; check the cool-off; claim; promote.          *)

AdmitState(t) ==
    /\ goto(t, "selected", CASE state = "Closed" -> "in_flight"
                             [] state = "Open" -> "admit_time"
                             [] state = "HalfOpen" -> "idle")
    /\ UNCHANGED <<state, opened_at, probe_in_flight, window, success, probe>>

AdmitTime(t) ==
    /\ goto(t, "admit_time",
            IF opened_at = "cooled" THEN "admit_claim" ELSE "idle")
    /\ UNCHANGED <<state, opened_at, probe_in_flight, window, success, probe>>

(* compare_exchange(false, true): the loser is refused.                    *)
AdmitClaim(t) ==
    /\ goto(t, "admit_claim", IF probe_in_flight THEN "idle" ELSE "admit_promote")
    /\ probe_in_flight' = TRUE
    /\ probe' = IF probe_in_flight THEN probe ELSE probe \union {t}
    /\ UNCHANGED <<state, opened_at, window, success>>

AdmitPromote(t) ==
    /\ goto(t, "admit_promote", "in_flight")
    /\ state' = "HalfOpen"
    /\ UNCHANGED <<opened_at, probe_in_flight, window, success, probe>>

-----------------------------------------------------------------------------
(* record: the outcome arrives and the state is loaded.                    *)

(* A slip: an outcome that finds the breaker half-open is dropped.         *)
RecordStateDrops(t, ok) ==
    /\ goto(t, "in_flight", IF state = "HalfOpen" THEN "idle" ELSE "record_window")
    /\ success' = [success EXCEPT ![t] = ok]
    /\ probe' = probe \ {t}
    /\ UNCHANGED <<state, opened_at, probe_in_flight, window>>

RecordState(t, ok) ==
    /\ goto(t, "in_flight",
            IF state = "HalfOpen" THEN "record_release" ELSE "record_window")
    /\ success' = [success EXCEPT ![t] = ok]
    /\ probe' = probe \ {t}
    /\ UNCHANGED <<state, opened_at, probe_in_flight, window>>

RecordRelease(t) ==
    /\ goto(t, "record_release",
            IF success[t] THEN "close_state" ELSE "trip_state")
    /\ probe_in_flight' = FALSE
    /\ UNCHANGED <<state, opened_at, window, success, probe>>

(* One critical section: restart an expired window, count, decide.  The    *)
(* lock is dropped before trip().                                          *)
RecordWindow(t) ==
    /\ window.expired \/ window.total < MaxTotal
    /\ window' = counted(window, success[t])
    /\ goto(t, "record_window",
            IF overThreshold(window') THEN "trip_state" ELSE "idle")
    /\ UNCHANGED <<state, opened_at, probe_in_flight, success, probe>>

(* release_probe, called by a mirrored request in place of record.         *)
ReleaseState(t) ==
    /\ goto(t, "in_flight", IF state = "HalfOpen" THEN "release_slot" ELSE "idle")
    /\ probe' = probe \ {t}
    /\ UNCHANGED <<state, opened_at, probe_in_flight, window, success>>

ReleaseSlot(t) ==
    /\ goto(t, "release_slot", "trip_state")
    /\ probe_in_flight' = FALSE
    /\ UNCHANGED <<state, opened_at, window, success, probe>>

-----------------------------------------------------------------------------
(* trip and close: three stores each, in the code's order.                 *)

TripState(t) ==
    /\ goto(t, "trip_state", "trip_time")
    /\ state' = "Open"
    /\ UNCHANGED <<opened_at, probe_in_flight, window, success, probe>>

TripTime(t) ==
    /\ goto(t, "trip_time", "trip_window")
    /\ opened_at' = "fresh"
    /\ UNCHANGED <<state, probe_in_flight, window, success, probe>>

TripWindow(t) ==
    /\ goto(t, "trip_window", "idle")
    /\ window' = freshWindow
    /\ UNCHANGED <<state, opened_at, probe_in_flight, success, probe>>

CloseState(t) ==
    /\ goto(t, "close_state", "close_time")
    /\ state' = "Closed"
    /\ UNCHANGED <<opened_at, probe_in_flight, window, success, probe>>

CloseTime(t) ==
    /\ goto(t, "close_time", "close_window")
    /\ opened_at' = "None"
    /\ UNCHANGED <<state, probe_in_flight, window, success, probe>>

CloseWindow(t) ==
    /\ goto(t, "close_window", "idle")
    /\ window' = freshWindow
    /\ UNCHANGED <<state, opened_at, probe_in_flight, success, probe>>

-----------------------------------------------------------------------------

CoolOff ==
    /\ opened_at = "fresh"
    /\ opened_at' = "cooled"
    /\ UNCHANGED <<state, probe_in_flight, window, pc, success, probe>>

WindowExpires ==
    /\ ~window.expired
    /\ window' = [window EXCEPT !.expired = TRUE]
    /\ UNCHANGED <<state, opened_at, probe_in_flight, pc, success, probe>>

(* The accesses that belong to a call already begun.                       *)
Step(t) ==
    \/ CanRouteTime(t) \/ CanRouteSlot(t)
    \/ AdmitState(t) \/ AdmitTime(t) \/ AdmitClaim(t) \/ AdmitPromote(t)
    \/ RecordRelease(t) \/ RecordWindow(t) \/ ReleaseSlot(t)
    \/ TripState(t) \/ TripTime(t) \/ TripWindow(t)
    \/ CloseState(t) \/ CloseTime(t) \/ CloseWindow(t)

(* The outcome of a request in flight.                                     *)
Outcome(t) == (\E ok \in BOOLEAN : RecordState(t, ok)) \/ ReleaseState(t)

Working == \E t \in Tasks : CanRouteState(t) \/ Step(t) \/ Outcome(t)

Next == Working \/ CoolOff \/ WindowExpires

Spec == Init /\ [][Next]_vars

(* The runtime keeps polling a task that is between two accesses.  Nothing  *)
(* is assumed of the backends: a request may stay in flight for ever.      *)
FairSpec == Spec /\ \A t \in Tasks : WF_vars(Step(t))

(* The same, when no task is held up between two accesses of one method    *)
(* for as long as the cool-off.                                            *)
PromptNext ==
    \/ Working
    \/ (\A t \in Tasks : pc[t] \in {"idle", "in_flight"}) /\ CoolOff
    \/ WindowExpires

PromptSpec == Init /\ [][PromptNext]_vars

-----------------------------------------------------------------------------

(* Some task is committed to moving a half-open breaker on: the probe is   *)
(* still in flight, or a task that saw HalfOpen has yet to store the new   *)
(* state.  No interleaving of the accesses leaves the breaker half-open    *)
(* with nobody to resolve it (circuit.rs:84-94, 171).                      *)
HalfOpenHasResolver ==
    state = "HalfOpen" =>
        \E t \in Tasks :
            \/ pc[t] = "in_flight" /\ t \in probe
            \/ pc[t] \in {"record_release", "release_slot",
                          "trip_state", "close_state"}

(* A half-open breaker leaves that state, provided every request in        *)
(* flight gets an answer or an error some time: the probe's outcome, or    *)
(* that of an older request, resolves it.                                  *)
HalfOpenIsResolved ==
    (\A t \in Tasks : []<>(pc[t] # "in_flight"))
    => (state = "HalfOpen" ~> state # "HalfOpen")

(* "After a cool-off, the breaker enters half-open and allows a single     *)
(* probe" (circuit.rs:5-6): an open breaker that no task is using admits   *)
(* a probe once the cool-off is over.                                      *)
IdleOpenBreakerRecovers ==
    (/\ \A t \in Tasks : pc[t] = "idle"
     /\ state = "Open"
     /\ opened_at # "fresh")
    => can_route([state |-> state, opened_at |-> opened_at,
                  probe_in_flight |-> probe_in_flight, window |-> window])
=============================================================================
