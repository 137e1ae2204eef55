------------------------------ MODULE BreakerOps ------------------------------
(***************************************************************************)
(* The per-backend circuit breaker of thttpd-migrate (circuit.rs) as a     *)
(* value: a record and one operator per method.  An operator is the whole  *)
(* effect of a call that no other thread overlaps; BreakerThreads.tla      *)
(* takes the same methods apart into their atomic accesses.                *)
(*                                                                         *)
(* Time is abstracted to what the code asks of it.  opened_at is compared  *)
(* with COOL_OFF only, so it is None, "fresh" or "cooled"; the window's    *)
(* start is compared with window_secs only, so the window is expired or    *)
(* not.                                                                    *)
(***************************************************************************)
EXTENDS Naturals

CONSTANTS
    MinRequests,    \* CircuitConfig.min_requests
    ThresholdNum,   \* error_rate_threshold = ThresholdNum / ThresholdDen
    ThresholdDen

ASSUME BreakerConfig ==
    /\ MinRequests \in Nat \ {0}
    /\ ThresholdNum \in Nat
    /\ ThresholdDen \in Nat \ {0}

States == {"Closed", "Open", "HalfOpen"}

OpenedAt == {"None", "fresh", "cooled"}

Window == [errors : Nat, total : Nat, expired : BOOLEAN]

BreakerValue == [state : States, opened_at : OpenedAt, probe_in_flight : BOOLEAN,
                 window : Window]

freshWindow == [errors |-> 0, total |-> 0, expired |-> FALSE]

newBreaker == [state |-> "Closed", opened_at |-> "None",
               probe_in_flight |-> FALSE, window |-> freshWindow]

-----------------------------------------------------------------------------

trip(b) == [b EXCEPT !.state = "Open", !.opened_at = "fresh",
                     !.window = freshWindow]

close(b) == [b EXCEPT !.state = "Closed", !.opened_at = "None",
                      !.window = freshWindow]

(* One outcome added to the window, which restarts when it has expired.    *)
counted(w, success) ==
    LET base == IF w.expired THEN freshWindow ELSE w
    IN  [errors  |-> IF success THEN base.errors ELSE base.errors + 1,
         total   |-> base.total + 1,
         expired |-> FALSE]

(* rate > error_rate_threshold once there are min_requests outcomes.       *)
overThreshold(w) ==
    /\ w.total >= MinRequests
    /\ w.errors * ThresholdDen > ThresholdNum * w.total

(* A slip: the slot is not released.                                       *)
recordKeepsSlot(b, success) ==
    LET w == counted(b.window, success)
    IN  IF b.state = "HalfOpen"
        THEN IF success THEN close(b) ELSE trip(b)
        ELSE IF overThreshold(w) THEN trip(b) ELSE [b EXCEPT !.window = w]

(* In half-open any outcome is taken for the probe's; otherwise the        *)
(* outcome is counted, and may trip the breaker, also when already Open.   *)
record(b, success) ==
    LET released == [b EXCEPT !.probe_in_flight = FALSE]
        w        == counted(b.window, success)
    IN  IF b.state = "HalfOpen"
        THEN IF success THEN close(released) ELSE trip(released)
        ELSE IF overThreshold(w) THEN trip(b) ELSE [b EXCEPT !.window = w]

release_probe(b) ==
    IF b.state = "HalfOpen"
    THEN trip([b EXCEPT !.probe_in_flight = FALSE])
    ELSE b

can_route(b) ==
    \/ b.state = "Closed"
    \/ b.state = "Open" /\ b.opened_at = "cooled" /\ ~b.probe_in_flight

(* try_admit: whether the caller gets in, and the breaker it leaves.  The  *)
(* compare-exchange succeeds when no probe is claimed.                     *)
admits(b) ==
    \/ b.state = "Closed"
    \/ b.state = "Open" /\ b.opened_at = "cooled" /\ ~b.probe_in_flight

try_admit(b) ==
    IF b.state = "Open" /\ admits(b)
    THEN [b EXCEPT !.probe_in_flight = TRUE, !.state = "HalfOpen"]
    ELSE b

(* The clock: five seconds pass after a trip; window_secs pass.            *)
cool(b) == [b EXCEPT !.opened_at = "cooled"]

expire(b) == [b EXCEPT !.window.expired = TRUE]
=============================================================================
