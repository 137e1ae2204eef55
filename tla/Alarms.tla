--------------------------------- MODULE Alarms ---------------------------------
(***************************************************************************)
(* What a timer service promises, without the heap and the lazy            *)
(* cancellation of thttpd-timers: an alarm is pending until it rings or is *)
(* revoked, and a run rings exactly the pending alarms that are due.       *)
(*                                                                         *)
(* A revoked alarm stays silent, but for one thing: until the service has  *)
(* forgotten it, which is its own business, a reset brings it back.        *)
(***************************************************************************)
EXTENDS Naturals

VARIABLES
    pending,    \* the alarms that will ring: [id, deadline, period, callback],
                \* where period 0 rings once
    revoked,    \* cancelled ones that a reset can still bring back
    clock,
    rang        \* the callbacks run by the last step

again(a) == [a EXCEPT !.deadline = clock + a.period]

Start == pending = {} /\ revoked = {} /\ rang = {}

known == pending \union revoked

(* A new alarm, with a callback of its own, under a fresh id.              *)
Schedule ==
    \E a \in pending' :
        /\ a.callback = a.id
        /\ \A b \in known : b.id # a.id
        /\ pending' = pending \union {a}
        /\ rang' = {} /\ UNCHANGED <<revoked, clock>>

(* Cancelled: it is not going to ring.                                     *)
Revoke ==
    \E a \in pending :
        /\ pending' = pending \ {a}
        /\ revoked' = revoked \union {a}
        /\ rang' = {} /\ UNCHANGED clock

(* b is a under a fresh id and a new deadline.                             *)
renewed(a, b) ==
    /\ b.callback = a.callback /\ b.period = a.period
    /\ \A c \in known : c.id # b.id

(* A reset of an alarm that is going to ring.                              *)
Postpone ==
    \E a \in pending, b \in pending' :
        /\ renewed(a, b)
        /\ pending' = (pending \ {a}) \union {b}
        /\ rang' = {} /\ UNCHANGED <<revoked, clock>>

(* A reset of one that was cancelled: it will ring after all.              *)
Revive ==
    \E a \in revoked, b \in pending' :
        /\ renewed(a, b)
        /\ pending' = pending \union {b}
        /\ revoked' = revoked \ {a}
        /\ rang' = {} /\ UNCHANGED clock

(* A run: what is due rings, once; a periodic alarm starts over.           *)
Ring ==
    LET due == {a \in pending : a.deadline <= clock}
    IN  /\ rang' = {a.callback : a \in due}
        /\ pending' = (pending \ due) \union {again(a) : a \in {b \in due : b.period > 0}}
        /\ revoked' \subseteq revoked
        /\ UNCHANGED clock

Pass == clock' = clock + 1 /\ rang' = {} /\ UNCHANGED <<pending, revoked>>

(* A call that names no alarm.                                             *)
Refuse == rang' = {} /\ UNCHANGED <<pending, revoked, clock>>

Step == Schedule \/ Revoke \/ Postpone \/ Revive \/ Ring \/ Pass \/ Refuse

Promise == Start /\ [][Step]_<<pending, revoked, clock, rang>>
=============================================================================
