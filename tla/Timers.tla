--------------------------------- MODULE Timers ---------------------------------
(***************************************************************************)
(* The timer wheel of thttpd-timers: a binary heap ordered by deadline and *)
(* id, and a set of cancelled ids whose entries leave the heap only when   *)
(* they reach its top.  A call is one step: the wheel has one owner, and a *)
(* callback cannot reach it.  Time is a counter; a run takes none of it.   *)
(***************************************************************************)
EXTENDS Naturals

CONSTANTS
    Delays,     \* delays and periods a caller asks for
    MaxTimers,  \* bound: ids handed out
    MaxClock    \* bound: how far the clock goes

ASSUME TimersConfig == Delays \subseteq Nat \ {0} /\ MaxTimers \in Nat /\ MaxClock \in Nat

VARIABLES
    heap,       \* the entries, as a set: their order is a function of them
    next_id,
    cancelled,  \* ids marked by cancel
    clock,      \* Instant::now()
    rang        \* callbacks run by the last step

timersVars == <<heap, next_id, cancelled, clock, rang>>

TimerEntry == [id : Nat, deadline : Nat, period : Nat, callback : Nat]

TimersTypeOK ==
    /\ heap \subseteq TimerEntry
    /\ next_id \in Nat /\ cancelled \subseteq Nat /\ clock \in Nat /\ rang \subseteq Nat

TimersInit == heap = {} /\ next_id = 0 /\ cancelled = {} /\ clock = 0 /\ rang = {}

(* Ord for TimerEntry: the deadline, then the id.                          *)
before(e, f) == e.deadline < f.deadline \/ (e.deadline = f.deadline /\ e.id < f.id)

is_cancelled(e) == e.id \in cancelled

-----------------------------------------------------------------------------

push(entries, delay, period, callback) ==
    entries \union {[id |-> next_id, deadline |-> clock + delay, period |-> period,
                     callback |-> callback]}

(* create (period 0: rings once) and create_periodic.  A callback is named *)
(* by the first id of its timer.                                           *)
Create(delay, period) ==
    /\ next_id < MaxTimers
    /\ heap' = push(heap, delay, period, next_id)
    /\ next_id' = next_id + 1
    /\ rang' = {}
    /\ UNCHANGED <<cancelled, clock>>

(* Any id handed out so far, whether its timer still exists or not.        *)
Cancel(id) ==
    /\ id < next_id
    /\ cancelled' = cancelled \union {id}
    /\ rang' = {}
    /\ UNCHANGED <<heap, next_id, clock>>

(* A slip: the period of the reset timer is lost.                          *)
ResetOnce(id, delay) ==
    /\ id < next_id /\ next_id < MaxTimers
    /\ \E old \in heap :
          /\ old.id = id
          /\ heap' = push(heap \ {old}, delay, 0, old.callback)
    /\ cancelled' = cancelled \ {id}
    /\ next_id' = next_id + 1
    /\ rang' = {}
    /\ UNCHANGED clock

(* reset finds the entry in the heap, cancelled or not, gives it a new id  *)
(* and drops the mark of the old one; otherwise it returns None.           *)
Reset(id, delay) ==
    /\ id < next_id /\ next_id < MaxTimers
    /\ \/ \E old \in heap :
             /\ old.id = id
             /\ heap' = push(heap \ {old}, delay, old.period, old.callback)
             /\ cancelled' = cancelled \ {id}
             /\ next_id' = next_id + 1
       \/ /\ \A e \in heap : e.id # id
          /\ UNCHANGED <<heap, cancelled, next_id>>
    /\ rang' = {}
    /\ UNCHANGED clock

(* run: the top is taken off while it is due or marked.  Every due entry   *)
(* goes, and runs unless it is marked; a periodic one is pushed again.     *)
(* Marked entries go as well when nothing live is ahead of them.           *)
Run ==
    LET due   == {e \in heap : e.deadline <= clock}
        fired == {e \in due : ~is_cancelled(e)}
        rest  == (heap \ due) \union
                 {[e EXCEPT !.deadline = clock + e.period] : e \in {f \in fired : f.period > 0}}
        swept == {e \in rest : is_cancelled(e)
                               /\ \A f \in rest : ~is_cancelled(f) => before(e, f)}
    IN  /\ rang' = {e.callback : e \in fired}
        /\ heap' = rest \ swept
        /\ cancelled' = cancelled \ {e.id : e \in (due \ fired) \union swept}
        /\ UNCHANGED <<next_id, clock>>

Tick ==
    /\ clock < MaxClock
    /\ clock' = clock + 1 /\ rang' = {}
    /\ UNCHANGED <<heap, next_id, cancelled>>

TimersNext ==
    \/ \E delay \in Delays, period \in Delays \union {0} :
          /\ period \in {0, delay}
          /\ Create(delay, period)
    \/ \E id \in 0..(next_id - 1) : Cancel(id)
    \/ \E id \in 0..(next_id - 1), delay \in Delays : Reset(id, delay)
    \/ Run
    \/ Tick

TimersSpec == TimersInit /\ [][TimersNext]_timersVars

-----------------------------------------------------------------------------

(* A mark left behind by the cancellation of a timer that had already run  *)
(* never hits another timer: ids are not reused, so a timer that is made   *)
(* or reset is live (cancel and reset, thttpd-timers lib.rs:95-142).  And  *)
(* no two entries share an id, so one mark hits one timer.                 *)
MarksHitTheirTimer ==
    /\ \A id \in cancelled : id < next_id
    /\ \A e \in heap : e.id < next_id
    /\ \A e, f \in heap : e.id = f.id => e = f

live == {e \in heap : ~is_cancelled(e)}

A == INSTANCE Alarms WITH pending <- live, revoked <- heap \ live

(* The heap with its lazy marks behaves like a set of alarms: a run rings  *)
(* exactly the live timers that are due, each once, a timer that was       *)
(* cancelled never rings unless a reset brings it back before its entry    *)
(* leaves the heap, and a reset keeps callback and period (cancel, reset   *)
(* and run, thttpd-timers lib.rs:95-185).                                  *)
KeepsAlarmPromise == A!Promise
=============================================================================
