--------------------------- MODULE BackendProofs ---------------------------
(***************************************************************************)
(* Two parts of a backend's entry in the pool: its breaker when tasks      *)
(* share it access by access (BreakerThreads.tla), for any number of       *)
(* tasks, and its health (Health.tla), for any thresholds and any sequence *)
(* of probes.                                                              *)
(***************************************************************************)
EXTENDS BreakerThreads, Health, NumberLemmas, SequenceTheorems, TLAPS

(* The variables keep their types under every access.                      *)
THEOREM ThreadsTyped == Spec => []TypeOK
  <1>1. Init => TypeOK
    BY DEF Init, TypeOK, newBreaker, freshWindow, States, OpenedAt, Window, Labels
  <1>2. TypeOK /\ [Next]_vars => TypeOK'
    <2> SUFFICES ASSUME TypeOK, [Next]_vars
                 PROVE  TypeOK'
      OBVIOUS
    <2> USE DEF TypeOK, goto, Labels
    <2>1. ASSUME NEW t \in Tasks, CanRouteState(t) PROVE TypeOK'
      BY <2>1 DEF CanRouteState
    <2>2. ASSUME NEW t \in Tasks, Step(t) PROVE TypeOK'
      <3>1. CASE CanRouteTime(t) \/ CanRouteSlot(t)
        BY <3>1 DEF CanRouteTime, CanRouteSlot
      <3>2. CASE AdmitState(t)
        BY <3>2 DEF AdmitState, States
      <3>3. CASE AdmitTime(t) \/ AdmitClaim(t) \/ AdmitPromote(t)
        BY <3>3 DEF AdmitTime, AdmitClaim, AdmitPromote, States
      <3>4. CASE RecordRelease(t) \/ ReleaseSlot(t)
        BY <3>4 DEF RecordRelease, ReleaseSlot
      <3>5. CASE RecordWindow(t)
        <4>1. counted(window, success[t]) \in Window
          <5> DEFINE base == IF window.expired THEN freshWindow ELSE window
          <5>1. base.errors \in Nat /\ base.total \in Nat
            BY DEF freshWindow, Window
          <5> QED
            BY <5>1 DEF counted, Window
        <4> QED
          BY <3>5, <4>1 DEF RecordWindow
      <3>6. CASE TripState(t) \/ CloseState(t)
        BY <3>6 DEF TripState, CloseState, States
      <3>7. CASE TripTime(t) \/ CloseTime(t)
        BY <3>7 DEF TripTime, CloseTime, OpenedAt
      <3>8. CASE TripWindow(t) \/ CloseWindow(t)
        <4>1. freshWindow \in Window
          BY DEF freshWindow, Window
        <4> QED
          BY <3>8, <4>1 DEF TripWindow, CloseWindow
      <3> QED
        BY <2>2, <3>1, <3>2, <3>3, <3>4, <3>5, <3>6, <3>7, <3>8 DEF Step
    <2>3. ASSUME NEW t \in Tasks, Outcome(t) PROVE TypeOK'
      BY <2>3 DEF Outcome, RecordState, ReleaseState
    <2>4. CASE CoolOff
      BY <2>4 DEF CoolOff, OpenedAt
    <2>5. CASE WindowExpires
      BY <2>5 DEF WindowExpires, Window
    <2>6. CASE UNCHANGED vars
      BY <2>6 DEF vars
    <2> QED
      BY <2>1, <2>2, <2>3, <2>4, <2>5, <2>6 DEF Next, Working
  <1> QED
    BY <1>1, <1>2, PTL DEF Spec

(* A task that is about to store HalfOpen holds the slot it claimed.       *)
Promoting == \A t \in Tasks : pc[t] = "admit_promote" => t \in probe

(* However the accesses of any number of tasks interleave, a half-open     *)
(* breaker has a task that will move it on.  With Promoting the invariant  *)
(* is inductive: a resolving task stays one until its own store of Open or *)
(* Closed, and HalfOpen is stored only by a task that is then the probe.   *)
THEOREM HalfOpenAlwaysHasResolver == Spec => []HalfOpenHasResolver
  <1> DEFINE J == Promoting /\ HalfOpenHasResolver
  <1>1. Init => J
    BY DEF Init, Promoting, HalfOpenHasResolver, newBreaker
  <1>2. TypeOK /\ J /\ [Next]_vars => J'
    <2> SUFFICES ASSUME TypeOK, J, [Next]_vars
                 PROVE  J'
      OBVIOUS
    <2> USE DEF TypeOK, goto, Promoting
    <2>1. ASSUME NEW t \in Tasks, CanRouteState(t) PROVE J'
      BY <2>1 DEF CanRouteState, HalfOpenHasResolver
    <2>2. ASSUME NEW t \in Tasks, Step(t) PROVE J'
      <3>1. CASE AdmitPromote(t)
        BY <3>1 DEF AdmitPromote, HalfOpenHasResolver
      <3>2. CASE AdmitClaim(t)
        BY <3>2 DEF AdmitClaim, HalfOpenHasResolver
      <3>3. CASE CanRouteTime(t) \/ CanRouteSlot(t)
        BY <3>3 DEF CanRouteTime, CanRouteSlot, HalfOpenHasResolver
      <3>4. CASE AdmitState(t)
        BY <3>4 DEF AdmitState, HalfOpenHasResolver, States
      <3>5. CASE AdmitTime(t)
        BY <3>5 DEF AdmitTime, HalfOpenHasResolver
      <3>6. CASE RecordRelease(t) \/ ReleaseSlot(t)
        BY <3>6 DEF RecordRelease, ReleaseSlot, HalfOpenHasResolver
      <3>7. CASE RecordWindow(t)
        <4>1. PICK next \in {"trip_state", "idle"} :
                  pc[t] = "record_window" /\ pc' = [pc EXCEPT ![t] = next]
          BY <3>7 DEF RecordWindow
        <4> QED
          BY <3>7, <4>1 DEF RecordWindow, HalfOpenHasResolver
      <3>8. CASE TripState(t) \/ CloseState(t)
        BY <3>8 DEF TripState, CloseState, HalfOpenHasResolver
      <3>9. CASE TripTime(t) \/ CloseTime(t)
        BY <3>9 DEF TripTime, CloseTime, HalfOpenHasResolver
      <3>10. CASE TripWindow(t) \/ CloseWindow(t)
        BY <3>10 DEF TripWindow, CloseWindow, HalfOpenHasResolver
      <3> QED
        BY <2>2, <3>1, <3>2, <3>3, <3>4, <3>5, <3>6, <3>7, <3>8, <3>9, <3>10
           DEF Step
    <2>3. ASSUME NEW t \in Tasks, Outcome(t) PROVE J'
      <3>1. CASE \E ok \in BOOLEAN : RecordState(t, ok)
        BY <3>1 DEF RecordState, HalfOpenHasResolver
      <3>2. CASE ReleaseState(t)
        BY <3>2 DEF ReleaseState, HalfOpenHasResolver
      <3> QED
        BY <2>3, <3>1, <3>2 DEF Outcome
    <2>4. CASE CoolOff
      BY <2>4 DEF CoolOff, HalfOpenHasResolver
    <2>5. CASE WindowExpires
      BY <2>5 DEF WindowExpires, HalfOpenHasResolver
    <2>6. CASE UNCHANGED vars
      BY <2>6 DEF vars, HalfOpenHasResolver
    <2> QED
      BY <2>1, <2>2, <2>3, <2>4, <2>5, <2>6 DEF Next, Working
  <1> QED
    BY <1>1, <1>2, ThreadsTyped, PTL DEF Spec

-----------------------------------------------------------------------------
(* Health.  Which probes decide is found again by induction: a run that    *)
(* goes on is one longer.                                                  *)

(* The last n outcomes of h are v, and the one before them is not.         *)
Trailing(h, v, n) ==
    /\ n \in 0 .. Len(h)
    /\ \A j \in Len(h) - n + 1 .. Len(h) : h[j] = v
    /\ n < Len(h) => h[Len(h) - n] # v

(* An equal outcome prolongs a run, another one ends it.                   *)
LEMMA RunGoesOn ==
    ASSUME NEW h \in Seq(BOOLEAN), NEW v \in BOOLEAN, NEW w \in BOOLEAN, NEW n, Trailing(h, v, n)
    PROVE  /\ Trailing(Append(h, v), v, n + 1)
           /\ w # v => Trailing(Append(h, w), v, 0)
<1>1. Len(h) \in Nat /\ n \in Nat
  BY DEF Trailing
<1>2. ASSUME NEW u \in BOOLEAN
      PROVE  /\ Len(Append(h, u)) = Len(h) + 1
             /\ \A j \in 1 .. Len(h) : Append(h, u)[j] = h[j]
             /\ Append(h, u)[Len(h) + 1] = u
  OBVIOUS
<1> QED BY <1>1, <1>2 DEF Trailing

(* A run that decides is not empty.                                        *)
LEMMA ThresholdTyped ==
    ASSUME NEW v \in BOOLEAN PROVE threshold(v) \in Nat \ {0}
  BY HealthConfig DEF threshold

(* A probe is decisive exactly if it ends a run of enough outcomes.        *)
LEMMA ProbeDecides ==
    ASSUME NEW h \in Seq(BOOLEAN), NEW v \in BOOLEAN, NEW n, Trailing(h, v, n)
    PROVE  decisive(Append(h, v)) =
              decisive(h) \union (IF n + 1 >= threshold(v) THEN {Len(h) + 1} ELSE {})
<1> DEFINE g == Append(h, v)
           t == threshold(v)
           l == Len(h)
<1>1. l \in Nat /\ n \in 0 .. l /\ t \in Nat \ {0}
  BY ThresholdTyped DEF Trailing
<1>2. Len(g) = l + 1 /\ (\A j \in 1 .. l : g[j] = h[j]) /\ g[l + 1] = v
  OBVIOUS
<1>3. /\ \A j \in l - n + 1 .. l : h[j] = v
      /\ n < l => h[l - n] # v
  BY DEF Trailing
<1>4. \A i \in 1 .. l : threshold(h[i]) \in Nat \ {0}
  BY ThresholdTyped
<1>5. decisive(g) = {i \in 1 .. l + 1 : /\ i >= threshold(g[i])
                                        /\ \A j \in i - threshold(g[i]) + 1 .. i : g[j] = g[i]}
  BY <1>2 DEF decisive
<1>6. decisive(h) = {i \in 1 .. l : /\ i >= threshold(h[i])
                                    /\ \A j \in i - threshold(h[i]) + 1 .. i : h[j] = h[i]}
  BY DEF decisive
<1> HIDE DEF g, t, l
<1>7. ASSUME NEW i \in 1 .. l PROVE i \in decisive(g) <=> i \in decisive(h)
  <2>1. g[i] = h[i] /\ threshold(h[i]) \in Nat \ {0}
    BY <1>2, <1>4
  <2>2. i >= threshold(h[i]) =>
            \A j \in i - threshold(h[i]) + 1 .. i : j \in 1 .. l /\ g[j] = h[j]
    BY <1>1, <1>2, <2>1
  <2> QED BY <1>1, <1>5, <1>6, <2>1, <2>2
<1>8. l + 1 \in decisive(g) <=> n + 1 >= t
  <2>1. l + 1 \in decisive(g) <=>
            l + 1 >= t /\ \A j \in l + 1 - t + 1 .. l + 1 : g[j] = v
    BY <1>1, <1>2, <1>5 DEF t
  <2>2. CASE n + 1 >= t
    BY <1>1, <1>2, <1>3, <2>1, <2>2
  <2>3. CASE n + 1 < t /\ l + 1 >= t
    <3>1. n < l /\ l - n \in l + 1 - t + 1 .. l + 1 /\ l - n \in 1 .. l
      BY <1>1, <2>3
    <3>2. g[l - n] # v
      BY <1>2, <1>3, <3>1
    <3> QED BY <1>1, <2>1, <2>3, <3>1, <3>2
  <2> QED BY <1>1, <2>1, <2>2, <2>3
<1>9. decisive(g) \subseteq 1 .. l + 1 /\ decisive(h) \subseteq 1 .. l
  BY <1>5, <1>6
<1>10. decisive(g) = decisive(h) \union (IF n + 1 >= t THEN {l + 1} ELSE {})
  BY <1>1, <1>7, <1>8, <1>9
<1> QED BY <1>10 DEF g, t, l

(* What a decisive probe says, and what the last one of h said.            *)
word(v) == IF v THEN "Healthy" ELSE "Unhealthy"

verdict(h) == IF decisive(h) = {} \/ h[Max(decisive(h))] THEN "Healthy" ELSE "Unhealthy"

(* A decisive probe settles it, another one changes nothing.               *)
LEMMA VerdictMoves ==
    ASSUME NEW h \in Seq(BOOLEAN), NEW v \in BOOLEAN, NEW n, Trailing(h, v, n)
    PROVE  verdict(Append(h, v)) = IF n + 1 >= threshold(v) THEN word(v) ELSE verdict(h)
<1> DEFINE g == Append(h, v)
           D == decisive(h)
           E == decisive(g)
           l == Len(h)
<1>1. l \in Nat /\ (\A j \in 1 .. l : g[j] = h[j]) /\ g[l + 1] = v
  OBVIOUS
<1>2. D \subseteq 1 .. l
  BY DEF decisive
<1>3. E = D \union (IF n + 1 >= threshold(v) THEN {l + 1} ELSE {})
  BY ProbeDecides
<1>4. verdict(h) = (IF D = {} \/ h[Max(D)] THEN "Healthy" ELSE "Unhealthy")
      /\ verdict(g) = (IF E = {} \/ g[Max(E)] THEN "Healthy" ELSE "Unhealthy")
  BY DEF verdict
<1> HIDE DEF g, D, E, l
<1>5. CASE n + 1 >= threshold(v)
  <2>1. E = D \union {l + 1} /\ E \in SUBSET (1 .. l + 1) /\ l + 1 \in E /\ l + 1 \in Nat
    BY <1>1, <1>2, <1>3, <1>5
  <2>2. Max(E) \in E /\ \A x \in E : x <= Max(E)
    BY <2>1, BoundedSetMax
  <2>3. Max(E) \in 1 .. l + 1 /\ l + 1 <= Max(E)
    BY <2>1, <2>2
  <2>4. Max(E) = l + 1
    BY <1>1, <2>3
  <2>5. verdict(g) = word(v)
    BY <1>1, <1>4, <2>1, <2>4 DEF word
  <2> QED BY <1>5, <2>5 DEF g
<1>6. CASE ~(n + 1 >= threshold(v))
  <2>1. E = D
    BY <1>3, <1>6
  <2>2. D # {} => Max(D) \in 1 .. l
    BY <1>1, <1>2, BoundedSetMax
  <2>3. D # {} => g[Max(D)] = h[Max(D)]
    BY <1>1, <2>2
  <2>4. verdict(g) = verdict(h)
    BY <1>4, <2>1, <2>3
  <2> QED BY <1>6, <2>4 DEF g
<1> QED BY <1>5, <1>6

(* The counters are the lengths of the runs that the outcomes end with,    *)
(* and the health is the verdict so far.                                   *)
Tallied(b) ==
    /\ Trailing(probes[b], TRUE, consecutive_successes[b])
    /\ Trailing(probes[b], FALSE, consecutive_failures[b])
    /\ health[b] = verdict(probes[b])

(* The inductive invariant.                                                *)
HealthInv ==
    /\ health = [b \in Members |-> health[b]]
    /\ consecutive_successes = [b \in Members |-> consecutive_successes[b]]
    /\ consecutive_failures = [b \in Members |-> consecutive_failures[b]]
    /\ probes \in [Members -> Seq(BOOLEAN)]
    /\ \A b \in Members : Tallied(b)

(* A backend is what the last uninterrupted run of enough equal probes     *)
(* said, for any thresholds and any sequence of probes (update_health,     *)
(* health.rs:55-78).                                                       *)
THEOREM HealthAlwaysFollowsProbes == HealthSpec => []HealthFollowsProbes
<1>1. HealthInit => HealthInv
  <2> SUFFICES ASSUME HealthInit PROVE HealthInv
    OBVIOUS
  <2>1. <<>> \in Seq(BOOLEAN) /\ Len(<<>>) = 0
    BY EmptySeq
  <2>2. decisive(<<>>) = {}
    BY <2>1 DEF decisive
  <2>3. verdict(<<>>) = "Healthy"
    BY <2>2 DEF verdict
  <2>4. Trailing(<<>>, TRUE, 0) /\ Trailing(<<>>, FALSE, 0)
    BY <2>1 DEF Trailing
  <2>5. ASSUME NEW b \in Members PROVE Tallied(b)
    <3>1. /\ probes[b] = <<>> /\ health[b] = "Healthy"
          /\ consecutive_successes[b] = 0 /\ consecutive_failures[b] = 0
      BY DEF HealthInit
    <3> QED BY <2>3, <2>4, <3>1 DEF Tallied
  <2>6. probes \in [Members -> Seq(BOOLEAN)]
    BY <2>1 DEF HealthInit
  <2> QED BY <2>5, <2>6 DEF HealthInit, HealthInv
<1>2. HealthInv /\ [HealthNext]_healthVars => HealthInv'
  <2> SUFFICES ASSUME HealthInv, [HealthNext]_healthVars PROVE HealthInv'
    OBVIOUS
  <2>1. ASSUME NEW b \in Members, NEW v \in BOOLEAN,
               probes' = [probes EXCEPT ![b] = Append(@, v)],
               \A a \in Members \ {b} : /\ health'[a] = health[a]
                                         /\ consecutive_successes'[a] = consecutive_successes[a]
                                         /\ consecutive_failures'[a] = consecutive_failures[a],
               Tallied(b)',
               health' = [a \in Members |-> health'[a]],
               consecutive_successes' = [a \in Members |-> consecutive_successes'[a]],
               consecutive_failures' = [a \in Members |-> consecutive_failures'[a]]
        PROVE  HealthInv'
    <3>1. probes' \in [Members -> Seq(BOOLEAN)] /\ \A a \in Members \ {b} : probes'[a] = probes[a]
      BY <2>1 DEF HealthInv
    <3>2. ASSUME NEW a \in Members \ {b} PROVE Tallied(a)'
      BY <2>1, <3>1 DEF HealthInv, Tallied
    <3> QED BY <2>1, <3>1, <3>2 DEF HealthInv
  <2>2. ASSUME NEW b \in Members, Probe(b, TRUE) PROVE HealthInv'
    <3> DEFINE h == probes[b]
               n == consecutive_successes[b]
    <3>1. h \in Seq(BOOLEAN) /\ Trailing(h, TRUE, n) /\ health[b] = verdict(h)
          /\ Trailing(h, FALSE, consecutive_failures[b])
      BY DEF HealthInv, Tallied
    <3>2. probes' = [probes EXCEPT ![b] = Append(@, TRUE)]
          /\ consecutive_failures' = [consecutive_failures EXCEPT ![b] = 0]
          /\ consecutive_successes' = [consecutive_successes EXCEPT ![b] = n + 1]
          /\ health' = (IF n + 1 >= threshold(TRUE) THEN [health EXCEPT ![b] = "Healthy"]
                        ELSE health)
      BY <2>2 DEF Probe, Succeeds, threshold
    <3>3. Trailing(Append(h, TRUE), TRUE, n + 1) /\ Trailing(Append(h, TRUE), FALSE, 0)
          /\ verdict(Append(h, TRUE)) =
                (IF n + 1 >= threshold(TRUE) THEN word(TRUE) ELSE verdict(h))
      BY <3>1, RunGoesOn, VerdictMoves
    <3>4. health'[b] = verdict(Append(h, TRUE))
      BY <3>1, <3>2, <3>3 DEF HealthInv, word
    <3>5. Tallied(b)'
      BY <3>2, <3>3, <3>4 DEF HealthInv, Tallied
    <3> QED BY <2>1, <3>2, <3>5 DEF HealthInv
  <2>3. ASSUME NEW b \in Members, Probe(b, FALSE) PROVE HealthInv'
    <3> DEFINE h == probes[b]
               n == consecutive_failures[b]
    <3>1. h \in Seq(BOOLEAN) /\ Trailing(h, FALSE, n) /\ health[b] = verdict(h)
          /\ Trailing(h, TRUE, consecutive_successes[b])
      BY DEF HealthInv, Tallied
    <3>2. probes' = [probes EXCEPT ![b] = Append(@, FALSE)]
          /\ consecutive_successes' = [consecutive_successes EXCEPT ![b] = 0]
          /\ consecutive_failures' = [consecutive_failures EXCEPT ![b] = n + 1]
          /\ health' = (IF n + 1 >= threshold(FALSE) THEN [health EXCEPT ![b] = "Unhealthy"]
                        ELSE health)
      BY <2>3 DEF Probe, Fails, threshold
    <3>3. Trailing(Append(h, FALSE), FALSE, n + 1) /\ Trailing(Append(h, FALSE), TRUE, 0)
          /\ verdict(Append(h, FALSE)) =
                (IF n + 1 >= threshold(FALSE) THEN word(FALSE) ELSE verdict(h))
      BY <3>1, RunGoesOn, VerdictMoves
    <3>4. health'[b] = verdict(Append(h, FALSE))
      BY <3>1, <3>2, <3>3 DEF HealthInv, word
    <3>5. Tallied(b)'
      BY <3>2, <3>3, <3>4 DEF HealthInv, Tallied
    <3> QED BY <2>1, <3>2, <3>5 DEF HealthInv
  <2>4. CASE Round \/ UNCHANGED healthVars
    BY <2>4 DEF Round, healthVars, HealthInv, Tallied
  <2> QED BY <2>2, <2>3, <2>4 DEF HealthNext
<1>3. HealthInv => HealthFollowsProbes
  BY DEF HealthInv, Tallied, HealthFollowsProbes, verdict
<1> QED BY <1>1, <1>2, <1>3, PTL DEF HealthSpec
=============================================================================
