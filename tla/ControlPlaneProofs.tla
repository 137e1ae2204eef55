------------------------- MODULE ControlPlaneProofs -------------------------
(***************************************************************************)
(* What control_lock gives: commands and state writer exclude each other,  *)
(* so the pool and the stored config agree between commands and state.json *)
(* shows them; what the accept loop's look at the drain flag gives; and    *)
(* what a rollback decides for requests that read the pool without the     *)
(* lock.                                                                   *)
(***************************************************************************)
EXTENDS ControlPlane, NumberLemmas, SequenceTheorems, TLAPS

Places == {"idle", "validate", "apply", "save", "respond"}

Shape ==
    /\ weight \in [Backends -> Nat]
    /\ config \in [mode : {"active", "shadow"}, primary : Names \union {None},
                   shadow : Names \union {None}, weight : [Backends -> Nat]]
    /\ handler \in [Handlers -> [pc : Places, cmd : Command, left : SUBSET Names]]

(* Who is in the middle of something holds the lock, and while the writer  *)
(* holds it its snapshot stays true.                                       *)
Exclusive ==
    /\ \A h \in Handlers : handler[h].pc # "idle" => lock = h
    /\ writer.pc = "write" => lock = "writer" /\ writer.snap = Snapshot

(* A command half-way through the pool: the backends still to come have    *)
(* the weights of the config, the others those of the command.             *)
HalfWay(h) ==
    LET cmd == handler[h].cmd
    IN  /\ cmd.kind \in {"set_weight", "rollback"}
        /\ \E b \in Backends : overridden(cmd, config.weight)[b] > 0
        /\ \A b \in Backends :
              weight[b] = IF b \in handler[h].left THEN config.weight[b]
                          ELSE overridden(cmd, config.weight)[b]

Agreement ==
    /\ \A h \in Handlers : handler[h].pc = "apply" => HalfWay(h)
    /\ (\A h \in Handlers : handler[h].pc # "apply") =>
          weight = config.weight /\ \E b \in Backends : weight[b] > 0
    /\ (\A h \in Handlers : handler[h].pc \notin {"apply", "save"}) =>
          file \in {Snapshot, None}

ControlInv == Shape /\ Exclusive /\ Agreement

-----------------------------------------------------------------------------

(* What the proofs use of the configuration, with the order left out.      *)
LEMMA ConfigFacts ==
    /\ Backends \subseteq Names
    /\ None \notin Names
    /\ {None, "writer"} \cap Handlers = {} /\ None # "writer"
    /\ Weights \subseteq Nat
    /\ FullWeight \in Nat \ {0}
    /\ Commands \subseteq Command
  BY ControlConfig DEF Backends, Range

(* The fields of a command that changes weights.                           *)
LEMMA CommandFields ==
    ASSUME NEW cmd \in Command
    PROVE  /\ cmd.kind = "set_weight" =>
                 /\ DOMAIN cmd.weights \subseteq Names
                 /\ \A b \in DOMAIN cmd.weights : cmd.weights[b] \in Weights
           /\ cmd.kind = "rollback" => cmd.to \in Names
<1>1. ASSUME NEW S \in SUBSET Names, cmd \in [kind : {"set_weight"}, weights : [S -> Weights]]
      PROVE  /\ cmd.kind = "set_weight"
             /\ DOMAIN cmd.weights \subseteq Names
             /\ \A b \in DOMAIN cmd.weights : cmd.weights[b] \in Weights
  BY <1>1
<1>2. ASSUME cmd \in [kind : {"rollback"}, to : Names]
      PROVE  cmd.kind = "rollback" /\ cmd.to \in Names
  BY <1>2
<1>3. ASSUME cmd \in [kind : {"drain", "snapshot"}]
      PROVE  cmd.kind \in {"drain", "snapshot"}
  BY <1>3
<1>4. \/ \E S \in SUBSET Names : cmd \in [kind : {"set_weight"}, weights : [S -> Weights]]
      \/ cmd \in [kind : {"rollback"}, to : Names]
      \/ cmd \in [kind : {"drain", "snapshot"}]
  <2>1. \/ cmd \in UNION {[kind : {"set_weight"}, weights : [S -> Weights]] : S \in SUBSET Names}
        \/ cmd \in [kind : {"rollback"}, to : Names]
        \/ cmd \in [kind : {"drain", "snapshot"}]
    BY Zenon DEF Command
  <2>2. ASSUME cmd \in UNION {[kind : {"set_weight"}, weights : [S -> Weights]] : S \in SUBSET Names}
        PROVE  \E S \in SUBSET Names : cmd \in [kind : {"set_weight"}, weights : [S -> Weights]]
    BY <2>2, Zenon
  <2> QED BY <2>1, <2>2, Zenon
<1>5. CASE \E S \in SUBSET Names : cmd \in [kind : {"set_weight"}, weights : [S -> Weights]]
  BY <1>1, <1>5
<1>6. CASE cmd \in [kind : {"rollback"}, to : Names]
  BY <1>2, <1>6
<1>7. CASE cmd \in [kind : {"drain", "snapshot"}]
  BY <1>3, <1>7
<1> QED BY <1>4, <1>5, <1>6, <1>7

(* The weights a command leads to are weights, and each depends on the old *)
(* weight of its own backend only.                                         *)
LEMMA OverriddenTyped ==
    ASSUME NEW cmd \in Command, cmd.kind \in {"set_weight", "rollback"},
           NEW old \in [Backends -> Nat]
    PROVE  overridden(cmd, old) \in [Backends -> Nat]
  BY CommandFields, ConfigFacts DEF overridden

LEMMA OverriddenLocal ==
    ASSUME NEW cmd \in Command, cmd.kind \in {"set_weight", "rollback"},
           NEW old, NEW new, NEW b \in Backends, old[b] = new[b]
    PROVE  overridden(cmd, old)[b] = overridden(cmd, new)[b]
  BY DEF overridden

LEMMA OverriddenElsewhere ==
    ASSUME NEW cmd \in Command, cmd.kind = "set_weight",
           NEW old, NEW b \in Backends, b \notin DOMAIN cmd.weights
    PROVE  overridden(cmd, old)[b] = old[b]
  BY DEF overridden
-----------------------------------------------------------------------------

LEMMA IdleTyped == idleHandler \in [pc : Places, cmd : Command, left : SUBSET Names]
<1>1. [kind |-> "snapshot"] \in [kind : {"drain", "snapshot"}]
  OBVIOUS
<1>2. [kind |-> "snapshot"] \in Command
  BY <1>1, Zenon DEF Command
<1> QED BY <1>2 DEF idleHandler, Places

LEMMA SettledTyped ==
    /\ [idleHandler EXCEPT !.pc = "respond"] \in
          [pc : Places, cmd : Command, left : SUBSET Names]
    /\ [idleHandler EXCEPT !.pc = "respond"].pc = "respond"
    /\ \A h : settled(h) <=>
          handler' = [handler EXCEPT ![h] = [idleHandler EXCEPT !.pc = "respond"]]
  BY IdleTyped DEF Places, settled

LEMMA ControlInvHolds == Spec => []ControlInv
<1> USE ConfigFacts
<1>1. Init => ControlInv
  <2> SUFFICES ASSUME Init PROVE ControlInv
    OBVIOUS
  <2>2. config.weight \in [Backends -> Nat] /\ weight = config.weight
    BY DEF Init
  <2>3. Shape
    BY <2>2, IdleTyped DEF Init, Shape
  <2>4. \A h \in Handlers : handler[h].pc = "idle"
    BY DEF Init, idleHandler
  <2> QED BY <2>2, <2>3, <2>4 DEF Init, ControlInv, Exclusive, Agreement
<1>2. ControlInv /\ [Next]_vars => ControlInv'
  <2> SUFFICES ASSUME ControlInv, [Next]_vars PROVE ControlInv'
    OBVIOUS
  <2>1. ASSUME NEW h \in Handlers, NEW cmd \in Commands, Begin(h, cmd) PROVE ControlInv'
    <3>1. Shape'
      BY <2>1 DEF Begin, ControlInv, Shape, Places
    <3> QED BY <2>1, <3>1 DEF Begin, ControlInv, Shape, Exclusive, Agreement, HalfWay, Snapshot
  <2>2. ASSUME NEW h \in Handlers, Validate(h) PROVE ControlInv'
    <3> DEFINE cmd == handler[h].cmd
    <3>1. cmd \in Command /\ handler[h].pc = "validate" /\ lock = h
      BY <2>2 DEF Validate, ControlInv, Shape, Exclusive
    <3>2. \A g \in Handlers \ {h} : handler[g].pc = "idle"
      BY <3>1 DEF ControlInv, Exclusive
    <3>3. weight = config.weight /\ \E b \in Backends : weight[b] > 0
      BY <3>1, <3>2 DEF ControlInv, Agreement
    <3>4. CASE /\ cmd.kind \in {"set_weight", "rollback"} /\ acceptable(cmd)
               /\ handler' = [handler EXCEPT
                     ![h].pc = "apply",
                     ![h].left = IF cmd.kind = "rollback" THEN Backends ELSE DOMAIN cmd.weights]
               /\ UNCHANGED draining
      <4>1. DOMAIN cmd.weights \subseteq Names \/ cmd.kind = "rollback"
        BY <3>1, <3>4, CommandFields
      <4>2. Shape'
        <5> DEFINE left == IF cmd.kind = "rollback" THEN Backends ELSE DOMAIN cmd.weights
        <5>1. left \in SUBSET Names
          BY <4>1
        <5>2. handler' = [handler EXCEPT ![h].pc = "apply", ![h].left = left]
          BY <3>4
        <5> HIDE DEF left
        <5> DEFINE H == [pc : Places, cmd : Command, left : SUBSET Names]
        <5>3. handler \in [Handlers -> H]
          BY DEF ControlInv, Shape
        <5>4. handler' = [handler EXCEPT ![h] = [@ EXCEPT !.pc = "apply", !.left = left]]
          BY <5>2
        <5>5. [handler[h] EXCEPT !.pc = "apply", !.left = left] \in H
          BY <5>1, <5>3 DEF Places
        <5> HIDE DEF H
        <5>6. handler' \in [Handlers -> H]
          BY <5>3, <5>4, <5>5
        <5> QED BY <2>2, <5>6 DEF Validate, ControlInv, Shape, H
      <4>3. \E b \in Backends : overridden(cmd, weight)[b] > 0
        BY <3>4 DEF acceptable, overridden
      <4>4. \A b \in Backends :
               weight[b] = IF b \in handler'[h].left THEN weight[b] ELSE overridden(cmd, weight)[b]
        BY <3>1, <3>4, OverriddenElsewhere DEF ControlInv, Shape
      <4>5. HalfWay(h)'
        BY <2>2, <3>3, <3>4, <4>3, <4>4 DEF Validate, HalfWay, ControlInv, Shape
      <4>6. /\ handler'[h].pc = "apply"
            /\ \A g \in Handlers \ {h} : handler'[g].pc = "idle"
        BY <3>2, <3>4 DEF ControlInv, Shape
      <4> QED BY <2>2, <3>1, <4>2, <4>5, <4>6
              DEF Validate, ControlInv, Exclusive, Agreement, Snapshot
    <3>5. CASE settled(h) /\ UNCHANGED draining
      <4>1. Shape'
        BY <2>2, <3>5, SettledTyped DEF Validate, ControlInv, Shape
      <4>2. /\ handler'[h].pc = "respond"
            /\ \A g \in Handlers \ {h} : handler'[g].pc = "idle"
        BY <3>2, <3>5, SettledTyped DEF settled, ControlInv, Shape
      <4> QED BY <2>2, <3>1, <3>2, <3>3, <3>5, <4>1, <4>2
              DEF Validate, ControlInv, Exclusive, Agreement, Snapshot
    <3>6. CASE draining' = TRUE /\ to(h, "save")
      <4>1. Shape'
        BY <2>2, <3>6 DEF Validate, to, ControlInv, Shape, Places
      <4>2. /\ handler'[h].pc = "save"
            /\ \A g \in Handlers \ {h} : handler'[g].pc = "idle"
        BY <3>2, <3>6 DEF to, ControlInv, Shape
      <4> QED BY <2>2, <3>1, <3>3, <4>1, <4>2 DEF Validate, ControlInv, Exclusive, Agreement
    <3> QED BY <2>2, <3>4, <3>5, <3>6 DEF Validate
  <2>3. ASSUME NEW h \in Handlers, NEW b \in Backends, Apply(h, b) PROVE ControlInv'
    <3> DEFINE cmd == handler[h].cmd
    <3>1. cmd \in Command /\ handler[h].pc = "apply" /\ lock = h /\ b \in handler[h].left
      BY <2>3 DEF Apply, ControlInv, Shape, Exclusive
    <3>2. \A g \in Handlers \ {h} : handler[g].pc = "idle"
      BY <3>1 DEF ControlInv, Exclusive
    <3>3. HalfWay(h)
      BY <3>1 DEF ControlInv, Agreement
    <3>4. overridden(cmd, weight) \in [Backends -> Nat]
      BY <3>1, <3>3, OverriddenTyped DEF HalfWay, ControlInv, Shape
    <3>5. weight[b] = config.weight[b]
      BY <3>1, <3>3 DEF HalfWay
    <3>6. overridden(cmd, weight)[b] = overridden(cmd, config.weight)[b]
      <4>1. cmd.kind \in {"set_weight", "rollback"}
        BY <3>3 DEF HalfWay
      <4> HIDE DEF cmd
      <4> QED BY <3>1, <3>5, <4>1, OverriddenLocal
    <3>7. /\ handler'[h].pc = "apply" /\ handler'[h].cmd = cmd
          /\ handler'[h].left = handler[h].left \ {b}
          /\ \A g \in Handlers \ {h} : handler'[g].pc = "idle"
          /\ handler' \in [Handlers -> [pc : Places, cmd : Command, left : SUBSET Names]]
      BY <2>3, <3>1, <3>2, ZenonT(40) DEF Apply, ControlInv, Shape
    <3>8. Shape'
      BY <2>3, <3>4, <3>7 DEF Apply, ControlInv, Shape
    <3>9. HalfWay(h)'
      <4>1. config' = config /\ weight' = [weight EXCEPT ![b] = overridden(cmd, weight)[b]]
        BY <2>3 DEF Apply
      <4>2. \A a \in Backends :
               weight'[a] = IF a \in handler'[h].left THEN config.weight[a]
                            ELSE overridden(cmd, config.weight)[a]
        BY <3>3, <3>6, <3>7, <4>1 DEF HalfWay, ControlInv, Shape
      <4> QED BY <3>3, <3>7, <4>1, <4>2, SMTT(30) DEF HalfWay, overridden
    <3> QED BY <2>3, <3>1, <3>7, <3>8, <3>9 DEF Apply, ControlInv, Exclusive, Agreement, Snapshot
  <2>4. ASSUME NEW h \in Handlers, Mirror(h) PROVE ControlInv'
    <3> DEFINE cmd == handler[h].cmd
    <3>1. cmd \in Command /\ handler[h].pc = "apply" /\ lock = h /\ handler[h].left = {}
      BY <2>4 DEF Mirror, ControlInv, Shape, Exclusive
    <3>2. \A g \in Handlers \ {h} : handler[g].pc = "idle"
      BY <3>1 DEF ControlInv, Exclusive
    <3>3. HalfWay(h)
      BY <3>1 DEF ControlInv, Agreement
    <3>4. overridden(cmd, config.weight) \in [Backends -> Nat]
      BY <3>1, <3>3, OverriddenTyped DEF HalfWay, ControlInv, Shape
    <3>5. weight = overridden(cmd, config.weight)
      BY <3>1, <3>3, <3>4 DEF HalfWay, ControlInv, Shape
    <3>6. config' = mirrored(cmd)
      BY <2>4 DEF Mirror
    <3>7. /\ config'.weight = overridden(cmd, config.weight)
          /\ config' \in [mode : {"active", "shadow"}, primary : Names \union {None},
                         shadow : Names \union {None}, weight : [Backends -> Nat]]
      <4>1. cmd.kind = "rollback" => cmd.to \in Names
        BY <3>1, CommandFields
      <4> QED BY <3>4, <3>6, <4>1 DEF mirrored, ControlInv, Shape
    <3>8. Shape'
      BY <2>4, <3>7 DEF Mirror, to, ControlInv, Shape, Places
    <3>9. /\ handler'[h].pc = "save"
          /\ \A g \in Handlers \ {h} : handler'[g].pc = "idle"
      BY <2>4, <3>2 DEF Mirror, to, ControlInv, Shape
    <3>10. \E b \in Backends : weight[b] > 0
      BY <3>3, <3>5 DEF HalfWay
    <3> QED BY <2>4, <3>1, <3>5, <3>7, <3>8, <3>9, <3>10
            DEF Mirror, ControlInv, Exclusive, Agreement
  <2>5. ASSUME NEW h \in Handlers, Save(h) PROVE ControlInv'
    <3>1. handler[h].pc = "save" /\ lock = h
      BY <2>5 DEF Save, ControlInv, Exclusive
    <3>2. \A g \in Handlers \ {h} : handler[g].pc = "idle"
      BY <3>1 DEF ControlInv, Exclusive
    <3>3. Shape'
      BY <2>5, SettledTyped DEF Save, ControlInv, Shape
    <3>4. /\ handler'[h].pc = "respond"
          /\ \A g \in Handlers \ {h} : handler'[g].pc = "idle"
      BY <2>5, <3>2, SettledTyped DEF Save, settled, ControlInv, Shape
    <3> QED BY <2>5, <3>1, <3>2, <3>3, <3>4
            DEF Save, ControlInv, Exclusive, Agreement, Snapshot
  <2>6. ASSUME NEW h \in Handlers, Respond(h) PROVE ControlInv'
    <3>1. Shape'
      BY <2>6, IdleTyped DEF Respond, ControlInv, Shape
    <3>2. /\ handler'[h].pc = "idle" /\ lock = h
          /\ \A g \in Handlers \ {h} : handler'[g] = handler[g]
      BY <2>6 DEF Respond, idleHandler, ControlInv, Shape, Exclusive
    <3> QED BY <2>6, <3>1, <3>2 DEF Respond, ControlInv, Exclusive, Agreement, HalfWay, Snapshot
  <2>7. ASSUME WriterSnapshot PROVE ControlInv'
    BY <2>7 DEF WriterSnapshot, ControlInv, Shape, Exclusive, Agreement, HalfWay, Snapshot
  <2>8. ASSUME WriterWrite PROVE ControlInv'
    <3>1. \A h \in Handlers : handler[h].pc = "idle"
      BY <2>8 DEF WriterWrite, ControlInv, Exclusive
    <3> QED BY <2>8, <3>1
            DEF WriterWrite, ControlInv, Shape, Exclusive, Agreement, HalfWay, Snapshot
  <2>9. ASSUME UNCHANGED <<weight, config, draining, control>> PROVE ControlInv'
    BY <2>9 DEF control, ControlInv, Shape, Exclusive, Agreement, HalfWay, Snapshot
  <2>10. CASE UNCHANGED vars
    BY <2>9, <2>10 DEF vars, control
  <2>11. CASE Next
    <3>1. CASE Control
      BY <2>1, <2>2, <2>3, <2>4, <2>5, <2>6, <2>7, <2>8, <3>1 DEF Control
    <3>2. CASE Serving \/ Listening \/ \E b \in Backends : Flip(b)
      <4>1. UNCHANGED <<weight, config, draining, control>>
        BY <3>2 DEF Serving, Listening, Flip, Arrive, Filter, Sum, Pick, Admit, Primary, Finish,
                    Close, Shutdown, only, Check, AcceptError, DrainSeen, Joined, GraceOver,
                    Accept, loop, control
      <4> QED BY <2>9, <4>1
    <3> QED BY <2>11, <3>1, <3>2 DEF Next
  <2> QED BY <2>10, <2>11
<1> QED BY <1>1, <1>2, PTL DEF Spec

(* Between commands the pool and the stored config hold the same weights,  *)
(* one of them above 0, whatever commands and handlers there are           *)
(* (set_weights and rollback under control_lock, state.rs).                *)
THEOREM WeightsAgreeAtRest == Spec => []WeightsAtRest
<1>1. ControlInv => WeightsAtRest
  BY DEF ControlInv, Agreement, WeightsAtRest, AtRest
<1> QED BY <1>1, ControlInvHolds, PTL

(* Between commands state.json, if its last write succeeded, is current    *)
(* (handle_conn and spawn_state_writer under control_lock, control.rs).    *)
THEOREM FileIsAlwaysCurrent == Spec => []FileIsCurrent
<1>1. ControlInv => FileIsCurrent
  BY DEF ControlInv, Agreement, FileIsCurrent, AtRest
<1> QED BY <1>1, ControlInvHolds, PTL

-----------------------------------------------------------------------------

(* A connection accepted after the drain was requested sends the loop back *)
(* to the check, which does not let it accept again.                       *)
LateInv ==
    /\ late \in {0, 1}
    /\ late = 1 => draining /\ phase # "select"

(* At most one connection is accepted after a drain was requested, however *)
(* many are waiting (run_proxy_with_listener, server.rs).                  *)
THEOREM AtMostOneLateConnection == Spec => []OneLateConnection
<1>1. Init => LateInv
  BY DEF Init, LateInv
<1>2. LateInv /\ [Next]_vars => LateInv'
  <2> SUFFICES ASSUME LateInv, [Next]_vars PROVE LateInv'
    OBVIOUS
  <2>1. CASE Control
    <3>1. UNCHANGED <<phase, late>>
      BY <2>1 DEF Control, Begin, Validate, Mirror, Save, Respond, Apply, WriterSnapshot,
                  WriterWrite, proxy
    <3>2. ASSUME NEW h \in Handlers, Validate(h)
          PROVE  draining' = draining \/ draining' = TRUE
      BY <3>2 DEF Validate
    <3>3. draining' = draining \/ draining' = TRUE
      BY <2>1, <3>2 DEF Control, Begin, Mirror, Save, Respond, Apply, WriterSnapshot, WriterWrite
    <3> QED BY <3>1, <3>3 DEF LateInv
  <2>2. CASE Serving \/ \E b \in Backends : Flip(b)
    <3>1. UNCHANGED <<draining, phase, late>>
      BY <2>2 DEF Serving, Flip, Arrive, Filter, Sum, Pick, Admit, Primary, Finish, Close,
                  Shutdown, only
    <3> QED BY <3>1 DEF LateInv
  <2>3. CASE Listening
    BY <2>3 DEF Listening, Check, AcceptError, DrainSeen, Joined, GraceOver, Accept, loop, LateInv
  <2>4. CASE UNCHANGED vars
    BY <2>4 DEF vars, LateInv
  <2> QED BY <2>1, <2>2, <2>3, <2>4 DEF Next
<1>3. LateInv => OneLateConnection
  BY DEF LateInv, OneLateConnection
<1> QED BY <1>1, <1>2, <1>3, PTL DEF Spec

-----------------------------------------------------------------------------
(* Rollback and routing.                                                   *)

(* All the weight is on t.                                                 *)
OneHot(t) ==
    t \in Backends /\ weight = [b \in Backends |-> IF b = t THEN FullWeight ELSE 0]

(* A rollback to t is in force: the weights and, in shadow mode, the       *)
(* primary.                                                                *)
InForce(t) == OneHot(t) /\ (config.mode = "shadow" => config.primary = t)

(* A handler that carries out a rollback: once it has set a weight no      *)
(* earlier promise holds, and when it saves its own is true.               *)
Carrying(h) ==
    handler[h].cmd.kind = "rollback" =>
        /\ handler[h].pc = "apply" =>
              /\ handler[h].cmd.to \in Backends
              /\ handler[h].left # Backends =>
                    promised = None /\ \A c \in Conns : conn[c].promise = None
        /\ handler[h].pc = "save" => InForce(handler[h].cmd.to)

(* A value with the fields of a connection.                                *)
ConnFields == {"pc", "i", "cand", "total", "pick", "acc", "mode", "primary", "backend",
               "promise", "steady", "closing"}

IsConn(k) == k = [f \in ConnFields |-> k[f]]

(* A request that came under a rollback has no candidate but its target,   *)
(* and while nothing flipped it has not missed it.                         *)
Bound(k) ==
    /\ OneHot(k.promise)
    /\ k.cand \in Seq(Names) /\ \A i \in 1 .. Len(k.cand) : k.cand[i] = k.promise
    /\ k.i \in Nat \ {0} /\ k.total \in Nat
    /\ k.pc \in {"primary", "filter", "sum", "pick", "admit", "routed", "refused"}
    /\ k.pc = "primary" => k.primary = k.promise /\ k.i = 1
    /\ k.pc = "filter" =>
          /\ k.i <= Len(Order)
          /\ k.steady /\ k.promise \in up /\ (\E j \in 1 .. k.i - 1 : Order[j] = k.promise) =>
                k.cand # <<>>
    /\ k.pc \in {"sum", "pick"} => k.i <= Len(k.cand)
    /\ k.pc = "admit" => k.backend = k.promise /\ k.i = 1
    /\ k.pc = "routed" => k.backend = k.promise
    /\ k.pc = "refused" /\ k.steady => k.promise \notin up

(* The inductive invariant, beside ControlInv.                             *)
RollbackInv ==
    /\ promised # None => InForce(promised)
    /\ \A h \in Handlers : Carrying(h)
    /\ conn = [c \in Conns |-> conn[c]]
    /\ \A c \in Conns : IsConn(conn[c]) /\ (conn[c].promise # None => Bound(conn[c]))

(* What is left of a sequence without an element was there before.         *)
LEMMA RemoveFirstKeeps ==
    ASSUME NEW S, NEW s \in Seq(S), NEW e
    PROVE  /\ RemoveFirst(s, e) \in Seq(S)
           /\ \A i \in 1 .. Len(RemoveFirst(s, e)) :
                 \E j \in 1 .. Len(s) : RemoveFirst(s, e)[i] = s[j]
<1>1. CASE ~(\E i \in 1 .. Len(s) : s[i] = e)
  <2>1. RemoveFirst(s, e) = s
    BY <1>1 DEF RemoveFirst
  <2> QED BY <2>1
<1>2. CASE \E i \in 1 .. Len(s) : s[i] = e
  <2> DEFINE I == {i \in 1 .. Len(s) : s[i] = e}
  <2>1. I \subseteq Nat /\ I # {}
    BY <1>2
  <2>2. Min(I) \in 1 .. Len(s)
    <3>1. Min(I) \in I
      <4> HIDE DEF I
      <4> QED BY <2>1, NatSetMin
    <3> QED BY <3>1
  <2>3. RemoveFirst(s, e) = RemoveAt(s, Min(I))
    BY <1>2, <2>1 DEF RemoveFirst, SelectInSeq
  <2> HIDE DEF I
  <2>4. PICK m \in 1 .. Len(s) : m = Min(I)
    BY <2>2
  <2> DEFINE a == SubSeq(s, 1, m - 1)
             b == SubSeq(s, m + 1, Len(s))
  <2>5. /\ a \in Seq(S) /\ Len(a) = m - 1
        /\ \A i \in 1 .. Len(a) : a[i] = s[i]
    BY <2>4
  <2>6. /\ b \in Seq(S) /\ Len(b) = Len(s) - m
        /\ \A i \in 1 .. Len(b) : b[i] = s[m + i]
    BY <2>4
  <2>7. RemoveFirst(s, e) = a \o b
    BY <2>3, <2>4 DEF RemoveAt
  <2> HIDE DEF a, b
  <2>8. /\ a \o b \in Seq(S) /\ Len(a \o b) = Len(a) + Len(b)
        /\ \A i \in 1 .. Len(a) + Len(b) :
              (a \o b)[i] = IF i <= Len(a) THEN a[i] ELSE b[i - Len(a)]
    BY <2>5, <2>6, ConcatProperties
  <2>9. ASSUME NEW i \in 1 .. Len(a \o b)
        PROVE  \E j \in 1 .. Len(s) : (a \o b)[i] = s[j]
    <3>1. /\ i \in Int /\ m \in Int /\ Len(s) \in Int /\ Len(a) = m - 1 /\ Len(b) = Len(s) - m
          /\ 1 <= i /\ i <= Len(a) + Len(b) /\ 1 <= m /\ m <= Len(s)
      BY <2>4, <2>5, <2>6, <2>8
    <3>2. CASE i <= Len(a)
      <4>1. i \in 1 .. Len(a) /\ i \in 1 .. Len(s) /\ i \in 1 .. Len(a) + Len(b)
        BY <3>1, <3>2
      <4> QED BY <2>5, <2>8, <3>2, <4>1
    <3>3. CASE ~(i <= Len(a))
      <4>1. /\ i - Len(a) \in 1 .. Len(b) /\ i \in 1 .. Len(a) + Len(b)
            /\ m + (i - Len(a)) \in 1 .. Len(s)
        BY <3>1, <3>3
      <4> QED BY <2>6, <2>8, <3>3, <4>1
    <3> QED BY <3>2, <3>3
  <2> QED BY <2>7, <2>8, <2>9
<1> QED BY <1>1, <1>2

(* A record of a connection that has no promise keeps every bargain.       *)
LEMMA IdleConnTyped ==
    /\ IsConn(idleConn) /\ idleConn.promise = None
    /\ \A pc : LET k == [idleConn EXCEPT !.pc = pc] IN IsConn(k) /\ k.promise = None
  BY DEF IsConn, ConnFields, idleConn

(* One connection moves.                                                   *)
LEMMA OneConnMoves ==
    ASSUME RollbackInv, NEW c \in Conns, NEW n, IsConn(n), n.promise # None => Bound(n),
           n.promise \in {None, conn[c].promise, promised},
           conn' = [conn EXCEPT ![c] = n], UNCHANGED <<weight, up, config, handler, promised>>
    PROVE  RollbackInv'
<1>1. /\ conn' = [d \in Conns |-> conn'[d]] /\ conn'[c] = n
      /\ \A d \in Conns \ {c} : conn'[d] = conn[d]
  BY DEF RollbackInv
<1>2. \A d \in Conns : IsConn(conn'[d]) /\ (conn'[d].promise # None => Bound(conn'[d]))
  BY <1>1 DEF RollbackInv
<1>4. ASSUME NEW d \in Conns, conn'[d].promise # None PROVE Bound(conn[d])'
  BY <1>2, <1>4 DEF Bound, OneHot
<1>5. \A h \in Handlers : Carrying(h)'
  BY <1>1 DEF RollbackInv, Carrying, InForce, OneHot
<1>6. promised' # None => InForce(promised)'
  BY DEF RollbackInv, InForce, OneHot
<1> QED BY <1>1, <1>2, <1>4, <1>5, <1>6 DEF RollbackInv

(* What a promised request knows of the pool.                              *)
LEMMA PromisedPool ==
    ASSUME NEW t, OneHot(t)
    PROVE  /\ t \in Backends /\ t \in Names /\ weight[t] = FullWeight /\ FullWeight \in Nat \ {0}
           /\ \A b \in Backends : weight[b] > 0 => b = t
           /\ Len(Order) \in Nat \ {0}
           /\ \A i \in 1 .. Len(Order) : Order[i] \in Backends
           /\ \E i \in 1 .. Len(Order) : Order[i] = t
<1>1. Order \in Seq(Names)
  BY ControlConfig
<1>2. \A i \in 1 .. Len(Order) : Order[i] \in Backends
  BY <1>1 DEF Backends, Range
<1>3. \E i \in 1 .. Len(Order) : Order[i] = t
  BY <1>1 DEF OneHot, Backends, Range
<1>4. Len(Order) \in Nat \ {0}
  BY <1>1, <1>3
<1>5. t \in Backends /\ weight[t] = FullWeight /\ \A b \in Backends : weight[b] > 0 => b = t
  BY ConfigFacts DEF OneHot
<1> QED BY <1>2, <1>3, <1>4, <1>5, ConfigFacts

(* How a request ends.                                                     *)
LEMMA EndedFields ==
    ASSUME NEW k, NEW pc, NEW b
    PROVE  LET n == ended(k, pc, b)
           IN  /\ IsConn(n) /\ n.pc = pc /\ n.backend = b /\ n.promise = k.promise
               /\ n.steady = k.steady /\ n.cand = <<>> /\ n.i = 1 /\ n.total = 0
  BY DEF ended, idleConn, IsConn, ConnFields

(* It may end with the target, or refused if the target is not there.      *)
LEMMA EndedBound ==
    ASSUME NEW k, NEW pc \in {"routed", "refused"}, NEW b, OneHot(k.promise),
           pc = "routed" => b = k.promise,
           pc = "refused" /\ k.steady => k.promise \notin up
    PROVE  Bound(ended(k, pc, b))
<1> DEFINE n == ended(k, pc, b)
<1>1. /\ n.pc = pc /\ n.backend = b /\ n.promise = k.promise
      /\ n.steady = k.steady /\ n.cand = <<>> /\ n.i = 1 /\ n.total = 0
  BY EndedFields
<1> HIDE DEF n
<1> SUFFICES Bound(n)
  BY DEF n
<1>2. n.cand \in Seq(Names) /\ Len(n.cand) = 0
  BY <1>1
<1> QED BY <1>1, <1>2 DEF Bound
-----------------------------------------------------------------------------

(* decide starts with the promise of the moment.                           *)
LEMMA ArriveKeeps ==
    ASSUME RollbackInv, NEW c \in Conns, Arrive(c)
    PROVE  RollbackInv'
<1> DEFINE st == promised # None
           n == [idleConn EXCEPT !.pc = IF config.mode = "shadow" THEN "primary" ELSE "filter",
                                 !.mode = config.mode, !.primary = config.primary,
                                 !.promise = promised, !.steady = st]
<1>1. conn' = [conn EXCEPT ![c] = n] /\ UNCHANGED <<weight, up, config, handler, promised>>
  BY DEF Arrive, only, control
<1> HIDE DEF st
<1>2. /\ IsConn(n) /\ n.promise = promised /\ n.cand = <<>> /\ n.i = 1 /\ n.total = 0
      /\ n.primary = config.primary
      /\ n.pc = IF config.mode = "shadow" THEN "primary" ELSE "filter"
  BY ZenonT(40) DEF IsConn, ConnFields, idleConn
<1> HIDE DEF n
<1>3. ASSUME promised # None PROVE Bound(n)
  <2>1. InForce(promised)
    BY <1>3 DEF RollbackInv
  <2>2. n.cand \in Seq(Names) /\ Len(n.cand) = 0 /\ 1 <= Len(Order)
    BY <1>2, <2>1, PromisedPool DEF InForce
  <2> QED BY <1>2, <2>1, <2>2 DEF InForce, Bound
<1> QED BY <1>1, <1>2, <1>3, OneConnMoves

(* Only the target has a weight, so only it can become a candidate.        *)
LEMMA FilterKeeps ==
    ASSUME RollbackInv, NEW c \in Conns, Filter(c)
    PROVE  RollbackInv'
<1> DEFINE k == conn[c]
           b == Order[k.i]
           kept == IF b \in up /\ weight[b] > 0 THEN Append(k.cand, b) ELSE k.cand
           n == IF k.i < Len(Order)
                THEN [k EXCEPT !.i = @ + 1, !.cand = kept]
                ELSE IF kept = <<>>
                THEN ended(k, "refused", None)
                ELSE [k EXCEPT !.i = 1, !.cand = kept, !.pc = "sum"]
<1>1. /\ k.pc = "filter" /\ conn' = [conn EXCEPT ![c] = n]
      /\ UNCHANGED <<weight, up, config, handler, promised>>
  BY DEF Filter, only, control
<1>2. IsConn(k) /\ (k.promise # None => Bound(k))
  BY DEF RollbackInv
<1>3. IsConn(n) /\ n.promise = k.promise
  <2> HIDE DEF kept, k
  <2>1. CASE n = ended(k, "refused", None)
    BY <2>1, EndedFields
  <2>2. CASE n = [k EXCEPT !.i = @ + 1, !.cand = kept]
    BY <1>2, <2>2 DEF IsConn, ConnFields
  <2>3. CASE n = [k EXCEPT !.i = 1, !.cand = kept, !.pc = "sum"]
    BY <1>2, <2>3 DEF IsConn, ConnFields
  <2> QED BY <2>1, <2>2, <2>3
<1>4. ASSUME k.promise # None PROVE Bound(n)
  <2>1. Bound(k) /\ OneHot(k.promise)
    BY <1>2, <1>4 DEF Bound
  <2>2. k.i \in Nat \ {0} /\ k.i <= Len(Order) /\ Len(Order) \in Nat
    BY <1>1, <2>1, PromisedPool DEF Bound
  <2>3. b \in Backends /\ b \in Names /\ (weight[b] > 0 => b = k.promise)
    BY <2>1, <2>2, PromisedPool, ConfigFacts
  <2>4. /\ kept \in Seq(Names) /\ \A j \in 1 .. Len(kept) : kept[j] = k.promise
        /\ Len(kept) >= Len(k.cand)
        /\ b \in up /\ weight[b] > 0 => Len(kept) > 0
    <3> HIDE DEF b
    <3>1. k.cand \in Seq(Names) /\ \A j \in 1 .. Len(k.cand) : k.cand[j] = k.promise
      BY <2>1 DEF Bound
    <3> HIDE DEF k
    <3> QED BY <2>3, <3>1
  <2>5. b = k.promise => weight[b] > 0
    BY <2>1, PromisedPool
  <2>6. k.steady /\ k.promise \in up /\ (\E j \in 1 .. k.i : Order[j] = k.promise) =>
           kept # <<>>
    <3> SUFFICES ASSUME k.steady, k.promise \in up, NEW j \in 1 .. k.i, Order[j] = k.promise
                 PROVE  Len(kept) > 0
      BY <2>4, SMTT(30)
    <3>1. CASE j = k.i
      BY <2>4, <2>5, <3>1
    <3>2. CASE j # k.i
      <4>1. j \in 1 .. k.i - 1
        BY <2>2, <3>2
      <4>2. k.cand # <<>> /\ k.cand \in Seq(Names)
        BY <1>1, <2>1, <4>1 DEF Bound
      <4>3. Len(k.cand) > 0
        BY <4>2
      <4> QED BY <2>4, <4>2, <4>3
    <3> QED BY <3>1, <3>2
  <2> HIDE DEF kept, b
  <2>7. CASE k.i < Len(Order)
    <3>1. /\ n.pc = "filter" /\ n.i = k.i + 1 /\ n.cand = kept /\ n.total = k.total
          /\ n.steady = k.steady
      BY <1>1, <1>2, <2>7 DEF IsConn, ConnFields
    <3> HIDE DEF n, k
    <3>2. n.i <= Len(Order) /\ n.i \in Nat \ {0} /\ 1 .. n.i - 1 = 1 .. k.i
      BY <2>2, <2>7, <3>1
    <3>3. k.total \in Nat
      BY <2>1 DEF Bound
    <3> QED BY <1>3, <2>1, <2>4, <2>6, <3>1, <3>2, <3>3 DEF Bound
  <2>8. CASE ~(k.i < Len(Order)) /\ kept = <<>>
    <3>1. n = ended(k, "refused", None)
      BY <2>8
    <3>2. 1 .. k.i = 1 .. Len(Order)
      BY <2>2, <2>8
    <3>3. ~(k.steady /\ k.promise \in up)
      BY <2>1, <2>6, <2>8, <3>2, PromisedPool
    <3> QED BY <2>1, <3>1, <3>3, EndedBound
  <2>9. CASE ~(k.i < Len(Order)) /\ kept # <<>>
    <3>1. n.pc = "sum" /\ n.i = 1 /\ n.cand = kept /\ n.total = k.total
      BY <1>1, <1>2, <2>9 DEF IsConn, ConnFields
    <3>2. 1 <= Len(kept)
      BY <2>4, <2>9
    <3>3. k.total \in Nat
      BY <2>1 DEF Bound
    <3> HIDE DEF n, k
    <3> QED BY <1>3, <2>1, <2>4, <3>1, <3>2, <3>3 DEF Bound
  <2> QED BY <2>7, <2>8, <2>9
<1> HIDE DEF n
<1> QED BY <1>1, <1>3, <1>4, OneConnMoves

(* Every candidate is the target, so the total is not 0 ...                *)
LEMMA SumKeeps ==
    ASSUME RollbackInv, NEW c \in Conns, Sum(c)
    PROVE  RollbackInv'
<1> DEFINE k == conn[c]
           total == k.total + weight[k.cand[k.i]]
<1>1. IsConn(k) /\ (k.promise # None => Bound(k)) /\ k.pc = "sum"
  BY DEF RollbackInv, Sum
<1>2. ASSUME k.promise # None
      PROVE  Bound(k) /\ OneHot(k.promise) /\ total \in Nat \ {0}
             /\ k.i \in Nat \ {0} /\ k.i <= Len(k.cand) /\ Len(k.cand) \in Nat
  <2>1. Bound(k) /\ OneHot(k.promise)
    BY <1>1, <1>2 DEF Bound
  <2>2. k.i \in Nat \ {0} /\ k.i <= Len(k.cand) /\ Len(k.cand) \in Nat /\ k.total \in Nat
    BY <1>1, <2>1, SMTT(30) DEF Bound
  <2>3. k.i \in 1 .. Len(k.cand)
    BY <2>2
  <2>4. weight[k.cand[k.i]] = FullWeight
    BY <2>1, <2>3, PromisedPool DEF Bound
  <2> QED BY <2>1, <2>2, <2>4, ConfigFacts
<1>3. ASSUME NEW n, only(c, n), IsConn(n), n.promise = k.promise, n.promise # None => Bound(n)
      PROVE  RollbackInv'
  BY <1>3, OneConnMoves DEF only, control
<1>4. CASE k.i < Len(k.cand) /\ only(c, [k EXCEPT !.i = @ + 1, !.total = total])
  <2> HIDE DEF total
  <2> DEFINE n == [k EXCEPT !.i = @ + 1, !.total = total]
  <2>1. /\ IsConn(n) /\ n.promise = k.promise /\ n.pc = "sum" /\ n.i = k.i + 1
        /\ n.total = total /\ n.cand = k.cand
    BY <1>1 DEF IsConn, ConnFields
  <2>2. only(c, n)
    BY <1>4
  <2> HIDE DEF n, k
  <2>3. n.promise # None => Bound(n)
    BY <1>2, <1>4, <2>1 DEF Bound
  <2> QED BY <1>3, <2>1, <2>2, <2>3
<1>5. CASE total = 0 /\ only(c, ended(k, "refused", None))
  <2>1. k.promise = None
    BY <1>2, <1>5
  <2>2. IsConn(ended(k, "refused", None)) /\ ended(k, "refused", None).promise = k.promise
    BY EndedFields
  <2> HIDE DEF k
  <2> QED BY <1>3, <1>5, <2>1, <2>2
<1>6. CASE \E pick \in 0..(total - 1) :
              only(c, [k EXCEPT !.pc = "pick", !.i = 1, !.total = 0, !.pick = pick])
  <2> HIDE DEF total
  <2>1. PICK pick : only(c, [k EXCEPT !.pc = "pick", !.i = 1, !.total = 0, !.pick = pick])
    BY <1>6
  <2> DEFINE n == [k EXCEPT !.pc = "pick", !.i = 1, !.total = 0, !.pick = pick]
  <2>2. /\ IsConn(n) /\ n.promise = k.promise /\ n.pc = "pick" /\ n.i = 1
        /\ n.total = 0 /\ n.cand = k.cand
    BY <1>1 DEF IsConn, ConnFields
  <2>3. only(c, n)
    BY <2>1
  <2> HIDE DEF n, k
  <2>4. n.promise # None => Bound(n)
    BY <1>2, <2>2 DEF Bound
  <2> QED BY <1>3, <2>2, <2>3, <2>4
<1>7. \/ k.i < Len(k.cand) /\ only(c, [k EXCEPT !.i = @ + 1, !.total = total])
      \/ total = 0 /\ only(c, ended(k, "refused", None))
      \/ \E pick \in 0..(total - 1) :
            only(c, [k EXCEPT !.pc = "pick", !.i = 1, !.total = 0, !.pick = pick])
  BY DEF Sum
<1> QED BY <1>4, <1>5, <1>6, <1>7

(* ... and whichever is drawn is the target.                               *)
LEMMA PickKeeps ==
    ASSUME RollbackInv, NEW c \in Conns, Pick(c)
    PROVE  RollbackInv'
<1> DEFINE k == conn[c]
           acc == k.acc + weight[k.cand[k.i]]
           last == k.pick < acc \/ k.i = Len(k.cand)
           drawn == [k EXCEPT !.pc = "admit", !.i = 1, !.pick = 0, !.acc = 0,
                              !.backend = k.cand[k.i]]
           next == [k EXCEPT !.i = @ + 1, !.acc = acc]
<1>1. IsConn(k) /\ (k.promise # None => Bound(k)) /\ k.pc = "pick"
  BY DEF RollbackInv, Pick
<1>2. ASSUME NEW n, only(c, n), IsConn(n), n.promise = k.promise, n.promise # None => Bound(n)
      PROVE  RollbackInv'
  BY <1>2, OneConnMoves DEF only, control
<1>3. only(c, IF last THEN drawn ELSE next)
  BY DEF Pick
<1>4. CASE last
  <2>1. /\ IsConn(drawn) /\ drawn.promise = k.promise /\ drawn.pc = "admit" /\ drawn.i = 1
        /\ drawn.cand = k.cand /\ drawn.total = k.total /\ drawn.backend = k.cand[k.i]
    BY <1>1 DEF IsConn, ConnFields
  <2>2. only(c, drawn)
    BY <1>3, <1>4
  <2> HIDE DEF drawn, k
  <2>3. drawn.promise # None => Bound(drawn)
    BY <1>1, <2>1 DEF Bound
  <2> QED BY <1>2, <2>1, <2>2, <2>3
<1>5. CASE ~last
  <2>1. only(c, next) /\ k.i # Len(k.cand)
    BY <1>3, <1>5
  <2> HIDE DEF acc
  <2>2. /\ IsConn(next) /\ next.promise = k.promise /\ next.pc = "pick" /\ next.i = k.i + 1
        /\ next.cand = k.cand /\ next.total = k.total
    BY <1>1 DEF IsConn, ConnFields
  <2> HIDE DEF next, k
  <2>3. next.promise # None => Bound(next)
    BY <1>1, <2>1, <2>2, SMTT(30) DEF Bound
  <2> QED BY <1>2, <2>1, <2>2, <2>3
<1> QED BY <1>4, <1>5

(* The target is served if its breaker admits, and otherwise not available.*)
LEMMA AdmitKeeps ==
    ASSUME RollbackInv, NEW c \in Conns, Admit(c)
    PROVE  RollbackInv'
<1> DEFINE k == conn[c]
           others == RemoveFirst(k.cand, k.backend)
           again == [k EXCEPT !.pc = "sum", !.cand = others, !.backend = None]
<1>1. IsConn(k) /\ (k.promise # None => Bound(k)) /\ k.pc = "admit"
  BY DEF RollbackInv, Admit
<1>2. ASSUME NEW n, only(c, n), IsConn(n), n.promise = k.promise, n.promise # None => Bound(n)
      PROVE  RollbackInv'
  BY <1>2, OneConnMoves DEF only, control
<1>3. \/ k.backend \in up /\ only(c, ended(k, "routed", k.backend))
      \/ k.backend \notin up /\ others # <<>> /\ only(c, again)
      \/ k.backend \notin up /\ only(c, ended(k, "refused", None))
  BY DEF Admit
<1>4. k.promise # None => OneHot(k.promise) /\ k.backend = k.promise
  BY <1>1 DEF Bound
<1>5. CASE k.backend \in up /\ only(c, ended(k, "routed", k.backend))
  <2>1. /\ IsConn(ended(k, "routed", k.backend))
        /\ ended(k, "routed", k.backend).promise = k.promise
    BY EndedFields
  <2>2. k.promise # None => Bound(ended(k, "routed", k.backend))
    BY <1>4, EndedBound
  <2> HIDE DEF k
  <2> QED BY <1>2, <1>5, <2>1, <2>2
<1>6. CASE k.backend \notin up /\ only(c, ended(k, "refused", None))
  <2>1. IsConn(ended(k, "refused", None)) /\ ended(k, "refused", None).promise = k.promise
    BY EndedFields
  <2>2. k.promise # None => Bound(ended(k, "refused", None))
    BY <1>4, <1>6, EndedBound
  <2> HIDE DEF k
  <2> QED BY <1>2, <1>6, <2>1, <2>2
<1>7. CASE others # <<>> /\ only(c, again)
  <2>1. ASSUME k.promise # None
        PROVE  /\ others \in Seq(Names) /\ 1 <= Len(others)
               /\ \A i \in 1 .. Len(others) : others[i] = k.promise
    <3>1. k.cand \in Seq(Names) /\ \A i \in 1 .. Len(k.cand) : k.cand[i] = k.promise
      BY <1>1, <2>1 DEF Bound
    <3>2. /\ others \in Seq(Names)
          /\ \A i \in 1 .. Len(others) : \E j \in 1 .. Len(k.cand) : others[i] = k.cand[j]
      BY <3>1, RemoveFirstKeeps, SMTT(30)
    <3> HIDE DEF others, k
    <3> QED BY <1>7, <3>1, <3>2
  <2> HIDE DEF others
  <2>2. /\ IsConn(again) /\ again.promise = k.promise /\ again.pc = "sum" /\ again.i = k.i
        /\ again.cand = others /\ again.total = k.total
    BY <1>1 DEF IsConn, ConnFields
  <2> HIDE DEF again, k
  <2>3. again.promise # None => Bound(again)
    BY <1>1, <2>1, <2>2 DEF Bound
  <2> QED BY <1>2, <1>7, <2>2, <2>3
<1> QED BY <1>3, <1>5, <1>6, <1>7

(* Shadow mode: the primary that was loaded is the target.                 *)
LEMMA PrimaryKeeps ==
    ASSUME RollbackInv, NEW c \in Conns, Primary(c)
    PROVE  RollbackInv'
<1> DEFINE k == conn[c]
           asked == [k EXCEPT !.pc = "admit", !.backend = k.primary]
<1>1. IsConn(k) /\ (k.promise # None => Bound(k)) /\ k.pc = "primary"
  BY DEF RollbackInv, Primary
<1>2. ASSUME NEW n, only(c, n), IsConn(n), n.promise = k.promise, n.promise # None => Bound(n)
      PROVE  RollbackInv'
  BY <1>2, OneConnMoves DEF only, control
<1>3. \/ k.primary \in up /\ only(c, asked)
      \/ k.primary \notin up /\ only(c, ended(k, "refused", None))
  BY DEF Primary
<1>4. k.promise # None => OneHot(k.promise) /\ k.primary = k.promise
  BY <1>1 DEF Bound
<1>5. CASE only(c, asked)
  <2>1. /\ IsConn(asked) /\ asked.promise = k.promise /\ asked.pc = "admit" /\ asked.i = k.i
        /\ asked.cand = k.cand /\ asked.total = k.total /\ asked.backend = k.primary
    BY <1>1 DEF IsConn, ConnFields
  <2> HIDE DEF asked, k
  <2>2. asked.promise # None => Bound(asked)
    BY <1>1, <2>1 DEF Bound
  <2> QED BY <1>2, <1>5, <2>1, <2>2
<1>6. CASE k.primary \notin up /\ only(c, ended(k, "refused", None))
  <2>1. IsConn(ended(k, "refused", None)) /\ ended(k, "refused", None).promise = k.promise
    BY EndedFields
  <2>2. k.promise # None => Bound(ended(k, "refused", None))
    BY <1>4, <1>6, EndedBound
  <2> HIDE DEF k
  <2> QED BY <1>2, <1>6, <2>1, <2>2
<1> QED BY <1>3, <1>5, <1>6

(* A connection between requests has no promise, and being told to close   *)
(* after this request changes none.                                        *)
LEMMA OpenAndCloseKeep ==
    ASSUME RollbackInv, NEW c \in Conns,
           Finish(c) \/ Close(c) \/ Shutdown(c) \/ Accept(c)
    PROVE  RollbackInv'
<1> DEFINE k == conn[c]
           open == [idleConn EXCEPT !.pc = "open"]
           told == [k EXCEPT !.closing = TRUE]
<1>1. IsConn(k) /\ (k.promise # None => Bound(k))
  BY DEF RollbackInv
<1>2. /\ UNCHANGED <<weight, up, config, handler, promised>>
      /\ \/ conn' = [conn EXCEPT ![c] = idleConn]
         \/ conn' = [conn EXCEPT ![c] = open]
         \/ conn' = [conn EXCEPT ![c] = told] /\ k.pc \notin {"none", "open"}
  BY DEF Finish, Close, Shutdown, Accept, only, loop, control
<1>3. IsConn(idleConn) /\ idleConn.promise = None /\ IsConn(open) /\ open.promise = None
  BY IdleConnTyped
<1>4. /\ IsConn(told) /\ told.promise = k.promise /\ told.pc = k.pc /\ told.i = k.i
      /\ told.cand = k.cand /\ told.total = k.total /\ told.backend = k.backend
      /\ told.primary = k.primary /\ told.steady = k.steady
  BY <1>1 DEF IsConn, ConnFields
<1> HIDE DEF open, told
<1>5. CASE conn' = [conn EXCEPT ![c] = idleConn]
  BY <1>2, <1>3, <1>5, OneConnMoves
<1>6. CASE conn' = [conn EXCEPT ![c] = open]
  BY <1>2, <1>3, <1>6, OneConnMoves
<1>7. CASE conn' = [conn EXCEPT ![c] = told]
  <2>1. told.promise # None => Bound(told)
    <3> HIDE DEF k
    <3> QED BY <1>1, <1>4 DEF Bound
  <2> QED BY <1>2, <1>4, <1>7, <2>1, OneConnMoves
<1> QED BY <1>2, <1>5, <1>6, <1>7

(* After a flip no request is steady.                                      *)
LEMMA FlipKeeps ==
    ASSUME RollbackInv, NEW b \in Backends, Flip(b)
    PROVE  RollbackInv'
<1>1. /\ conn' = [c \in Conns |-> [conn[c] EXCEPT !.steady = FALSE]]
      /\ UNCHANGED <<weight, config, handler, promised>>
  BY DEF Flip, control
<1>2. ASSUME NEW c \in Conns
      PROVE  LET k == conn[c] n == conn'[c]
             IN  /\ IsConn(n) /\ n.promise = k.promise /\ n.pc = k.pc /\ n.i = k.i
                 /\ n.cand = k.cand /\ n.total = k.total /\ n.backend = k.backend
                 /\ n.primary = k.primary /\ ~n.steady
  <2>1. IsConn(conn[c]) /\ conn'[c] = [conn[c] EXCEPT !.steady = FALSE]
    BY <1>1 DEF RollbackInv
  <2> QED BY <2>1 DEF IsConn, ConnFields
<1>3. ASSUME NEW c \in Conns, conn'[c].promise # None PROVE Bound(conn[c])'
  <2>1. Bound(conn[c])
    BY <1>2, <1>3 DEF RollbackInv
  <2> QED BY <1>1, <1>2, <2>1 DEF Bound, OneHot
<1>4. \A h \in Handlers : Carrying(h)'
  BY <1>1, <1>2 DEF RollbackInv, Carrying, InForce, OneHot
<1>5. promised' # None => InForce(promised)'
  BY <1>1 DEF RollbackInv, InForce, OneHot
<1>6. conn' = [c \in Conns |-> conn'[c]]
  BY <1>1
<1> QED BY <1>2, <1>3, <1>4, <1>5, <1>6 DEF RollbackInv

(* What binds the connections depends on the pool and on them alone.       *)
LEMMA ConnsKeep ==
    ASSUME RollbackInv, UNCHANGED <<weight, up, conn>>
    PROVE  /\ (conn = [c \in Conns |-> conn[c]])'
           /\ \A c \in Conns :
                 IsConn(conn[c])' /\ (conn'[c].promise # None => Bound(conn[c])')
  BY SMTT(30) DEF RollbackInv, IsConn, Bound, OneHot

(* A handler moves and the pool, the config and the requests stay.         *)
LEMMA OneHandlerMoves ==
    ASSUME RollbackInv, NEW h \in Handlers, Carrying(h)',
           \A g \in Handlers \ {h} : handler'[g] = handler[g],
           UNCHANGED <<weight, up, config, promised, conn>>
    PROVE  RollbackInv'
<1>1. \A g \in Handlers : Carrying(g)'
  <2> SUFFICES ASSUME NEW g \in Handlers PROVE Carrying(g)'
    OBVIOUS
  <2>1. CASE g = h
    BY <2>1
  <2>2. CASE g # h
    BY <2>2 DEF RollbackInv, Carrying, InForce, OneHot
  <2> QED BY <2>1, <2>2
<1>2. promised' # None => InForce(promised)'
  BY DEF RollbackInv, InForce, OneHot
<1> QED BY <1>1, <1>2, ConnsKeep DEF RollbackInv

(* A command that begins has carried out nothing.                          *)
LEMMA BeginKeeps ==
    ASSUME ControlInv, RollbackInv, NEW h \in Handlers, NEW cmd \in Commands, Begin(h, cmd)
    PROVE  RollbackInv'
<1>1. /\ handler'[h].pc = "validate" /\ \A g \in Handlers \ {h} : handler'[g] = handler[g]
      /\ UNCHANGED <<weight, up, config, promised, conn>>
  BY DEF Begin, proxy, ControlInv, Shape
<1>2. Carrying(h)'
  BY <1>1 DEF Carrying
<1> QED BY <1>1, <1>2, OneHandlerMoves

(* A rollback that is accepted has a backend as its target.                *)
LEMMA ValidateKeeps ==
    ASSUME ControlInv, RollbackInv, NEW h \in Handlers, Validate(h)
    PROVE  RollbackInv'
<1> DEFINE cmd == handler[h].cmd
<1>1. handler \in [Handlers -> [pc : Places, cmd : Command, left : SUBSET Names]]
  BY DEF ControlInv, Shape
<1>2. UNCHANGED <<weight, up, config, promised, conn>>
  BY DEF Validate, proxy
<1>3. CASE /\ acceptable(cmd)
           /\ handler' = [handler EXCEPT
                 ![h].pc = "apply",
                 ![h].left = IF cmd.kind = "rollback" THEN Backends ELSE DOMAIN cmd.weights]
  <2>1. /\ handler'[h].cmd = cmd /\ handler'[h].pc = "apply"
        /\ cmd.kind = "rollback" => handler'[h].left = Backends
        /\ \A g \in Handlers \ {h} : handler'[g] = handler[g]
    BY <1>1, <1>3
  <2>2. Carrying(h)'
    BY <1>3, <2>1 DEF Carrying, acceptable
  <2> QED BY <1>2, <2>1, <2>2, OneHandlerMoves
<1>4. CASE settled(h)
  <2>1. /\ handler'[h].pc = "respond" /\ \A g \in Handlers \ {h} : handler'[g] = handler[g]
    BY <1>1, <1>4, SettledTyped
  <2>2. Carrying(h)'
    BY <2>1 DEF Carrying
  <2> QED BY <1>2, <2>1, <2>2, OneHandlerMoves
<1>5. CASE cmd.kind = "drain" /\ to(h, "save")
  <2>1. handler'[h].cmd = cmd /\ \A g \in Handlers \ {h} : handler'[g] = handler[g]
    BY <1>1, <1>5 DEF to
  <2>2. Carrying(h)'
    BY <1>5, <2>1 DEF Carrying
  <2> QED BY <1>2, <2>1, <2>2, OneHandlerMoves
<1> QED BY <1>3, <1>4, <1>5 DEF Validate

(* The first weight that is set takes every promise back.                  *)
LEMMA ApplyKeeps ==
    ASSUME ControlInv, RollbackInv, NEW h \in Handlers, NEW b \in Backends, Apply(h, b)
    PROVE  RollbackInv'
<1>1. promised' = None /\ conn' = [c \in Conns |-> [conn[c] EXCEPT !.promise = None,
                                                                   !.steady = FALSE]]
  BY DEF Apply
<1>2. ASSUME NEW c \in Conns PROVE IsConn(conn'[c]) /\ conn'[c].promise = None
  <2>1. IsConn(conn[c])
    BY DEF RollbackInv
  <2> QED BY <1>1, <2>1 DEF IsConn, ConnFields
<1>3. /\ handler'[h].pc = "apply" /\ handler[h].pc = "apply" /\ handler'[h].cmd = handler[h].cmd
      /\ \A g \in Handlers \ {h} : handler'[g].pc = "idle"
  BY DEF Apply, ControlInv, Shape, Exclusive
<1>4. Carrying(h)'
  BY <1>1, <1>2, <1>3 DEF RollbackInv, Carrying
<1>5. \A g \in Handlers \ {h} : Carrying(g)'
  BY <1>3 DEF Carrying
<1> QED BY <1>1, <1>2, <1>4, <1>5 DEF RollbackInv

(* When the pool is done all its weight is on the target, and in shadow    *)
(* mode the target is promoted; other commands leave the primary.          *)
LEMMA MirrorKeeps ==
    ASSUME ControlInv, RollbackInv, NEW h \in Handlers, Mirror(h)
    PROVE  RollbackInv'
<1> DEFINE cmd == handler[h].cmd
<1>1. /\ handler[h].pc = "apply" /\ handler[h].left = {} /\ config' = mirrored(cmd)
      /\ UNCHANGED <<weight, up, promised, conn>>
  BY DEF Mirror, proxy
<1>2. /\ handler'[h].pc = "save" /\ handler'[h].cmd = cmd
      /\ \A g \in Handlers \ {h} : handler'[g].pc = "idle"
  BY DEF Mirror, to, ControlInv, Shape, Exclusive
<1>3. \A g \in Handlers \ {h} : Carrying(g)'
  BY <1>2 DEF Carrying
<1>4. config \in [mode : {"active", "shadow"}, primary : Names \union {None},
                  shadow : Names \union {None}, weight : [Backends -> Nat]]
  BY DEF ControlInv, Shape
<1>5. CASE cmd.kind = "rollback"
  <2>1. cmd.to \in Backends /\ promised = None /\ \A c \in Conns : conn[c].promise = None
    BY <1>1, <1>5 DEF RollbackInv, Carrying
  <2>2. weight \in [Backends -> Nat] /\ HalfWay(h)
    BY <1>1 DEF ControlInv, Shape, Agreement
  <2>3. \A b \in Backends : weight[b] = IF b = cmd.to THEN FullWeight ELSE 0
    BY <1>1, <1>5, <2>2 DEF HalfWay, overridden
  <2>4. OneHot(cmd.to)
    BY <2>1, <2>2, <2>3 DEF OneHot
  <2>5. config'.mode = "shadow" => config'.primary = cmd.to
    BY <1>1, <1>4, <1>5 DEF mirrored
  <2>6. Carrying(h)'
    BY <1>1, <1>2, <2>4, <2>5 DEF Carrying, InForce, OneHot
  <2> QED BY <1>1, <1>3, <2>1, <2>6, ConnsKeep DEF RollbackInv
<1>6. CASE cmd.kind # "rollback"
  <2>1. config'.mode = config.mode /\ config'.primary = config.primary
    BY <1>1, <1>4, <1>6 DEF mirrored
  <2>2. Carrying(h)'
    BY <1>2, <1>6 DEF Carrying
  <2>3. promised' # None => InForce(promised)'
    BY <1>1, <2>1 DEF RollbackInv, InForce, OneHot
  <2> QED BY <1>1, <1>3, <2>2, <2>3, ConnsKeep DEF RollbackInv
<1> QED BY <1>5, <1>6

(* With the save the promise is given.                                     *)
LEMMA SaveKeeps ==
    ASSUME ControlInv, RollbackInv, NEW h \in Handlers, Save(h)
    PROVE  RollbackInv'
<1>1. /\ handler[h].pc = "save" /\ UNCHANGED <<weight, up, config, conn>>
      /\ promised' = IF handler[h].cmd.kind = "rollback" THEN handler[h].cmd.to ELSE promised
  BY DEF Save, proxy
<1>2. \A g \in Handlers : handler'[g].pc \notin {"apply", "save"}
  BY SettledTyped DEF Save, ControlInv, Shape, Exclusive
<1>3. \A g \in Handlers : Carrying(g)'
  BY <1>2 DEF Carrying
<1>4. promised' # None => InForce(promised)'
  BY <1>1 DEF RollbackInv, Carrying, InForce, OneHot
<1> QED BY <1>1, <1>3, <1>4, ConnsKeep DEF RollbackInv

(* A handler that is done, a step elsewhere and the end of the grace       *)
(* period leave the promises as they are, or drop them.                    *)
LEMMA RespondKeeps ==
    ASSUME ControlInv, RollbackInv, NEW h \in Handlers, Respond(h)
    PROVE  RollbackInv'
<1>1. /\ handler'[h].pc = "idle" /\ \A g \in Handlers \ {h} : handler'[g] = handler[g]
      /\ UNCHANGED <<weight, up, config, promised, conn>>
  BY DEF Respond, idleHandler, proxy, ControlInv, Shape
<1>2. Carrying(h)'
  BY <1>1 DEF Carrying
<1> QED BY <1>1, <1>2, OneHandlerMoves

LEMMA NothingMoves ==
    ASSUME RollbackInv, UNCHANGED <<weight, up, config, handler, promised, conn>>
    PROVE  RollbackInv'
<1>1. \A h \in Handlers : Carrying(h)'
  BY DEF RollbackInv, Carrying, InForce, OneHot
<1>2. promised' # None => InForce(promised)'
  BY DEF RollbackInv, InForce, OneHot
<1> QED BY <1>1, <1>2, ConnsKeep DEF RollbackInv

LEMMA GraceOverKeeps ==
    ASSUME RollbackInv, GraceOver
    PROVE  RollbackInv'
<1>1. /\ conn' = [c \in Conns |-> idleConn]
      /\ UNCHANGED <<weight, up, config, handler, promised>>
  BY DEF GraceOver, loop, control
<1>2. \A c \in Conns : IsConn(conn'[c]) /\ conn'[c].promise = None
  BY <1>1, IdleConnTyped
<1>3. \A h \in Handlers : Carrying(h)'
  BY <1>1, <1>2 DEF RollbackInv, Carrying, InForce, OneHot
<1>4. promised' # None => InForce(promised)'
  BY <1>1 DEF RollbackInv, InForce, OneHot
<1> QED BY <1>1, <1>2, <1>3, <1>4 DEF RollbackInv

(* However rollbacks, other commands, requests and the coming and going of *)
(* backends interleave, a request that arrives under a rollback is served  *)
(* by its target, and refused only when the target is not available        *)
(* (rollback, state.rs; decide, router.rs).                                *)
THEOREM RollbackAlwaysDecides == Spec => []RollbackDecides
<1>1. Init => RollbackInv
  <2> SUFFICES ASSUME Init PROVE RollbackInv
    OBVIOUS
  <2>1. \A h \in Handlers : handler[h].pc = "idle"
    BY DEF Init, idleHandler
  <2>2. \A h \in Handlers : Carrying(h)
    BY <2>1 DEF Carrying
  <2>3. conn = [c \in Conns |-> idleConn] /\ promised = None
    BY DEF Init
  <2> QED BY <2>2, <2>3, IdleConnTyped DEF RollbackInv
<1>2. ControlInv /\ RollbackInv /\ [Next]_vars => RollbackInv'
  <2> SUFFICES ASSUME ControlInv, RollbackInv, [Next]_vars PROVE RollbackInv'
    OBVIOUS
  <2>1. CASE Control
    <3>1. CASE WriterSnapshot \/ WriterWrite
      BY <3>1, NothingMoves DEF WriterSnapshot, WriterWrite, proxy
    <3> QED BY <2>1, <3>1, BeginKeeps, ValidateKeeps, ApplyKeeps, MirrorKeeps, SaveKeeps,
               RespondKeeps DEF Control
  <2>2. CASE Serving
    BY <2>2, ArriveKeeps, FilterKeeps, SumKeeps, PickKeeps, AdmitKeeps, PrimaryKeeps,
       OpenAndCloseKeep DEF Serving
  <2>3. CASE Listening
    <3>1. CASE Check \/ AcceptError \/ DrainSeen \/ Joined
      BY <3>1, NothingMoves DEF Check, AcceptError, DrainSeen, Joined, loop, control
    <3> QED BY <2>3, <3>1, GraceOverKeeps, OpenAndCloseKeep DEF Listening
  <2>4. CASE \E b \in Backends : Flip(b)
    BY <2>4, FlipKeeps
  <2>5. CASE UNCHANGED vars
    BY <2>5, NothingMoves DEF vars
  <2> QED BY <2>1, <2>2, <2>3, <2>4, <2>5 DEF Next
<1>3. RollbackInv => RollbackDecides
  BY DEF RollbackInv, Bound, RollbackDecides
<1> QED BY <1>1, <1>2, <1>3, ControlInvHolds, PTL DEF Spec
=============================================================================
