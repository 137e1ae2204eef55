------------------------------ MODULE ControlPlane ------------------------------
(***************************************************************************)
(* The migration proxy under operation: control handlers change weights    *)
(* and roll back under control_lock, the state writer saves snapshots,     *)
(* requests are routed by reading the pool without that lock, and the      *)
(* accept loop drains.  An action is one access to what the tasks share:   *)
(* one weight read or written, the config loaded or stored, the lock.      *)
(*                                                                         *)
(* Health and circuit breaker are the set `up`, which may change at any    *)
(* moment: the backends that are routable and that their breaker admits    *)
(* (Breaker.tla).  Weights stay small, so their sums do not wrap.          *)
(***************************************************************************)
EXTENDS Naturals, Sequences, FiniteSets, SequencesExt

CONSTANTS
    Order,          \* the backends, in the iteration order of the pool's map
    Names,          \* names a command may use, unknown ones included
    Weights,        \* weights a set-weight command may carry
    Commands,       \* the commands that are sent
    FullWeight,     \* what rollback gives its target (100)
    Handlers,       \* control connections open at once
    Conns,          \* proxied connections open at once
    None

Backends == Range(Order)

Command ==
    (UNION {[kind : {"set_weight"}, weights : [S -> Weights]] : S \in SUBSET Names})
    \union [kind : {"rollback"}, to : Names]
    \union [kind : {"drain", "snapshot"}]

ASSUME ControlConfig ==
    /\ Order \in Seq(Names) /\ IsInjective(Order)
    /\ None \notin Names
    /\ {None, "writer"} \cap Handlers = {} /\ None # "writer"
    /\ Weights \subseteq Nat
    /\ FullWeight \in Nat \ {0}
    /\ Commands \subseteq Command

VARIABLES
    weight,     \* the pool: weight of each backend
    up,         \* backends that are routable and admitted
    config,     \* LiveState.config
    draining,   \* LiveState.draining
    lock,       \* who holds control_lock
    handler,    \* the control handlers
    writer,     \* the state writer: its place and its snapshot
    file,       \* what the last write left in state.json, None if it failed
    promised,   \* target of the rollback in force, once carried out
    phase,      \* the accept loop
    late,       \* connections accepted since the drain was requested
    conn        \* the proxied connections

vars == <<weight, up, config, draining, lock, handler, writer, file,
          promised, phase, late, conn>>

control == <<lock, handler, writer, file>>
proxy == <<phase, late, conn>>

idleHandler == [pc |-> "idle", cmd |-> [kind |-> "snapshot"], left |-> {}]

idleConn == [pc |-> "none", i |-> 1, cand |-> <<>>, total |-> 0, pick |-> 0, acc |-> 0,
             mode |-> "active", primary |-> None, backend |-> None,
             promise |-> None, steady |-> FALSE, closing |-> FALSE]

(* LiveState::new of a configuration that config::validate accepts.  Only  *)
(* shadow mode needs a primary and a shadow; the other modes ignore them.  *)
Init ==
    /\ config \in
          [mode : {"active"}, primary : {None}, shadow : {None}, weight : [Backends -> Weights]]
          \union
          [mode : {"shadow"}, primary : Backends, shadow : Backends,
           weight : [Backends -> Weights]]
    /\ \E b \in Backends : config.weight[b] > 0
    /\ config.mode = "shadow" => config.primary # config.shadow
    /\ weight = config.weight
    /\ up = Backends
    /\ draining = FALSE /\ lock = None
    /\ handler = [h \in Handlers |-> idleHandler]
    /\ writer = [pc |-> "sleep", snap |-> None]
    /\ file = None /\ promised = None
    /\ phase = "check" /\ late = 0
    /\ conn = [c \in Conns |-> idleConn]

Snapshot == [weight |-> weight, draining |-> draining]

-----------------------------------------------------------------------------
(* handle_conn of control.rs, set_weights and rollback of state.rs.        *)

to(h, pc) == handler' = [handler EXCEPT ![h].pc = pc]

(* The command is settled; its response is still to be written.            *)
settled(h) == handler' = [handler EXCEPT ![h] = [idleHandler EXCEPT !.pc = "respond"]]

(* A slip: the command is carried out without the lock.                    *)
BeginUnlocked(h, cmd) ==
    /\ handler[h].pc = "idle"
    /\ handler' = [handler EXCEPT ![h] = [pc |-> "validate", cmd |-> cmd, left |-> {}]]
    /\ UNCHANGED <<weight, up, config, draining, lock, writer, file, promised, proxy>>

(* A request has been read and control_lock is taken.                      *)
Begin(h, cmd) ==
    /\ handler[h].pc = "idle" /\ lock = None
    /\ lock' = h
    /\ handler' = [handler EXCEPT ![h] = [pc |-> "validate", cmd |-> cmd, left |-> {}]]
    /\ UNCHANGED <<weight, up, config, draining, writer, file, promised, proxy>>

(* Weights with those of the command in place of the old ones.             *)
overridden(cmd, old) ==
    [b \in Backends |->
        CASE cmd.kind = "rollback" -> IF b = cmd.to THEN FullWeight ELSE 0
          [] OTHER -> IF b \in DOMAIN cmd.weights THEN cmd.weights[b] ELSE old[b]]

(* Known names, and a total that is not 0.                                 *)
acceptable(cmd) ==
    IF cmd.kind = "rollback"
    THEN cmd.to \in Backends
    ELSE /\ DOMAIN cmd.weights \subseteq Backends
         /\ \E b \in Backends : overridden(cmd, weight)[b] > 0

(* The checks of set_weights and rollback; drain and snapshot have none.   *)
Validate(h) ==
    LET cmd == handler[h].cmd
    IN  /\ handler[h].pc = "validate"
        /\ \/ /\ cmd.kind \in {"set_weight", "rollback"} /\ acceptable(cmd)
              /\ handler' = [handler EXCEPT
                    ![h].pc = "apply",
                    ![h].left = IF cmd.kind = "rollback" THEN Backends ELSE DOMAIN cmd.weights]
              /\ UNCHANGED draining
           \/ /\ cmd.kind \in {"set_weight", "rollback"} /\ ~acceptable(cmd)
              /\ settled(h)
              /\ UNCHANGED draining
           \/ /\ cmd.kind = "drain"
              /\ draining' = TRUE
              /\ to(h, "save")
           \/ /\ cmd.kind = "snapshot"
              /\ settled(h)
              /\ UNCHANGED draining
    /\ UNCHANGED <<weight, up, config, lock, writer, file, promised, proxy>>

(* One set_weight on the pool.  Requests under way are no longer bound by  *)
(* an earlier rollback.                                                    *)
Apply(h, b) ==
    /\ handler[h].pc = "apply" /\ b \in handler[h].left
    /\ weight' = [weight EXCEPT ![b] = overridden(handler[h].cmd, weight)[b]]
    /\ handler' = [handler EXCEPT ![h].left = @ \ {b}]
    /\ promised' = None
    /\ conn' = [c \in Conns |-> [conn[c] EXCEPT !.promise = None, !.steady = FALSE]]
    /\ UNCHANGED <<up, config, draining, lock, writer, file, phase, late>>

(* A slip: in shadow mode the target is not promoted.                      *)
mirroredOnly(cmd) == [config EXCEPT !.weight = overridden(cmd, @)]

(* The config with the same weights; a rollback in shadow mode also        *)
(* promotes its target, and mirrors to the previous primary.               *)
mirrored(cmd) ==
    LET new == [config EXCEPT !.weight = overridden(cmd, @)]
    IN  IF cmd.kind = "rollback" /\ config.mode = "shadow" /\ config.primary # cmd.to
        THEN [new EXCEPT !.primary = cmd.to, !.shadow = config.primary]
        ELSE new

Mirror(h) ==
    /\ handler[h].pc = "apply" /\ handler[h].left = {}
    /\ config' = mirrored(handler[h].cmd)
    /\ to(h, "save")
    /\ UNCHANGED <<weight, up, draining, lock, writer, file, promised, proxy>>

(* snapshot and write_state_atomic, whose failure is ignored.              *)
Save(h) ==
    /\ handler[h].pc = "save"
    /\ file' \in {Snapshot, None}
    /\ settled(h)
    /\ promised' = IF handler[h].cmd.kind = "rollback" THEN handler[h].cmd.to ELSE promised
    /\ UNCHANGED <<weight, up, config, draining, lock, writer, proxy>>

(* write_response, or its error: the guard is dropped with the handler.    *)
Respond(h) ==
    /\ handler[h].pc = "respond"
    /\ lock' = None
    /\ handler' = [handler EXCEPT ![h] = idleHandler]
    /\ UNCHANGED <<weight, up, config, draining, writer, file, promised, proxy>>

-----------------------------------------------------------------------------
(* spawn_state_writer: every five seconds a snapshot is taken and written. *)

(* A slip: the writer takes its snapshot without the lock.                 *)
WriterSnapshotUnlocked ==
    /\ writer.pc = "sleep"
    /\ writer' = [pc |-> "write", snap |-> Snapshot]
    /\ UNCHANGED <<weight, up, config, draining, lock, handler, file, promised, proxy>>

WriterSnapshot ==
    /\ writer.pc = "sleep" /\ lock = None
    /\ lock' = "writer"
    /\ writer' = [pc |-> "write", snap |-> Snapshot]
    /\ UNCHANGED <<weight, up, config, draining, handler, file, promised, proxy>>

WriterWrite ==
    /\ writer.pc = "write"
    /\ file' \in {writer.snap, None}
    /\ writer' = [pc |-> "sleep", snap |-> None]
    /\ lock' = None
    /\ UNCHANGED <<weight, up, config, draining, handler, promised, proxy>>

(* Health checker and breakers: a backend comes or goes.                   *)
Flip(b) ==
    /\ up' = IF b \in up THEN up \ {b} ELSE up \union {b}
    /\ conn' = [c \in Conns |-> [conn[c] EXCEPT !.steady = FALSE]]
    /\ UNCHANGED <<weight, config, draining, control, promised, phase, late>>

-----------------------------------------------------------------------------
(* A request: handle of server.rs and decide of router.rs.                 *)

only(c, k) ==
    /\ conn' = [conn EXCEPT ![c] = k]
    /\ UNCHANGED <<weight, up, config, draining, control, promised, phase, late>>

(* decide returns a backend, or None.                                      *)
ended(k, pc, backend) ==
    [idleConn EXCEPT !.pc = pc, !.backend = backend, !.promise = k.promise,
                     !.steady = k.steady, !.closing = k.closing]

(* The config is loaded once, when the request arrives.  An excluded path  *)
(* is answered at once and changes nothing.                                *)
Arrive(c) ==
    /\ conn[c].pc = "open"
    /\ only(c, [idleConn EXCEPT !.pc = IF config.mode = "shadow" THEN "primary" ELSE "filter",
                                !.mode = config.mode, !.primary = config.primary,
                                !.promise = promised, !.steady = promised # None])

(* is_routable, a weight above 0 and can_route, for one backend.           *)
Filter(c) ==
    LET k == conn[c]
        b == Order[k.i]
        kept == IF b \in up /\ weight[b] > 0 THEN Append(k.cand, b) ELSE k.cand
    IN  /\ k.pc = "filter"
        /\ only(c, IF k.i < Len(Order)
                   THEN [k EXCEPT !.i = @ + 1, !.cand = kept]
                   ELSE IF kept = <<>>
                   THEN ended(k, "refused", None)
                   ELSE [k EXCEPT !.i = 1, !.cand = kept, !.pc = "sum"])

(* The total, one weight at a time; then a draw below it.                  *)
Sum(c) ==
    LET k == conn[c]
        total == k.total + weight[k.cand[k.i]]
    IN  /\ k.pc = "sum"
        /\ \/ /\ k.i < Len(k.cand)
              /\ only(c, [k EXCEPT !.i = @ + 1, !.total = total])
           \/ /\ k.i = Len(k.cand) /\ total = 0
              /\ only(c, ended(k, "refused", None))
           \/ /\ k.i = Len(k.cand)
              /\ \E pick \in 0..(total - 1) :
                    only(c, [k EXCEPT !.pc = "pick", !.i = 1, !.total = 0, !.pick = pick])

(* The weights are read again; the last candidate if they fell meanwhile.  *)
Pick(c) ==
    LET k == conn[c]
        acc == k.acc + weight[k.cand[k.i]]
    IN  /\ k.pc = "pick"
        /\ only(c, IF k.pick < acc \/ k.i = Len(k.cand)
                   THEN [k EXCEPT !.pc = "admit", !.i = 1, !.pick = 0, !.acc = 0,
                                  !.backend = k.cand[k.i]]
                   ELSE [k EXCEPT !.i = @ + 1, !.acc = acc])

(* breaker_admit; a refused candidate, which is there once, is dropped and *)
(* the draw repeated.                                                      *)
Admit(c) ==
    LET k == conn[c]
        others == RemoveFirst(k.cand, k.backend)
    IN  /\ k.pc = "admit"
        /\ only(c, IF k.backend \in up
                   THEN ended(k, "routed", k.backend)
                   ELSE IF k.mode = "active" /\ others # <<>>
                   THEN [k EXCEPT !.pc = "sum", !.cand = others, !.backend = None]
                   ELSE ended(k, "refused", None))

(* Shadow mode: the configured primary or nobody.                          *)
Primary(c) ==
    LET k == conn[c]
    IN  /\ k.pc = "primary"
        /\ only(c, IF k.primary \in up
                   THEN [k EXCEPT !.pc = "admit", !.backend = k.primary]
                   ELSE ended(k, "refused", None))

(* The response is sent and the connection kept open, or it has ended.     *)
Finish(c) ==
    /\ conn[c].pc \in {"routed", "refused"}
    /\ \/ ~conn[c].closing /\ only(c, [idleConn EXCEPT !.pc = "open"])
       \/ only(c, idleConn)

(* The client closes.                                                      *)
Close(c) ==
    /\ conn[c].pc = "open"
    /\ only(c, idleConn)

(* graceful_shutdown: an idle connection ends, another one once it has     *)
(* answered its request.                                                   *)
Shutdown(c) ==
    /\ draining /\ conn[c].pc # "none" /\ ~conn[c].closing
    /\ only(c, IF conn[c].pc = "open" THEN idleConn ELSE [conn[c] EXCEPT !.closing = TRUE])

-----------------------------------------------------------------------------
(* run_proxy_with_listener.                                                *)

loop(next) ==
    /\ phase' = next
    /\ UNCHANGED <<weight, up, config, draining, control, promised>>

(* A slip: the flag is not looked at.                                      *)
CheckNothing ==
    /\ phase = "check"
    /\ loop("select")
    /\ UNCHANGED <<late, conn>>

Check ==
    /\ phase = "check"
    /\ loop(IF draining THEN "join" ELSE "select")
    /\ UNCHANGED <<late, conn>>

(* accept wins the select, with a connection or an error.  drain_signal    *)
(* looks at the flag every 100 ms only, so it may lose after a drain.      *)
Accept(c) ==
    /\ phase = "select" /\ conn[c].pc = "none"
    /\ conn' = [conn EXCEPT ![c] = [idleConn EXCEPT !.pc = "open"]]
    /\ late' = IF draining THEN late + 1 ELSE late
    /\ loop("check")

AcceptError ==
    /\ phase = "select"
    /\ loop("check")
    /\ UNCHANGED <<late, conn>>

DrainSeen ==
    /\ phase = "select" /\ draining
    /\ loop("join")
    /\ UNCHANGED <<late, conn>>

(* Every connection has ended, or the grace is over and they are aborted.  *)
Joined ==
    /\ phase = "join" /\ \A c \in Conns : conn[c].pc = "none"
    /\ loop("exited")
    /\ UNCHANGED <<late, conn>>

(* A slip: the join has no time limit.                                     *)
GraceNeverOver == FALSE /\ UNCHANGED vars

GraceOver ==
    /\ phase = "join"
    /\ conn' = [c \in Conns |-> idleConn]
    /\ loop("exited")
    /\ UNCHANGED late

-----------------------------------------------------------------------------

Control ==
    \/ \E h \in Handlers :
          \/ \E cmd \in Commands : Begin(h, cmd)
          \/ Validate(h) \/ Mirror(h) \/ Save(h) \/ Respond(h)
          \/ \E b \in Backends : Apply(h, b)
    \/ WriterSnapshot \/ WriterWrite

Serving ==
    \E c \in Conns :
        \/ Arrive(c) \/ Filter(c) \/ Sum(c) \/ Pick(c) \/ Admit(c) \/ Primary(c)
        \/ Finish(c) \/ Close(c) \/ Shutdown(c)

Listening == Check \/ AcceptError \/ DrainSeen \/ Joined \/ GraceOver
             \/ \E c \in Conns : Accept(c)

(* The process ends when run_proxy returns.                                *)
Next ==
    /\ phase # "exited"
    /\ Control \/ Serving \/ Listening \/ \E b \in Backends : Flip(b)

Spec == Init /\ [][Next]_vars

(* The accept loop is polled, and its timers fire: drain_signal and the    *)
(* drain grace.  Nothing is assumed of clients, requests or commands.      *)
FairSpec == Spec /\ WF_vars(Check) /\ WF_vars(DrainSeen) /\ WF_vars(GraceOver)

-----------------------------------------------------------------------------

TypeOK ==
    /\ weight \in [Backends -> Nat] /\ config.weight \in [Backends -> Nat]
    /\ up \subseteq Backends
    /\ draining \in BOOLEAN
    /\ lock \in Handlers \union {None, "writer"}
    /\ \A h \in Handlers :
          handler[h].pc \in {"idle", "validate", "apply", "save", "respond"}
    /\ phase \in {"check", "select", "join", "exited"}
    /\ \A c \in Conns :
          /\ conn[c].pc \in {"none", "open", "filter", "sum", "pick", "admit", "primary",
                             "routed", "refused"}
          /\ conn[c].pc \in {"sum", "pick"} => conn[c].i \in 1..Len(conn[c].cand)

(* No command is being carried out.                                        *)
AtRest == \A h \in Handlers : handler[h].pc \in {"idle", "respond"}

(* Between commands the pool the router reads and the config that was      *)
(* stored hold the same weights, and one of them is above 0: no            *)
(* interleaving of set-weight and rollback loses or mixes their updates    *)
(* (control_lock, state.rs:27-34; the total, state.rs:77-87).              *)
WeightsAtRest ==
    AtRest => weight = config.weight /\ \E b \in Backends : weight[b] > 0

(* Between commands state.json, if its last write succeeded, shows the     *)
(* weights and the drain flag in force: no older snapshot of the state     *)
(* writer overwrites a newer one (spawn_state_writer, control.rs:203-206). *)
FileIsCurrent == AtRest => file \in {Snapshot, None}

(* A request that arrives after a rollback was carried out, with no later  *)
(* change of weights begun, is served by the rollback's target, and it is  *)
(* refused only when the target is not available (rollback, state.rs:110;  *)
(* decide, router.rs:25).                                                  *)
RollbackDecides ==
    \A c \in Conns :
        LET k == conn[c]
        IN  k.promise # None =>
                /\ k.pc = "routed" => k.backend = k.promise
                /\ k.pc = "refused" /\ k.steady => k.promise \notin up

(* At most one connection is accepted after a drain was requested, however *)
(* late drain_signal notices it (run_proxy_with_listener, server.rs:447).  *)
OneLateConnection == late <= 1

(* A drain that was requested ends the process, whatever the requests in   *)
(* flight do (the grace period, server.rs:523-534).                        *)
DrainEnds == draining ~> phase = "exited"
=============================================================================
