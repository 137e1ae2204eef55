------------------------------ MODULE StartupProofs ------------------------------
(***************************************************************************)
(* The start of the server, for any number of starts and any               *)
(* configuration: what a process that serves has behind it, and what the   *)
(* exit status of the parent says about its daemon; and, for any           *)
(* directories, the places that chroot and the data directory lead to.     *)
(***************************************************************************)
EXTENDS Startup, Roots, SequenceTheorems, TLAPS

(* The steps of main by number.                                            *)
LEMMA MainSteps ==
    /\ Len(Main) = 12
    /\ Main[1] = "config" /\ Main[2] = "pidfile" /\ Main[3] = "throttle"
    /\ Main[4] = "daemonize" /\ Main[5] = "pidfile" /\ Main[6] = "chroot"
    /\ Main[7] = "bind" /\ Main[8] = "setuid" /\ Main[9] = "server"
    /\ Main[10] = "report" /\ Main[11] = "register" /\ Main[12] = "serve"
  BY DEF Main

-----------------------------------------------------------------------------

(* How a process may have ended, and what the pipe may hold.               *)
Outcomes == {"running", "exit0", "exit1", "dead"}

Statuses == {<<>>, <<"exit0">>, <<"exit1">>}

(* The types of the shared state.                                          *)
Typed ==
    /\ step \in [Pid -> 0..12]
    /\ outcome \in [Pid -> Outcomes]
    /\ byte \in [Starts -> Statuses]
    /\ writers \in [Starts -> SUBSET Role]
    /\ reported = [s \in Starts |-> reported[s]]

(* A process is a start and a role.                                        *)
LEMMA Pids ==
    ASSUME NEW p \in Pid
    PROVE  p[1] \in Starts /\ p[2] \in Role /\ p = <<p[1], p[2]>>
  BY DEF Pid

LEMMA Members ==
    ASSUME NEW s \in Starts
    PROVE  <<s, "parent">> \in Pid /\ <<s, "middle">> \in Pid /\ <<s, "daemon">> \in Pid
  BY DEF Pid, Role

(* The number of the step a process is at.                                 *)
LEMMA DoingStep ==
    ASSUME Typed, NEW p \in Pid
    PROVE  /\ doing(p, "serve") => step[p] = 12
           /\ doing(p, "report") => step[p] = 10
           /\ doing(p, "setuid") => step[p] = 8
           /\ doing(p, "bind") => step[p] = 7
           /\ doing(p, "chroot") => step[p] = 6
           /\ doing(p, "daemonize") => step[p] = 4
           /\ doing(p, "pidfile") => step[p] \in {2, 5}
           /\ \A quiet \in {"config", "throttle", "server", "register"} :
                 doing(p, quiet) => step[p] \in {1, 3, 9, 11}
<1>1. running(p) => step[p] \in {1, 2, 3, 4, 5, 6, 7, 8, 9, 10, 11, 12}
  BY DEF Typed, running
<1> QED BY <1>1, MainSteps DEF doing

(* The ends and the roles that the actions use.                            *)
LEMMA Ending == {"exit0", "exit1", "dead"} \subseteq Outcomes
  BY DEF Outcomes

LEMMA Roles == {"parent", "middle", "daemon"} \subseteq Role
  BY DEF Role

(* The parent exits 0 only on the byte that says so.                       *)
LEMMA ExitStatus ==
    ASSUME Typed, NEW s \in Starts
    PROVE  /\ exitStatus(s) \in {"exit0", "exit1"}
           /\ exitStatus(s) = "exit0" => byte[s] = <<"exit0">>
           /\ exitStatus(s) = "exit1" => byte[s] \in {<<>>, <<"exit1">>}
<1>1. CASE byte[s] = <<>>
  BY <1>1 DEF exitStatus
<1>2. ASSUME NEW x, byte[s] = <<x>> PROVE exitStatus(s) = x
  <2>1. <<x>> # <<>> /\ <<x>>[1] = x
    OBVIOUS
  <2> QED BY <1>2, <2>1 DEF exitStatus
<1>3. byte[s] \in Statuses
  BY DEF Typed
<1> QED BY <1>1, <1>2, <1>3 DEF Statuses

(* The two ways the state moves: a process takes a step of main, or ends.  *)
LEMMA StepMoves ==
    ASSUME Typed, NEW p \in Pid, NEW n \in 0..12, step' = [step EXCEPT ![p] = n]
    PROVE  step' \in [Pid -> 0..12]
  BY DEF Typed

LEMMA EndsTyped ==
    ASSUME Typed, NEW p \in Pid, NEW how \in Outcomes, ends(p, how)
    PROVE  outcome' \in [Pid -> Outcomes] /\ writers' \in [Starts -> SUBSET Role]
<1>1. outcome' \in [Pid -> Outcomes]
  BY DEF Typed, ends
<1>2. p[1] \in Starts
  BY Pids
<1> QED BY <1>1, <1>2 DEF Typed, ends

(* Every step of a start keeps the types.                                  *)
LEMMA TypedStep ==
    ASSUME Typed, [StartupNext]_startupVars PROVE Typed'
<1> USE DEF Typed
<1>1. ASSUME NEW s \in Starts, Launch(s) PROVE Typed'
  <2>1. step' \in [Pid -> 0..12]
    <3>0. 1 \in 0..12
      OBVIOUS
    <3>1. <<s, "parent">> \in Pid
      BY Members
    <3>2. step' = [step EXCEPT ![<<s, "parent">>] = 1]
      BY <1>1 DEF Launch
    <3> HIDE DEF Typed
    <3> QED BY <3>0, <3>1, <3>2, StepMoves
  <2> QED BY <1>1, <2>1 DEF Launch
<1>2. ASSUME NEW s \in Starts, FirstFork(s) PROVE Typed'
  <2>1. step' \in [Pid -> 0..12]
    BY <1>2, Members, StepMoves DEF FirstFork
  <2>2. writers' \in [Starts -> SUBSET Role]
    BY <1>2, Roles DEF FirstFork
  <2> QED BY <1>2, <2>1, <2>2 DEF FirstFork
<1>3. ASSUME NEW s \in Starts, SecondFork(s) PROVE Typed'
  <2>1. step[<<s, "middle">>] = 4
    BY <1>3, Members, DoingStep DEF SecondFork
  <2>2. step' \in [Pid -> 0..12]
    <3>0. 5 \in 0..12
      OBVIOUS
    <3>1. <<s, "daemon">> \in Pid
      BY Members
    <3>2. step' = [step EXCEPT ![<<s, "daemon">>] = 5]
      BY <1>3, <2>1 DEF SecondFork
    <3> HIDE DEF Typed
    <3> QED BY <3>0, <3>1, <3>2, StepMoves
  <2>3. writers' \in [Starts -> SUBSET Role]
    BY <1>3, Roles DEF SecondFork
  <2> QED BY <1>3, <2>2, <2>3 DEF SecondFork
<1>4. ASSUME NEW s \in Starts, MiddleExits(s) PROVE Typed'
  BY <1>4, Ending, Members DEF MiddleExits, ends
<1>5. ASSUME NEW s \in Starts, ParentReads(s) PROVE Typed'
  BY <1>5, ExitStatus, Ending, Members DEF ParentReads, ends
<1>6. ASSUME NEW p \in Pid, StepSucceeds(p) \/ PidfileWritten(p) \/ Bind(p) \/ Report(p)
      PROVE  Typed'
  <2>1. step[p] \in 1..11
    <3>1. \E name \in {"config", "throttle", "server", "register", "chroot", "setuid",
                        "pidfile", "bind", "report"} : doing(p, name)
      BY <1>6 DEF StepSucceeds, PidfileWritten, Bind, Report
    <3> HIDE DEF Typed
    <3> QED BY <3>1, DoingStep
  <2>2. step' = [step EXCEPT ![p] = @ + 1] /\ UNCHANGED <<outcome, writers>>
    BY <1>6 DEF StepSucceeds, PidfileWritten, Bind, Report, Proceed
  <2>3. byte' \in [Starts -> Statuses] /\ reported' = [s \in Starts |-> reported'[s]]
    BY <1>6, Pids DEF StepSucceeds, PidfileWritten, Bind, Report, Statuses
  <2> QED BY <2>1, <2>2, <2>3
<1>7. ASSUME NEW p \in Pid, StayInForeground(p) PROVE Typed'
  <2>1. step[p] = 4
    BY <1>7, DoingStep DEF StayInForeground
  <2> QED BY <1>7, <2>1 DEF StayInForeground
<1>8. ASSUME NEW p \in Pid, StepFails(p) \/ Panics(p) \/ Killed(p) PROVE Typed'
  <2>1. outcome' \in [Pid -> Outcomes] /\ writers' \in [Starts -> SUBSET Role]
    <3>1. \E how \in {"exit1", "dead"} : ends(p, how)
      BY <1>8 DEF StepFails, Panics, Killed
    <3> QED BY <3>1, Ending, EndsTyped
  <2>2. byte' \in [Starts -> Statuses]
    BY <1>8, Pids DEF StepFails, Panics, Killed, Statuses
  <2> QED BY <1>8, <2>1, <2>2 DEF StepFails, Panics, Killed
<1>9. CASE UNCHANGED startupVars
  BY <1>9 DEF startupVars
<1> QED
  BY <1>1, <1>2, <1>3, <1>4, <1>5, <1>6, <1>7, <1>8, <1>9
     DEF StartupNext, StartStep, ProcessStep

-----------------------------------------------------------------------------
(* A process that is past a step of main has what the step gives.          *)
Equipped(p) ==
    running(p) =>
        /\ step[p] > 6 /\ config.do_chroot => p \in jailed
        /\ step[p] > 7 => p \in bound
        /\ step[p] > 8 /\ config.user => p \in dropped

(* Every process that runs is equipped for the step it is at.              *)
SafeInv == Typed /\ \A p \in Pid : Equipped(p)

(* No step of any process takes away what another one has.                 *)
LEMMA SafeStep ==
    ASSUME SafeInv, [StartupNext]_startupVars PROVE SafeInv'
<1>0. Typed /\ Typed' /\ \A p \in Pid : Equipped(p)
  BY TypedStep DEF SafeInv
<1> SUFFICES ASSUME NEW q \in Pid PROVE Equipped(q)'
  BY <1>0 DEF SafeInv
<1>1. ASSUME NEW s \in Starts, Launch(s) PROVE Equipped(q)'
  BY <1>0, <1>1, Members DEF Launch, Equipped, running, Typed
<1>2. ASSUME NEW s \in Starts, FirstFork(s) PROVE Equipped(q)'
  <2>1. step[<<s, "parent">>] = 4
    BY <1>0, <1>2, Members, DoingStep DEF FirstFork
  <2> QED BY <1>0, <1>2, <2>1, Members DEF FirstFork, Equipped, running, Typed
<1>3. ASSUME NEW s \in Starts, SecondFork(s) PROVE Equipped(q)'
  <2>1. step[<<s, "middle">>] = 4
    BY <1>0, <1>3, Members, DoingStep DEF SecondFork
  <2> QED BY <1>0, <1>3, <2>1, Members DEF SecondFork, Equipped, running, Typed
<1>4. ASSUME NEW p \in Pid, NEW how \in {"exit0", "exit1", "dead"}, ends(p, how),
             UNCHANGED <<config, step, jailed, dropped>>
      PROVE  Equipped(q)'
  BY <1>0, <1>4 DEF ends, Equipped, running, Typed
<1>5. ASSUME NEW p \in Pid, \A r \in Pid \ {p} : step'[r] = step[r],
             doing(p, Main[step[p]]), step'[p] <= 6 \/ step[p] > 8,
             UNCHANGED <<config, outcome, jailed, bound, dropped>>
      PROVE  Equipped(q)'
  BY <1>0, <1>5 DEF Equipped, doing, running, Typed
<1>6. ASSUME NEW p \in Pid, StepSucceeds(p) PROVE Equipped(q)'
  <2>1. CASE \E quiet \in {"config", "throttle", "server", "register"} : doing(p, quiet)
    <3>1. step[p] \in {1, 3, 9, 11}
      BY <1>0, <2>1, DoingStep DEF doing
    <3>2. step' = [step EXCEPT ![p] = @ + 1] /\ UNCHANGED <<config, outcome, jailed, bound, dropped>>
      BY <1>6, <3>1, MainSteps DEF StepSucceeds, Proceed, doing
    <3> QED BY <1>0, <1>5, <1>6, <2>1, <3>1, <3>2 DEF doing, Typed
  <2>2. CASE doing(p, "chroot")
    <3>1. step[p] = 6
      BY <1>0, <2>2, DoingStep DEF doing
    <3> QED BY <1>0, <1>6, <3>1, MainSteps
            DEF StepSucceeds, Proceed, doing, Equipped, running, Typed
  <2>3. CASE doing(p, "setuid")
    <3>1. step[p] = 8
      BY <1>0, <2>3, DoingStep DEF doing
    <3> QED BY <1>0, <1>6, <3>1, MainSteps
            DEF StepSucceeds, Proceed, doing, Equipped, running, Typed
  <2> QED BY <1>6, <2>1, <2>2, <2>3 DEF StepSucceeds
<1>7. ASSUME NEW p \in Pid, PidfileWritten(p) \/ Report(p) PROVE Equipped(q)'
  <2>1. step[p] \in {2, 5, 10}
    BY <1>0, <1>7, DoingStep DEF PidfileWritten, Report
  <2>2. step' = [step EXCEPT ![p] = @ + 1] /\ UNCHANGED <<config, outcome, jailed, bound, dropped>>
    BY <1>7 DEF PidfileWritten, Report, Proceed
  <2>3. doing(p, Main[step[p]])
    BY <1>7 DEF PidfileWritten, Report, doing
  <2>4. step'[p] <= 6 \/ step[p] > 8
    BY <1>0, <2>1, <2>2 DEF Typed
  <2>5. \A r \in Pid \ {p} : step'[r] = step[r]
    BY <1>0, <2>2 DEF Typed
  <2> QED BY <1>5, <2>2, <2>3, <2>4, <2>5
<1>8. ASSUME NEW p \in Pid, Bind(p) PROVE Equipped(q)'
  <2>1. step[p] = 7
    BY <1>0, <1>8, DoingStep DEF Bind
  <2> QED BY <1>0, <1>8, <2>1 DEF Bind, Proceed, doing, Equipped, running, Typed
<1>9. ASSUME NEW p \in Pid, StayInForeground(p) PROVE Equipped(q)'
  <2>1. step[p] = 4
    BY <1>0, <1>9, DoingStep DEF StayInForeground
  <2>2. step' = [step EXCEPT ![p] = @ + 2] /\ UNCHANGED <<config, outcome, jailed, bound, dropped>>
    BY <1>9 DEF StayInForeground
  <2> QED BY <1>0, <1>5, <1>9, <2>1, <2>2 DEF StayInForeground, doing, Typed
<1>10. ASSUME NEW p \in Pid, StepFails(p) \/ Panics(p) \/ Killed(p) PROVE Equipped(q)'
  BY <1>4, <1>10 DEF StepFails, Panics, Killed
<1>11. ASSUME NEW s \in Starts, MiddleExits(s) \/ ParentReads(s) PROVE Equipped(q)'
  BY <1>0, <1>4, <1>11, ExitStatus, Members DEF MiddleExits, ParentReads
<1>12. CASE UNCHANGED startupVars
  BY <1>0, <1>12 DEF startupVars, Equipped, running
<1> QED
  BY <1>1, <1>2, <1>3, <1>6, <1>7, <1>8, <1>9, <1>10, <1>11, <1>12
     DEF StartupNext, StartStep, ProcessStep

(* A server that serves has bound its sockets, is in the jail and has      *)
(* shed its privileges as configured, in any number of starts that compete *)
(* (main.rs:99-138).                                                       *)
THEOREM ServingIsSafe == StartupSpec => []ServesSafely
<1>1. StartupInit => SafeInv
  BY DEF StartupInit, SafeInv, Typed, Equipped, running, Outcomes, Statuses
<1>2. SafeInv /\ [StartupNext]_startupVars => SafeInv'
  BY SafeStep
<1>3. SafeInv => ServesSafely
  <2> SUFFICES ASSUME SafeInv, NEW p \in Pid, serving(p)
               PROVE  ready(p)
    BY DEF ServesSafely
  <2>1. step[p] = 12 /\ running(p)
    BY DoingStep DEF SafeInv, serving, doing
  <2> QED BY <2>1 DEF SafeInv, Equipped, ready
<1> QED BY <1>1, <1>2, <1>3, PTL DEF StartupSpec

-----------------------------------------------------------------------------
(* What the pipe (b), its writers (w) and the end of the parent (op) say    *)
(* about the steps (s.) and ends (o.) of the three processes of a start    *)
(* that daemonizes.                                                        *)
Truth(sp, sm, sd, op, om, od, w, b) ==
    /\ sp <= 4 /\ sm \in {0, 4}
    /\ sm > 0 => sp = 4
    /\ sd > 0 => sm = 4
    /\ sm > 0 /\ om = "running" => "middle" \in w
    /\ sd > 0 /\ od = "running" => "daemon" \in w
    /\ b = <<"exit0">> => sd > 10
    /\ b = <<"exit1">> => sd > 0 /\ od # "running"
    /\ op = "exit0" => sd > 10
    /\ op = "exit1" => (IF sd > 0 THEN od # "running" ELSE sm = 0 \/ om # "running")

(* It is so for the processes of start s.                                  *)
Honest(s) ==
    Truth(step[<<s, "parent">>], step[<<s, "middle">>], step[<<s, "daemon">>],
          outcome[<<s, "parent">>], outcome[<<s, "middle">>], outcome[<<s, "daemon">>],
          writers[s], byte[s])

(* It is so for every start of a server that daemonizes.                   *)
StatusInv == Typed /\ (config.daemonize => \A s \in Starts : Honest(s))

(* The three processes of a start, and the three contents of its pipe,     *)
(* differ.                                                                 *)
LEMMA Distinct ==
    ASSUME NEW s \in Starts
    PROVE  /\ <<s, "parent">> # <<s, "middle">> /\ <<s, "parent">> # <<s, "daemon">>
           /\ <<s, "middle">> # <<s, "daemon">>
           /\ <<s, "parent">>[1] = s /\ <<s, "middle">>[1] = s /\ <<s, "daemon">>[1] = s
           /\ <<s, "parent">>[2] = "parent" /\ <<s, "middle">>[2] = "middle"
           /\ <<s, "daemon">>[2] = "daemon"
           /\ \A q \in Pid : q[1] = s => q \in {<<s, "parent">>, <<s, "middle">>, <<s, "daemon">>}
  BY DEF Pid, Role

LEMMA StatusesDiffer == <<"exit0">> # <<"exit1">> /\ <<"exit0">> # <<>> /\ <<"exit1">> # <<>>
  OBVIOUS

(* A step of one process keeps what the pipe and the parent say true.      *)
LEMMA HonestStep ==
    ASSUME StatusInv, [StartupNext]_startupVars, config.daemonize, NEW s \in Starts
    PROVE  Honest(s)'
<1> SUFFICES ASSUME NEW P, NEW M, NEW D, P = <<s, "parent">>, M = <<s, "middle">>, D = <<s, "daemon">>
             PROVE  Honest(s)'
  OBVIOUS
<1>1. /\ P \in Pid /\ M \in Pid /\ D \in Pid /\ P # M /\ P # D /\ M # D
      /\ P[1] = s /\ M[1] = s /\ D[1] = s /\ P[2] = "parent" /\ M[2] = "middle" /\ D[2] = "daemon"
      /\ \A q \in Pid : q[1] = s => q \in {P, M, D}
  BY Members, Distinct
<1>2. Typed /\ Truth(step[P], step[M], step[D], outcome[P], outcome[M], outcome[D], writers[s], byte[s])
  BY DEF StatusInv, Honest
<1>0. step[P] \in 0..12 /\ step[M] \in 0..12 /\ step[D] \in 0..12
  BY <1>1, <1>2 DEF Typed
<1>3. ASSUME Truth(step'[P], step'[M], step'[D], outcome'[P], outcome'[M], outcome'[D], writers'[s], byte'[s])
      PROVE  Honest(s)'
  BY <1>3 DEF Honest
<1>4. ASSUME NEW p \in Pid, p[1] # s, \A q \in Pid \ {p} : step'[q] = step[q] /\ outcome'[q] = outcome[q],
             writers'[s] = writers[s], byte'[s] = byte[s]
      PROVE  Honest(s)'
  <2>1. P # p /\ M # p /\ D # p
    BY <1>1, <1>4
  <2> QED BY <1>1, <1>2, <1>3, <1>4, <2>1
<1>5. ASSUME NEW r \in Starts, Launch(r) PROVE Honest(s)'
  <2>1. CASE r = s
    <3>1. step[P] = 0 /\ step' = [step EXCEPT ![P] = 1] /\ UNCHANGED <<outcome, writers, byte>>
      BY <1>5, <2>1 DEF Launch
    <3>2. /\ step'[P] = 1 /\ step'[M] = step[M] /\ step'[D] = step[D] /\ outcome' = outcome
          /\ writers' = writers /\ byte' = byte
      BY <1>1, <1>2, <3>1 DEF Typed
    <3>3. Truth(step'[P], step'[M], step'[D], outcome'[P], outcome'[M], outcome'[D], writers'[s], byte'[s])
      BY <1>0, <1>2, <3>1, <3>2 DEF Truth
    <3> QED BY <1>3, <3>3
  <2>2. CASE r # s
    <3>1. <<r, "parent">> \in Pid /\ <<r, "parent">>[1] # s
      BY <2>2, Members
    <3>2. \A q \in Pid \ {<<r, "parent">>} : step'[q] = step[q] /\ outcome'[q] = outcome[q]
      BY <1>2, <1>5 DEF Launch, Typed
    <3> QED BY <1>4, <1>5, <3>1, <3>2 DEF Launch
  <2> QED BY <2>1, <2>2
<1>6. ASSUME NEW r \in Starts, FirstFork(r) PROVE Honest(s)'
  <2>1. CASE r = s
    <3>1. /\ doing(P, "daemonize") /\ step[M] = 0
          /\ step' = [step EXCEPT ![M] = step[P]]
          /\ writers' = [writers EXCEPT ![s] = {"middle"}] /\ UNCHANGED <<outcome, byte>>
      BY <1>6, <2>1 DEF FirstFork
    <3>2. step[P] = 4 /\ outcome[P] = "running"
      BY <1>1, <1>2, <3>1, DoingStep DEF doing, running
    <3>3. /\ step'[M] = 4 /\ (\A q \in {P, M, D} \ {M} : step'[q] = step[q]) /\ outcome' = outcome
          /\ writers'[s] = {"middle"} /\ byte' = byte
      BY <1>1, <1>2, <3>1, <3>2 DEF Typed
    <3>4. Truth(step'[P], step'[M], step'[D], outcome'[P], outcome'[M], outcome'[D], writers'[s], byte'[s])
      BY <1>0, <1>1, <1>2, <3>1, <3>2, <3>3 DEF Truth
    <3> QED BY <1>3, <3>4
  <2>2. CASE r # s
    <3>1. <<r, "middle">> \in Pid /\ <<r, "middle">>[1] # s
      BY <2>2, Members
    <3>2. \A q \in Pid \ {<<r, "middle">>} : step'[q] = step[q] /\ outcome'[q] = outcome[q]
      BY <1>2, <1>6 DEF FirstFork, Typed
    <3>3. writers'[s] = writers[s] /\ byte'[s] = byte[s]
      BY <1>2, <1>6, <2>2 DEF FirstFork, Typed
    <3> QED BY <1>4, <3>1, <3>2, <3>3
  <2> QED BY <2>1, <2>2
<1>7. ASSUME NEW r \in Starts, SecondFork(r) PROVE Honest(s)'
  <2>1. CASE r = s
    <3>1. /\ doing(M, "daemonize") /\ step[D] = 0
          /\ step' = [step EXCEPT ![D] = step[M] + 1]
          /\ writers' = [writers EXCEPT ![s] = @ \union {"daemon"}] /\ UNCHANGED <<outcome, byte>>
      BY <1>7, <2>1 DEF SecondFork
    <3>2. step[M] = 4 /\ outcome[M] = "running"
      BY <1>1, <1>2, <3>1, DoingStep DEF doing, running
    <3>3. /\ step'[D] = 5 /\ (\A q \in {P, M, D} \ {D} : step'[q] = step[q]) /\ outcome' = outcome
          /\ writers'[s] = writers[s] \union {"daemon"} /\ byte' = byte
      BY <1>1, <1>2, <3>1, <3>2 DEF Typed
    <3>4. Truth(step'[P], step'[M], step'[D], outcome'[P], outcome'[M], outcome'[D], writers'[s], byte'[s])
      BY <1>0, <1>1, <1>2, <3>1, <3>2, <3>3 DEF Truth
    <3> QED BY <1>3, <3>4
  <2>2. CASE r # s
    <3>1. <<r, "daemon">> \in Pid /\ <<r, "daemon">>[1] # s
      BY <2>2, Members
    <3>2. \A q \in Pid \ {<<r, "daemon">>} : step'[q] = step[q] /\ outcome'[q] = outcome[q]
      BY <1>2, <1>7 DEF SecondFork, Typed
    <3>3. writers'[s] = writers[s] /\ byte'[s] = byte[s]
      BY <1>2, <1>7, <2>2 DEF SecondFork, Typed
    <3> QED BY <1>4, <3>1, <3>2, <3>3
  <2> QED BY <2>1, <2>2
<1>8. ASSUME NEW p \in Pid, NEW how, ends(p, how), UNCHANGED step
      PROVE  /\ outcome'[p] = how /\ \A q \in Pid \ {p} : outcome'[q] = outcome[q]
             /\ writers'[s] = (IF p[1] = s THEN writers[s] \ {p[2]} ELSE writers[s])
  BY <1>2, <1>8, Pids DEF ends, Typed
<1>9. ASSUME NEW r \in Starts, MiddleExits(r) PROVE Honest(s)'
  <2> DEFINE m == <<r, "middle">>
  <2>1. m \in Pid /\ m[1] = r /\ running(m) /\ ends(m, "exit0") /\ UNCHANGED <<step, byte>>
    BY <1>9, Members DEF MiddleExits
  <2>2. r = s => m = M /\ step[D] > 0
    BY <1>9 DEF MiddleExits
  <2> HIDE DEF m
  <2>3. CASE r = s
    <3>1. /\ outcome'[M] = "exit0" /\ outcome'[P] = outcome[P] /\ outcome'[D] = outcome[D]
          /\ writers'[s] = writers[s] \ {"middle"}
      BY <1>1, <1>2, <2>1, <2>2, <2>3 DEF ends, Typed
    <3>9. Truth(step'[P], step'[M], step'[D], outcome'[P], outcome'[M], outcome'[D], writers'[s], byte'[s])
        BY <1>0, <1>1, <1>2, <2>1, <2>2, <2>3, <3>1 DEF Truth
      <3> QED BY <1>3, <3>9
  <2>4. CASE r # s
    BY <1>4, <1>8, <2>1, <2>4
  <2> QED BY <2>3, <2>4
<1>10. ASSUME NEW r \in Starts, ParentReads(r) PROVE Honest(s)'
  <2> DEFINE m == <<r, "parent">>
  <2>1. m \in Pid /\ m[1] = r /\ running(m) /\ ends(m, exitStatus(r)) /\ UNCHANGED <<step, byte>>
    BY <1>10, Members DEF ParentReads, doing
  <2>2. r = s => m = P /\ (byte[s] # <<>> \/ writers[s] = {})
    BY <1>10 DEF ParentReads
  <2> HIDE DEF m
  <2>3. CASE r = s
    <3>1. /\ outcome'[P] = exitStatus(s) /\ outcome'[M] = outcome[M] /\ outcome'[D] = outcome[D]
          /\ writers'[s] = writers[s] \ {"parent"}
      BY <1>1, <1>2, <2>1, <2>2, <2>3 DEF ends, Typed
    <3>2. CASE exitStatus(s) = "exit0"
      <4>1. byte[s] = <<"exit0">>
        BY <1>2, <3>2, ExitStatus
      <4>9. Truth(step'[P], step'[M], step'[D], outcome'[P], outcome'[M], outcome'[D], writers'[s], byte'[s])
          BY <1>0, <1>1, <1>2, <2>1, <3>1, <3>2, <4>1 DEF Truth
        <4> QED BY <1>3, <4>9
    <3>3. CASE exitStatus(s) = "exit1"
      <4>1. byte[s] = <<"exit1">> \/ writers[s] = {}
        BY <1>2, <2>2, <2>3, <3>3, ExitStatus
      <4>9. Truth(step'[P], step'[M], step'[D], outcome'[P], outcome'[M], outcome'[D], writers'[s], byte'[s])
          BY <1>0, <1>1, <1>2, <2>1, <3>1, <3>3, <4>1 DEF Truth
        <4> QED BY <1>3, <4>9
    <3> QED BY <1>2, <3>2, <3>3, ExitStatus
  <2>4. CASE r # s
    BY <1>4, <1>8, <2>1, <2>4
  <2> QED BY <2>3, <2>4
<1>11. ASSUME NEW p \in Pid, running(p), step[p] \in {1, 2, 3, 5, 6, 7, 8, 9, 11}, Proceed(p),
              UNCHANGED <<outcome, writers, byte>>
       PROVE  Honest(s)'
  <2>1. step'[p] = step[p] + 1 /\ \A q \in Pid \ {p} : step'[q] = step[q]
    BY <1>2, <1>11 DEF Proceed, Typed
  <2>2. CASE p[1] # s
    BY <1>4, <1>11, <2>1, <2>2
  <2>3. CASE p = P
    <3>1. step'[P] = step[P] + 1 /\ step'[M] = step[M] /\ step'[D] = step[D] /\ step[P] \in {1, 2, 3, 5, 6, 7, 8, 9, 11}
      BY <1>1, <1>11, <2>1, <2>3
    <3>9. Truth(step'[P], step'[M], step'[D], outcome'[P], outcome'[M], outcome'[D], writers'[s], byte'[s])
        BY <1>0, <1>1, <1>2, <1>11, <3>1 DEF Truth
      <3> QED BY <1>3, <3>9
  <2>4. CASE p = M
    BY <1>2, <1>11, <2>4 DEF Truth
  <2>5. CASE p = D
    <3>1. step'[D] = step[D] + 1 /\ step'[M] = step[M] /\ step'[P] = step[P] /\ step[D] \in {1, 2, 3, 5, 6, 7, 8, 9, 11}
      BY <1>1, <1>11, <2>1, <2>5
    <3>2. step[D] > 0 /\ outcome[D] = "running"
      BY <1>11, <2>5 DEF running
    <3>9. Truth(step'[P], step'[M], step'[D], outcome'[P], outcome'[M], outcome'[D], writers'[s], byte'[s])
        BY <1>0, <1>1, <1>2, <1>11, <3>1, <3>2 DEF Truth
      <3> QED BY <1>3, <3>9
  <2> QED BY <1>1, <2>2, <2>3, <2>4, <2>5
<1>12. ASSUME NEW p \in Pid, StepSucceeds(p) \/ PidfileWritten(p) \/ Bind(p) PROVE Honest(s)'
  <2>1. \E name \in {"config", "throttle", "server", "register", "chroot", "setuid", "pidfile", "bind"} : doing(p, name)
    BY <1>12 DEF StepSucceeds, PidfileWritten, Bind
  <2>2. running(p) /\ step[p] \in {1, 2, 3, 5, 6, 7, 8, 9, 11}
    BY <1>2, <2>1, DoingStep DEF doing
  <2> QED BY <1>11, <1>12, <2>2 DEF StepSucceeds, PidfileWritten, Bind
<1>13. ASSUME NEW p \in Pid, Report(p) PROVE Honest(s)'
  <2>1. running(p) /\ step[p] = 10
    BY <1>2, <1>13, DoingStep DEF Report, doing
  <2>2. step'[p] = step[p] + 1 /\ (\A q \in Pid \ {p} : step'[q] = step[q]) /\ UNCHANGED <<outcome, writers>>
    BY <1>2, <1>13 DEF Report, Proceed, Typed
  <2>3. byte'[s] = (IF p[1] = s THEN <<"exit0">> ELSE byte[s])
    BY <1>2, <1>13, Pids DEF Report, Typed
  <2>4. CASE p[1] # s
    BY <1>4, <2>2, <2>3, <2>4
  <2>5. CASE p[1] = s
    <3>1. p = D
      BY <1>1, <1>2, <2>1, <2>5 DEF Truth
    <3>2. /\ step'[D] = 11 /\ step'[M] = step[M] /\ step'[P] = step[P] /\ step[D] = 10
          /\ outcome[D] = "running" /\ byte'[s] = <<"exit0">>
      BY <1>1, <2>1, <2>2, <2>3, <2>5, <3>1 DEF running
    <3>9. Truth(step'[P], step'[M], step'[D], outcome'[P], outcome'[M], outcome'[D], writers'[s], byte'[s])
        BY <1>0, <1>1, <1>2, <2>2, <3>2, StatusesDiffer DEF Truth
      <3> QED BY <1>3, <3>9
  <2> QED BY <2>4, <2>5
<1>14. ASSUME NEW p \in Pid, StayInForeground(p) PROVE Honest(s)'
  BY <1>14 DEF StayInForeground
<1>15. ASSUME NEW p \in Pid, NEW how \in {"exit1", "dead"}, ends(p, how), running(p), UNCHANGED step,
              p[2] = "parent" => step[<<p[1], "middle">>] = 0 /\ how = "exit1",
              byte'[s] = byte[s] \/ (p = D /\ byte'[s] = <<"exit1">>)
       PROVE  Honest(s)'
  <2>1. CASE p[1] # s
    BY <1>1, <1>4, <1>8, <1>15, <2>1
  <2>2. CASE p = P
    <3>1. step[M] = 0 /\ how = "exit1"
      BY <1>1, <1>15, <2>2
    <3>2. /\ outcome'[P] = "exit1" /\ outcome'[M] = outcome[M] /\ outcome'[D] = outcome[D]
          /\ writers'[s] = writers[s] \ {"parent"} /\ byte'[s] = byte[s]
      BY <1>1, <1>2, <1>15, <2>2, <3>1 DEF ends, Typed
    <3>9. Truth(step'[P], step'[M], step'[D], outcome'[P], outcome'[M], outcome'[D], writers'[s], byte'[s])
        BY <1>0, <1>1, <1>2, <1>15, <3>1, <3>2 DEF Truth
      <3> QED BY <1>3, <3>9
  <2>3. CASE p = M
    <3>1. /\ outcome'[M] = how /\ outcome'[P] = outcome[P] /\ outcome'[D] = outcome[D]
          /\ writers'[s] = writers[s] \ {"middle"} /\ byte'[s] = byte[s] /\ how # "running"
      BY <1>1, <1>2, <1>15, <2>3 DEF ends, Typed
    <3>9. Truth(step'[P], step'[M], step'[D], outcome'[P], outcome'[M], outcome'[D], writers'[s], byte'[s])
        BY <1>0, <1>1, <1>2, <1>15, <3>1 DEF Truth
      <3> QED BY <1>3, <3>9
  <2>4. CASE p = D
    <3>1. /\ outcome'[D] = how /\ outcome'[P] = outcome[P] /\ outcome'[M] = outcome[M]
          /\ writers'[s] = writers[s] \ {"daemon"} /\ how # "running" /\ step[D] > 0
      BY <1>1, <1>2, <1>15, <2>4 DEF running, ends, Typed
    <3>9. Truth(step'[P], step'[M], step'[D], outcome'[P], outcome'[M], outcome'[D], writers'[s], byte'[s])
        BY <1>0, <1>1, <1>2, <1>15, <3>1, StatusesDiffer DEF Truth
      <3> QED BY <1>3, <3>9
  <2> QED BY <1>1, <2>1, <2>2, <2>3, <2>4
<1>16. ASSUME NEW p \in Pid, StepFails(p) PROVE Honest(s)'
  <2>1. ends(p, "exit1") /\ running(p) /\ UNCHANGED <<step, byte>>
    BY <1>16 DEF StepFails
  <2>2. p[2] = "parent" => step[<<p[1], "middle">>] = 0
    BY <1>16 DEF StepFails
  <2> QED BY <1>15, <2>1, <2>2
<1>17. ASSUME NEW p \in Pid, Panics(p) PROVE Honest(s)'
  <2>1. byte'[s] = byte[s] \/ (p[1] = s /\ byte'[s] = <<"exit1">>)
    <3>1. p[1] \in Starts /\ byte = [x \in Starts |-> byte[x]]
      BY <1>2, Pids DEF Typed
    <3>2. byte' = byte \/ byte' = [byte EXCEPT ![p[1]] = <<"exit1">>]
      BY <1>17 DEF Panics
    <3> QED BY <3>1, <3>2
  <2>2. p[2] = "daemon" /\ (p[1] = s => p = D)
    BY <1>1, <1>17 DEF Panics
  <2>3. ends(p, "dead") /\ running(p) /\ UNCHANGED step
    BY <1>17 DEF Panics
  <2> QED BY <1>15, <2>1, <2>2, <2>3
<1>18. ASSUME NEW p \in Pid, Killed(p) PROVE Honest(s)'
  <2>1. ends(p, "dead") /\ running(p) /\ UNCHANGED <<step, byte>> /\ p[2] # "parent"
    BY <1>18 DEF Killed
  <2> QED BY <1>15, <2>1
<1>19. CASE UNCHANGED startupVars
  BY <1>2, <1>3, <1>19 DEF startupVars
<1> QED
  BY <1>5, <1>6, <1>7, <1>9, <1>10, <1>12, <1>13, <1>14, <1>16, <1>17, <1>18, <1>19
     DEF StartupNext, StartStep, ProcessStep

(* The parent exits with 0 only when its daemon came as far as its report, *)
(* and then, while it runs, has its sockets, its jail and no privileges;   *)
(* and with 1 only when it has no daemon that runs, now or later, at       *)
(* whatever point the processes fail, panic or are killed (main.rs:72-79,  *)
(* startup.rs:252-405).                                                    *)
THEOREM StatusSaysTheTruth == StartupSpec => []StatusIsTrue
<1>1. StartupInit => StatusInv
  <2> SUFFICES ASSUME StartupInit PROVE StatusInv
    OBVIOUS
  <2>1. Typed
    BY DEF StartupInit, Typed, Outcomes, Statuses
  <2> SUFFICES ASSUME NEW s \in Starts PROVE Honest(s)
    BY <2>1 DEF StatusInv
  <2>2. /\ step[<<s, "parent">>] = 0 /\ step[<<s, "middle">>] = 0 /\ step[<<s, "daemon">>] = 0
        /\ outcome[<<s, "parent">>] = "running" /\ byte[s] = <<>>
    BY Members DEF StartupInit
  <2> QED BY <2>1, <2>2, StatusesDiffer DEF Honest, Truth
<1>2. StatusInv /\ [StartupNext]_startupVars => StatusInv'
  <2> SUFFICES ASSUME StatusInv, [StartupNext]_startupVars PROVE StatusInv'
    OBVIOUS
  <2>1. Typed'
    BY TypedStep DEF StatusInv
  <2>2. config' = config
    BY
       DEF StartupNext, StartStep, ProcessStep, startupVars, Launch, FirstFork, SecondFork, MiddleExits,
           ParentReads, StepSucceeds, PidfileWritten, StayInForeground, Bind, Report, StepFails, Panics, Killed
  <2> QED BY <2>1, <2>2, HonestStep DEF StatusInv
<1>3. StartupInit => SafeInv
  BY DEF StartupInit, SafeInv, Typed, Equipped, running, Outcomes, Statuses
<1>4. SafeInv /\ [StartupNext]_startupVars => SafeInv'
  BY SafeStep
<1>5. StatusInv /\ SafeInv => StatusIsTrue
  <2> SUFFICES ASSUME StatusInv, SafeInv, NEW s \in Starts, config.daemonize,
                      NEW D, D = <<s, "daemon">>
               PROVE  /\ outcome[<<s, "parent">>] = "exit0" =>
                            /\ \E i \in 1 .. step[D] - 1 : Main[i] = "report"
                            /\ running(D) => ready(D)
                      /\ outcome[<<s, "parent">>] = "exit1" => ~running(D)
    BY DEF StatusIsTrue
  <2>1. D \in Pid /\ step[D] \in 0..12
    BY Members DEF StatusInv, Typed
  <2>2. outcome[<<s, "parent">>] = "exit1" => ~running(D)
    BY <2>1 DEF StatusInv, Honest, Truth, running
  <2>3. ASSUME outcome[<<s, "parent">>] = "exit0"
        PROVE  (\E i \in 1 .. step[D] - 1 : Main[i] = "report") /\ (running(D) => ready(D))
    <3>1. step[D] > 10
      BY <2>1, <2>3 DEF StatusInv, Honest, Truth
    <3>2. 10 \in 1 .. step[D] - 1
      BY <2>1, <3>1
    <3> QED BY <2>1, <3>1, <3>2, MainSteps DEF SafeInv, Equipped, ready
  <2> QED BY <2>2, <2>3
<1> QED BY <1>1, <1>2, <1>3, <1>4, <1>5, PTL DEF StartupSpec

-----------------------------------------------------------------------------
(* The roots.                                                              *)

(* The root is where the process started until chroot, which makes the     *)
(* served directory the new one.                                           *)
RootsInv ==
    /\ rootsAt \in {"open", "chroot", "data_dir", "serving"}
    /\ dir \in RootsPath /\ data_dir \in RootsPath /\ logPath \in RootsPath
    /\ do_chroot \in BOOLEAN
    /\ root \in Seq(STRING) /\ cwd \in Seq(STRING) /\ logPlace \in Seq(STRING)
    /\ (~do_chroot \/ rootsAt \in {"open", "chroot"}) => root = <<>>
    /\ do_chroot /\ rootsAt = "data_dir" => dir = slash

(* A path leads to a place.                                                *)
LEMMA Resolves ==
    ASSUME RootsInv, NEW p \in RootsPath
    PROVE  /\ resolve(p) \in Seq(STRING)
           /\ (IF p.abs THEN root ELSE cwd) \in Seq(STRING)
           /\ p.names \in Seq(STRING)
<1>1. (IF p.abs THEN root ELSE cwd) \in Seq(STRING) /\ p.names \in Seq(STRING)
  BY DEF RootsInv, RootsPath
<1> QED BY <1>1, ConcatProperties DEF resolve

(* Names are joined in either order.                                       *)
LEMMA NamesAssociate ==
    ASSUME NEW s \in Seq(STRING), NEW t \in Seq(STRING), NEW u \in Seq(STRING)
    PROVE  (s \o t) \o u = s \o (t \o u)
  BY ConcatAssociative

(* An absolute path replaces what it is joined to.                         *)
LEMMA Joins ==
    ASSUME NEW p \in RootsPath, NEW q \in RootsPath
    PROVE  /\ join(p, q) \in RootsPath
           /\ q.abs => join(p, q) = q
           /\ ~q.abs => join(p, q) = [abs |-> p.abs, names |-> p.names \o q.names]
<1>1. p.names \o q.names \in Seq(STRING)
  BY ConcatProperties DEF RootsPath
<1> QED BY Zenon, <1>1 DEF join, RootsPath

(* A path that has the jail as a prefix is the jail and the rest.          *)
LEMMA PrefixAndRest ==
    ASSUME NEW s \in Seq(STRING), NEW t \in Seq(STRING), IsPrefix(s, t)
    PROVE  /\ SubSeq(t, Len(s) + 1, Len(t)) \in Seq(STRING)
           /\ s \o SubSeq(t, Len(s) + 1, Len(t)) = t
<1>1. Len(s) <= Len(t) /\ \A i \in 1..Len(s) : s[i] = t[i]
  BY DEF IsPrefix
<1> DEFINE u == SubSeq(t, Len(s) + 1, Len(t))
<1>2. /\ u \in Seq(STRING) /\ Len(u) = Len(t) - Len(s)
      /\ \A i \in 1..(Len(t) - Len(s)) : u[i] = t[Len(s) + i]
  BY <1>1
<1> HIDE DEF u
<1>3. s \o u \in Seq(STRING) /\ Len(s \o u) = Len(t) /\ \A i \in 1..Len(t) : (s \o u)[i] = t[i]
  BY <1>1, <1>2
<1>4. s \o u = t
  BY Zenon, <1>3, SeqEqual
<1> QED BY <1>2, <1>4 DEF u

(* Every step of the start keeps these facts.                              *)
LEMMA RootsStep ==
    ASSUME RootsInv, [RootsNext]_rootsVars PROVE RootsInv'
<1>1. CASE OpenLog \/ reopen
  BY <1>1, Resolves DEF OpenLog, reopen, RootsInv
<1>2. CASE ChangeRoot
  <2>1. slash \in RootsPath
    BY EmptySeq DEF slash, RootsPath
  <2>2. path_after_chroot(logPath, dir) \in RootsPath
    <3>1. CASE logPath.abs /\ dir.abs /\ IsPrefix(dir.names, logPath.names)
      <4>1. SubSeq(logPath.names, Len(dir.names) + 1, Len(logPath.names)) \in Seq(STRING)
        BY <3>1, PrefixAndRest DEF RootsInv, RootsPath
      <4> QED BY Zenon, <3>1, <4>1 DEF path_after_chroot, RootsInv, RootsPath
    <3> QED BY <3>1 DEF path_after_chroot, RootsInv
  <2>3. CASE do_chroot
    BY <1>2, <2>1, <2>2, <2>3, Resolves DEF ChangeRoot, RootsInv
  <2>4. CASE ~do_chroot
    BY <1>2, <2>4 DEF ChangeRoot, RootsInv
  <2> QED BY <2>3, <2>4
<1>3. CASE apply_data_dir
  <2>1. slash \in RootsPath /\ dot \in RootsPath
    BY EmptySeq DEF slash, dot, RootsPath
  <2>2. data_dir_chdir_path \in RootsPath /\ effective_dir_after_chdir \in RootsPath
    BY Zenon, <2>1, Joins DEF data_dir_chdir_path, effective_dir_after_chdir, RootsInv
  <2>3. cwd' \in Seq(STRING) /\ dir' \in RootsPath
    BY <1>3, <2>2, Resolves DEF apply_data_dir, RootsInv
  <2> QED BY <1>3, <2>3 DEF apply_data_dir, RootsInv
<1>4. CASE UNCHANGED rootsVars
  BY <1>4 DEF rootsVars, RootsInv
<1> QED BY <1>1, <1>2, <1>3, <1>4 DEF RootsNext

LEMMA RootsInvHolds == RootsSpec => []RootsInv
<1>1. RootsInit => RootsInv
  BY RootsConfig, EmptySeq DEF RootsInit, RootsInv
<1>2. RootsInv /\ [RootsNext]_rootsVars => RootsInv'
  BY RootsStep
<1> QED BY <1>1, <1>2, PTL DEF RootsSpec

(* Neither chroot nor the chdir to the data directory changes which place  *)
(* is served, for any paths: the paths are rewritten as the root and the   *)
(* working directory move (main.rs, apply_data_dir).                       *)
THEOREM ServedPlaceAlwaysKept == RootsSpec => ServedPlaceIsKept
<1>1. RootsInv /\ [RootsNext]_rootsVars =>
      [/\ rootsAt \in {"open", "chroot"} /\ rootsAt' # "serving" =>
            servedAfter(dir)' = servedAfter(dir)
       /\ rootsAt = "data_dir" /\ rootsAt' = "serving" =>
            resolve(dir)' = servedAfter(dir)]_rootsVars
  <2> SUFFICES ASSUME RootsInv, RootsNext
               PROVE  /\ rootsAt \in {"open", "chroot"} /\ rootsAt' # "serving" =>
                            servedAfter(dir)' = servedAfter(dir)
                      /\ rootsAt = "data_dir" /\ rootsAt' = "serving" =>
                            resolve(dir)' = servedAfter(dir)
    OBVIOUS
  <2>1. CASE OpenLog \/ reopen
    <3>1. resolve(dir)' = resolve(dir) /\ UNCHANGED <<data_dir, do_chroot>>
      BY Zenon, <2>1 DEF OpenLog, reopen, resolve
    <3>2. servedAfter(dir)' = servedAfter(dir)
      BY <3>1 DEF servedAfter
    <3> QED BY <2>1, <3>2 DEF OpenLog, reopen
  <2>2. CASE ChangeRoot
    <3>1. resolve(dir)' = resolve(dir)
      <4>1. CASE do_chroot
        <5>1. root' = resolve(dir) /\ dir' = slash
          BY <2>2, <4>1 DEF ChangeRoot
        <5>2. resolve(dir) \o <<>> = resolve(dir)
          BY Resolves, ConcatEmptySeq DEF RootsInv
        <5> QED BY Zenon, <5>1, <5>2 DEF resolve, slash
      <4>2. CASE ~do_chroot
        BY Zenon, <2>2, <4>2 DEF ChangeRoot, resolve
      <4> QED BY <4>1, <4>2
    <3>2. UNCHANGED <<data_dir, do_chroot>> /\ rootsAt = "chroot"
      BY <2>2 DEF ChangeRoot
    <3> QED BY <3>1, <3>2 DEF servedAfter
  <2>3. CASE apply_data_dir
    <3> SUFFICES resolve(dir)' = servedAfter(dir)
      BY <2>3 DEF apply_data_dir
    <3>0. data_dir \in RootsPath /\ dir \in RootsPath /\ root' = root
          /\ data_dir.names \in Seq(STRING) /\ dir.names \in Seq(STRING)
          /\ root \in Seq(STRING) /\ cwd \in Seq(STRING)
          /\ dir.abs \in BOOLEAN /\ data_dir.abs \in BOOLEAN
          /\ slash \in RootsPath /\ slash.names = <<>> /\ slash.abs /\ dot.names = <<>> /\ ~dot.abs
      BY <2>3, EmptySeq DEF apply_data_dir, RootsInv, RootsPath, slash, dot
    <3>1. CASE data_dir = NoDir
      BY Zenon, <2>3, <3>1 DEF apply_data_dir, servedAfter, resolve
    <3>2. CASE data_dir # NoDir /\ data_dir.abs
      <4>1. dir' = data_dir
        BY <2>3, <3>2 DEF apply_data_dir, effective_dir_after_chdir
      <4>2. resolve(dir)' = root \o data_dir.names
        BY <3>0, <3>2, <4>1 DEF resolve
      <4>3. do_chroot => resolve(dir) = root
        BY Zenon, <2>3, <3>0, ConcatEmptySeq DEF RootsInv, apply_data_dir, resolve
      <4>4. ~do_chroot => root \o data_dir.names = data_dir.names
        BY <3>0, ConcatEmptySeq DEF RootsInv
      <4> QED BY <3>2, <4>2, <4>3, <4>4 DEF servedAfter
    <3>3. CASE data_dir # NoDir /\ ~data_dir.abs /\ do_chroot
      <4>1. dir' = join(slash, data_dir)
        BY <2>3, <3>3 DEF apply_data_dir, effective_dir_after_chdir
      <4>2. dir' = [abs |-> TRUE, names |-> data_dir.names]
        <5>1. dir' = [abs |-> slash.abs, names |-> slash.names \o data_dir.names]
          BY Zenon, <3>0, <3>3, <4>1, Joins
        <5>2. slash.names \o data_dir.names = data_dir.names
          BY <3>0, ConcatEmptySeq
        <5> QED BY <5>1, <5>2 DEF slash
      <4>3. resolve(dir) = root
        BY Zenon, <2>3, <3>0, <3>3, ConcatEmptySeq DEF RootsInv, apply_data_dir, resolve
      <4> QED BY Zenon, <3>0, <3>3, <4>2, <4>3 DEF servedAfter, resolve
    <3>4. CASE data_dir # NoDir /\ ~data_dir.abs /\ ~do_chroot
      <4>1. servedAfter(dir) = (IF dir.abs THEN root ELSE cwd) \o (dir.names \o data_dir.names)
        <5> DEFINE from == IF dir.abs THEN root ELSE cwd
        <5>1. servedAfter(dir) = (from \o dir.names) \o data_dir.names
          BY Zenon, <3>4 DEF servedAfter, resolve
        <5>2. from \in Seq(STRING)
          BY <3>0
        <5>3. dir.names \in Seq(STRING) /\ data_dir.names \in Seq(STRING)
          BY <3>0
        <5> HIDE DEF from
        <5>4. (from \o dir.names) \o data_dir.names = from \o (dir.names \o data_dir.names)
          BY Zenon, <5>2, <5>3, NamesAssociate
        <5> QED BY Zenon, <5>1, <5>4 DEF from
      <4>2. join(dir, data_dir) = [abs |-> dir.abs, names |-> dir.names \o data_dir.names]
        BY Zenon, <3>0, <3>4, Joins
      <4>3. CASE dir.abs
        <5>1. dir.abs = TRUE
          BY <3>0, <4>3
        <5>2. dir' = [abs |-> TRUE, names |-> dir.names \o data_dir.names]
          BY Zenon, <2>3, <3>4, <4>2, <5>1 DEF apply_data_dir, effective_dir_after_chdir
        <5>3. root' = root
          BY <3>0
        <5> QED BY Zenon, <4>1, <4>3, <5>2, <5>3 DEF resolve
      <4>4. CASE ~dir.abs
        <5>1. dir' = dot /\ cwd' = resolve(join(dir, data_dir))
          BY <2>3, <3>4, <4>4 DEF apply_data_dir, effective_dir_after_chdir, data_dir_chdir_path
        <5>2. cwd' = cwd \o (dir.names \o data_dir.names)
          <6>1. resolve([dir EXCEPT !.names = dir.names \o data_dir.names])
                  = cwd \o (dir.names \o data_dir.names)
            BY <3>0, <4>4 DEF resolve, RootsPath
          <6>2. join(dir, data_dir) = [dir EXCEPT !.names = dir.names \o data_dir.names]
            BY <3>4 DEF join
          <6> QED BY Zenon, <5>1, <6>1, <6>2
        <5>3. cwd' \in Seq(STRING)
          <6>1. dir \in RootsPath /\ data_dir \in RootsPath
            BY <3>0
          <6>2. join(dir, data_dir) \in RootsPath
            BY Zenon, <6>1, Joins
          <6> QED BY <5>1, <6>2, Resolves
        <5>4. resolve(dir)' = cwd' \o <<>>
          BY Zenon, <5>1 DEF resolve, dot
        <5> QED BY Zenon, <4>1, <4>4, <5>2, <5>3, <5>4, ConcatEmptySeq
      <4> QED BY <4>3, <4>4
    <3> QED BY <3>1, <3>2, <3>3, <3>4
  <2> QED BY <2>1, <2>2, <2>3 DEF RootsNext
<1> QED BY <1>1, RootsInvHolds, PTL DEF RootsSpec, ServedPlaceIsKept

(* A log that is reopened after the chroot is the log that was opened      *)
(* before it, for any absolute path inside the jail (path_after_chroot,    *)
(* main.rs).                                                               *)
THEOREM LogAlwaysStaysInPlace == RootsSpec => LogStaysInPlace
<1>1. RootsInv /\ [RootsNext]_rootsVars =>
      [/\ rootsAt # "open" /\ logPath.abs /\ resolve(logPath) = logPlace
       /\ rootsAt = "chroot" /\ do_chroot =>
            dir.abs /\ IsPrefix(resolve(dir), logPlace)
       => logPlace' = logPlace /\ resolve(logPath)' = logPlace]_rootsVars
  <2> SUFFICES ASSUME RootsInv, RootsNext,
                      rootsAt # "open", logPath.abs, resolve(logPath) = logPlace,
                      rootsAt = "chroot" /\ do_chroot =>
                            dir.abs /\ IsPrefix(resolve(dir), logPlace)
               PROVE  logPlace' = logPlace /\ resolve(logPath)' = logPlace
    OBVIOUS
  <2>1. CASE OpenLog \/ reopen \/ apply_data_dir
    BY Zenon, <2>1 DEF OpenLog, reopen, apply_data_dir, resolve
  <2>2. CASE ChangeRoot /\ ~do_chroot
    BY Zenon, <2>2 DEF ChangeRoot, resolve
  <2>3. CASE ChangeRoot /\ do_chroot
    <3>1. root = <<>> /\ dir.names \in Seq(STRING) /\ logPath.names \in Seq(STRING)
          /\ dir \in RootsPath /\ logPath \in RootsPath
      BY <2>3 DEF ChangeRoot, RootsInv, RootsPath
    <3>2. dir.abs /\ resolve(dir) = dir.names /\ logPlace = logPath.names
      BY Zenon, <2>3, <3>1, ConcatEmptySeq DEF ChangeRoot, resolve
    <3> DEFINE rest == SubSeq(logPath.names, Len(dir.names) + 1, Len(logPath.names))
    <3>3. IsPrefix(dir.names, logPath.names)
      BY <2>3, <3>2 DEF ChangeRoot
    <3>4. rest \in Seq(STRING) /\ dir.names \o rest = logPath.names
      BY Zenon, <3>1, <3>3, PrefixAndRest
    <3>5. logPath' = [logPath EXCEPT !.names = rest] /\ root' = dir.names
      BY Zenon, <2>3, <3>2, <3>3 DEF ChangeRoot, path_after_chroot
    <3> HIDE DEF rest
    <3>6. logPath'.abs = logPath.abs /\ logPath'.names = rest
      BY Zenon, <3>1, <3>5 DEF RootsPath
    <3> QED BY <2>3, <3>2, <3>4, <3>5, <3>6 DEF ChangeRoot, resolve
  <2> QED BY <2>1, <2>2, <2>3 DEF RootsNext
<1> QED BY <1>1, RootsInvHolds, PTL DEF RootsSpec, LogStaysInPlace
=============================================================================
