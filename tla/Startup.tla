--------------------------------- MODULE Startup ---------------------------------
(***************************************************************************)
(* The start of the server: main with startup.rs.  The process started by  *)
(* the caller (parent) forks, a middle process forks again, and the daemon *)
(* goes on; the parent waits on a pipe and exits with the status it reads, *)
(* or with 1 if every writer is gone.  With -D the parent is the server.   *)
(*                                                                         *)
(* Each step of main may fail, a process may panic or be killed at any     *)
(* point, and several starts may be under way: they share pidfile and      *)
(* port.                                                                   *)
(***************************************************************************)
EXTENDS Naturals, Sequences

CONSTANTS
    Starts,     \* invocations of the program
    Families,   \* address families main binds: IPv6 and IPv4
    Configs     \* subset of [daemonize, do_chroot, user : BOOLEAN]

VARIABLES
    config,     \* the same for all starts
    step,       \* [Pid -> index into Main], 0: no such process yet
    outcome,    \* [Pid -> running, exit0, exit1, dead]
    writers,    \* [Starts -> processes that hold the write end of the pipe]
    byte,       \* [Starts -> what is in the pipe: <<>> or one status]
    reported,   \* [Starts -> DaemonHandshake.reported]
    pidfile,    \* the pid in the file, if any
    jailed, bound, dropped      \* processes that did chroot, bind, setuid

startupVars ==
    <<config, step, outcome, writers, byte, reported, pidfile, jailed, bound, dropped>>

Role == {"parent", "middle", "daemon"}
Pid  == Starts \X Role

(* The steps of main, in order: options and access log (config); chroot,   *)
(* the log's new path and data_dir (chroot); the listeners and their       *)
(* number (bind); signal handlers and Server::new (server); and, in        *)
(* eventloop::run, the listeners' registration with the poll (register)    *)
(* before the loop (serve).                                                *)
Main ==
    <<"config", "pidfile", "throttle", "daemonize", "pidfile",
      "chroot", "bind", "setuid", "server", "report", "register", "serve">>

running(p) == step[p] > 0 /\ outcome[p] = "running"
doing(p, name) == running(p) /\ Main[step[p]] = name
serving(p) == doing(p, "serve")

StartupTypeOK ==
    /\ config \in Configs
    /\ step \in [Pid -> 0..Len(Main)]
    /\ outcome \in [Pid -> {"running", "exit0", "exit1", "dead"}]
    /\ \A s \in Starts : writers[s] \subseteq Role /\ Len(byte[s]) <= 1
    /\ reported \in [Starts -> BOOLEAN]
    /\ pidfile \subseteq Pid
    /\ jailed \subseteq Pid /\ bound \subseteq Pid /\ dropped \subseteq Pid

StartupInit ==
    /\ config \in Configs
    /\ step = [p \in Pid |-> 0]
    /\ outcome = [p \in Pid |-> "running"]
    /\ writers = [s \in Starts |-> {}] /\ byte = [s \in Starts |-> <<>>]
    /\ reported = [s \in Starts |-> FALSE]
    /\ pidfile = {} /\ jailed = {} /\ bound = {} /\ dropped = {}

-----------------------------------------------------------------------------

Launch(s) ==
    /\ step[<<s, "parent">>] = 0
    /\ step' = [step EXCEPT ![<<s, "parent">>] = 1]
    /\ UNCHANGED <<config, outcome, writers, byte, reported, pidfile, jailed, bound, dropped>>

(* A process ends: its descriptors are closed.                             *)
ends(p, how) ==
    /\ outcome' = [outcome EXCEPT ![p] = how]
    /\ writers' = [writers EXCEPT ![p[1]] = @ \ {p[2]}]
    /\ bound' = bound \ {p}

(* bind_listeners: a family the host lacks is skipped; any other error,    *)
(* and no family at all, is fatal.                                         *)
bindsWith(result) ==
    /\ \A f \in Families : result[f] # "error"
    /\ \E f \in Families : result[f] = "ok"

(* Another process on the port, or a privileged port without privileges.   *)
canBind(p) == bound = {} /\ p \notin dropped

Proceed(p) == step' = [step EXCEPT ![p] = @ + 1]

(* The steps of main that leave no trace in this model, and those that do. *)
StepSucceeds(p) ==
    \/ /\ \E quiet \in {"config", "throttle", "server", "register"} :
             doing(p, quiet)
       /\ Proceed(p)
       /\ UNCHANGED <<config, outcome, writers, byte, reported, pidfile, jailed, bound, dropped>>
    \/ /\ doing(p, "chroot")
       /\ Proceed(p)
       /\ jailed' = IF config.do_chroot THEN jailed \union {p} ELSE jailed
       /\ UNCHANGED <<config, outcome, writers, byte, reported, pidfile, bound, dropped>>
    \/ /\ doing(p, "setuid")
       /\ Proceed(p)
       /\ dropped' = IF config.user THEN dropped \union {p} ELSE dropped
       /\ UNCHANGED <<config, outcome, writers, byte, reported, pidfile, jailed, bound>>

(* write_pidfile, before and again after daemonizing.                      *)
PidfileWritten(p) ==
    /\ doing(p, "pidfile")
    /\ Proceed(p)
    /\ pidfile' = {p}
    /\ UNCHANGED <<config, outcome, writers, byte, reported, jailed, bound, dropped>>

Bind(p) ==
    /\ doing(p, "bind") /\ canBind(p)
    /\ {r \in [Families -> {"ok", "unsupported", "error"}] : bindsWith(r)} # {}
    /\ Proceed(p)
    /\ bound' = bound \union {p}
    /\ UNCHANGED <<config, outcome, writers, byte, reported, pidfile, jailed, dropped>>

(* Slip: one step too many is skipped.                                     *)
StayInForegroundSkips(p) ==
    /\ doing(p, "daemonize") /\ ~config.daemonize
    /\ step' = [step EXCEPT ![p] = @ + 3]
    /\ UNCHANGED <<config, outcome, writers, byte, reported, pidfile, jailed, bound, dropped>>

(* -D: no fork; the second writing of the pidfile is skipped as well.      *)
StayInForeground(p) ==
    /\ doing(p, "daemonize") /\ ~config.daemonize
    /\ step' = [step EXCEPT ![p] = @ + 2]
    /\ UNCHANGED <<config, outcome, writers, byte, reported, pidfile, jailed, bound, dropped>>

(* Slip: the parent keeps its own copy of the write end.                   *)
FirstForkKeepsWriter(s) ==
    LET parent == <<s, "parent">>
        middle == <<s, "middle">>
    IN  /\ doing(parent, "daemonize") /\ config.daemonize /\ step[middle] = 0
        /\ step' = [step EXCEPT ![middle] = step[parent]]
        /\ writers' = [writers EXCEPT ![s] = {"parent", "middle"}]
        /\ UNCHANGED <<config, outcome, byte, reported, pidfile, jailed, bound, dropped>>

(* daemonize_with_handshake: pipe and first fork, then setsid and second   *)
(* fork.  The middle process exits with 0 and writes nothing.              *)
FirstFork(s) ==
    LET parent == <<s, "parent">>
        middle == <<s, "middle">>
    IN  /\ doing(parent, "daemonize") /\ config.daemonize /\ step[middle] = 0
        /\ step' = [step EXCEPT ![middle] = step[parent]]
        /\ writers' = [writers EXCEPT ![s] = {"middle"}]
        /\ UNCHANGED <<config, outcome, byte, reported, pidfile, jailed, bound, dropped>>

SecondFork(s) ==
    LET middle == <<s, "middle">>
        daemon == <<s, "daemon">>
    IN  /\ doing(middle, "daemonize") /\ step[daemon] = 0
        /\ step' = [step EXCEPT ![daemon] = step[middle] + 1]
        /\ writers' = [writers EXCEPT ![s] = @ \union {"daemon"}]
        /\ UNCHANGED <<config, outcome, byte, reported, pidfile, jailed, bound, dropped>>

MiddleExits(s) ==
    /\ running(<<s, "middle">>) /\ step[<<s, "daemon">>] > 0
    /\ ends(<<s, "middle">>, "exit0")
    /\ UNCHANGED <<config, step, byte, reported, pidfile, jailed, dropped>>

(* Slip: the parent takes the end of the pipe for success.                 *)
exitStatusEofIsSuccess(s) == IF byte[s] = <<>> THEN "exit0" ELSE byte[s][1]

exitStatus(s) == IF byte[s] = <<>> THEN "exit1" ELSE byte[s][1]

(* The blocking read of the parent returns on a byte or when all write     *)
(* ends are closed.                                                        *)
ParentReads(s) ==
    LET parent == <<s, "parent">>
    IN  /\ doing(parent, "daemonize") /\ step[<<s, "middle">>] > 0
        /\ byte[s] # <<>> \/ writers[s] = {}
        /\ ends(parent, exitStatus(s))
        /\ UNCHANGED <<config, step, byte, reported, pidfile, jailed, dropped>>

(* report_success: the byte is in the pipe before the listeners are        *)
(* registered.                                                             *)
Report(p) ==
    /\ doing(p, "report")
    /\ Proceed(p)
    /\ byte' = IF config.daemonize THEN [byte EXCEPT ![p[1]] = <<"exit0">>] ELSE byte
    /\ reported' = [reported EXCEPT ![p[1]] = config.daemonize]
    /\ UNCHANGED <<config, outcome, writers, pidfile, jailed, bound, dropped>>

(* A step returns an error, those of eventloop::run included:              *)
(* process::exit(1), which runs no destructor.  A parent that waits for    *)
(* its daemon is past its last fallible step.                              *)
StepFails(p) ==
    /\ running(p) /\ Main[step[p]] # "report"
    /\ p[2] = "parent" => step[<<p[1], "middle">>] = 0
    /\ p[2] = "middle" => step[<<p[1], "daemon">>] = 0
    /\ ends(p, "exit1")
    /\ UNCHANGED <<config, step, byte, reported, pidfile, jailed, dropped>>

(* A panic unwinds, and the Drop of an unreported handshake writes 1.      *)
Panics(p) ==
    /\ running(p) /\ p[2] = "daemon"
    /\ byte' = IF reported[p[1]] THEN byte ELSE [byte EXCEPT ![p[1]] = <<"exit1">>]
    /\ ends(p, "dead")
    /\ UNCHANGED <<config, step, reported, pidfile, jailed, dropped>>

Killed(p) ==
    /\ running(p) /\ p[2] # "parent"
    /\ ends(p, "dead")
    /\ UNCHANGED <<config, step, byte, reported, pidfile, jailed, dropped>>

ProcessStep(p) ==
    \/ StepSucceeds(p) \/ PidfileWritten(p) \/ StayInForeground(p)
    \/ Bind(p) \/ Report(p) \/ StepFails(p)

StartStep(s) == FirstFork(s) \/ SecondFork(s) \/ MiddleExits(s) \/ ParentReads(s)

StartupNext ==
    \/ \E s \in Starts : Launch(s) \/ StartStep(s)
    \/ \E p \in Pid : ProcessStep(p) \/ Panics(p) \/ Killed(p)

StartupSpec == StartupInit /\ [][StartupNext]_startupVars

(* The processes of a start are scheduled.                                 *)
StartupFairness ==
    \A s \in Starts : WF_startupVars(StartStep(s) \/ \E r \in Role : ProcessStep(<<s, r>>))

-----------------------------------------------------------------------------

(* A process has its sockets, sits in the jail it was to enter and has     *)
(* shed its privileges.                                                    *)
ready(p) ==
    /\ p \in bound
    /\ config.do_chroot => p \in jailed
    /\ config.user => p \in dropped

(* A server that serves is ready: bound, jailed and unprivileged as        *)
(* configured (main.rs:99-138).                                            *)
ServesSafely == \A p \in Pid : serving(p) => ready(p)

(* The parent says 0 only if its daemon got as far as its report and,      *)
(* while it runs, is ready; and 1 only if no daemon of its own is left     *)
(* (daemonize_with_handshake, report_success and Drop, startup.rs).        *)
StatusIsTrue ==
    \A s \in Starts : config.daemonize =>
        /\ outcome[<<s, "parent">>] = "exit0" =>
              /\ \E i \in 1 .. step[<<s, "daemon">>] - 1 : Main[i] = "report"
              /\ running(<<s, "daemon">>) => ready(<<s, "daemon">>)
        /\ outcome[<<s, "parent">>] = "exit1" => ~running(<<s, "daemon">>)

(* "callers see a non-zero exit code when any post-daemon startup step     *)
(* fails" (main.rs:75-76): a daemon that gives up before it serves has no  *)
(* parent that said 0.                                                     *)
FailureIsSeen ==
    \A s \in Starts :
        (outcome[<<s, "daemon">>] = "exit1" /\ step[<<s, "daemon">>] < Len(Main)) =>
            outcome[<<s, "parent">>] # "exit0"

(* A parent never waits for ever, wherever its daemon dies.                *)
ParentEnds ==
    \A s \in Starts : step[<<s, "middle">>] > 0 ~> outcome[<<s, "parent">>] # "running"
=============================================================================
