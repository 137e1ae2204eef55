----------------------------------- MODULE Cgi -----------------------------------
(***************************************************************************)
(* One CGI dispatch after another: dispatch_cgi with execute_cgi on one    *)
(* side, the script on the other, and three pipes of bounded size between  *)
(* them.  The server is single-threaded and its calls block, so while a    *)
(* dispatch waits for the script the whole server does.                    *)
(*                                                                         *)
(* The script is any program that reads, writes and exits in some order;   *)
(* it commits to a call before the call can block.  Data are units.        *)
(***************************************************************************)
EXTENDS Naturals

CONSTANTS
    ReadBuf,        \* READ_BUF_SIZE: the longest body that can be buffered
    PipeSize,       \* capacity of a pipe
    MaxOut,         \* bound: units a script writes to stdout, and to stderr
    cgi_limit       \* 0: no limit

ASSUME CgiConfig ==
    /\ ReadBuf \in Nat /\ PipeSize \in Nat \ {0} /\ MaxOut \in Nat /\ cgi_limit \in Nat
    /\ ReadBuf <= PipeSize      \* 60000 and, on Linux, 65536

VARIABLES
    at,             \* where the dispatch is
    active_cgis,
    post_body,      \* units of the body still to be written
    pipe,           \* [stdin, stdout, stderr]: units in each pipe
    script,         \* what the script is doing: a call, "computing", "ended"
    wrote,          \* [stdout, stderr]: what the script wrote so far
    shut,           \* stdin: the script saw its end; stdout: it closed it early
    output          \* what the server read

cgiVars == <<at, active_cgis, post_body, pipe, script, wrote, shut, output>>

emptyPipes == [stdin |-> 0, stdout |-> 0, stderr |-> 0]

CgiTypeOK ==
    /\ at \in {"idle", "counted", "writing", "stdout", "stderr", "waiting"}
    /\ active_cgis \in Nat /\ post_body \in 0..ReadBuf
    /\ pipe \in [{"stdin", "stdout", "stderr"} -> 0..PipeSize]
    /\ script \in {"none", "computing", "read", "stdout", "stderr", "ended"}
    /\ wrote \in [{"stdout", "stderr"} -> 0..MaxOut]
    /\ shut \subseteq {"stdin", "stdout"} /\ output \in 0..MaxOut

CgiInit ==
    /\ at = "idle" /\ active_cgis = 0 /\ post_body = 0 /\ pipe = emptyPipes
    /\ script = "none" /\ wrote = [stdout |-> 0, stderr |-> 0] /\ shut = {} /\ output = 0

-----------------------------------------------------------------------------

(* Over the limit a request is answered before it is counted.  That        *)
(* changes nothing here and, by CountReturns, never happens.               *)
refused == cgi_limit > 0 /\ active_cgis >= cgi_limit

(* The request is counted before anything else is known of it.             *)
Count ==
    /\ at = "idle" /\ ~refused
    /\ active_cgis' = active_cgis + 1
    /\ at' = "counted"
    /\ UNCHANGED <<post_body, pipe, script, wrote, shut, output>>

(* The three ways a counted request ends without a script, each with its   *)
(* own decrement: there is no such file, a throttle rule rejects it, or    *)
(* execute_cgi fails.                                                      *)
NotFound ==
    /\ at = "counted"
    /\ active_cgis' = active_cgis - 1
    /\ at' = "idle"
    /\ UNCHANGED <<post_body, pipe, script, wrote, shut, output>>

(* Slip: the rejected request stays counted.                               *)
RejectedCounted ==
    /\ at = "counted"
    /\ at' = "idle"
    /\ UNCHANGED <<active_cgis, post_body, pipe, script, wrote, shut, output>>

Rejected ==
    /\ at = "counted"
    /\ active_cgis' = active_cgis - 1
    /\ at' = "idle"
    /\ UNCHANGED <<post_body, pipe, script, wrote, shut, output>>

SpawnFails ==
    /\ at = "counted"
    /\ active_cgis' = active_cgis - 1
    /\ at' = "idle"
    /\ UNCHANGED <<post_body, pipe, script, wrote, shut, output>>

Spawn(body) ==
    /\ at = "counted"
    /\ at' = "writing" /\ post_body' = body
    /\ UNCHANGED active_cgis
    /\ pipe' = emptyPipes /\ script' = "computing"
    /\ wrote' = [stdout |-> 0, stderr |-> 0] /\ shut' = {} /\ output' = 0

(* write_all, as much as the pipe takes at a time.  A script that has      *)
(* ended makes it fail, which is ignored.                                  *)
WriteBody ==
    /\ at = "writing" /\ post_body > 0
    /\ \/ /\ script # "ended" /\ pipe.stdin < PipeSize
          /\ post_body' = post_body - 1
          /\ pipe' = [pipe EXCEPT !.stdin = @ + 1]
       \/ /\ script = "ended"
          /\ post_body' = 0
          /\ UNCHANGED pipe
    /\ UNCHANGED <<at, active_cgis, script, wrote, shut, output>>

(* Slip: a request without a body leaves the pipe open.                    *)
stdinOpenWithoutBody == at # "idle" /\ pipe.stdin = 0

(* The write end of stdin is dropped when the body is written.             *)
stdinOpen == at = "writing"

CloseStdin ==
    /\ at = "writing" /\ post_body = 0
    /\ at' = "stdout"
    /\ UNCHANGED <<active_cgis, post_body, pipe, script, wrote, shut, output>>

(* read_to_end returns when the pipe is empty and its writer is gone.      *)
atEnd(p) == pipe[p] = 0 /\ (script = "ended" \/ p \in shut)

ReadUnit(p) ==
    /\ at = p /\ pipe[p] > 0
    /\ pipe' = [pipe EXCEPT ![p] = @ - 1]
    /\ output' = output + 1
    /\ UNCHANGED <<at, active_cgis, post_body, script, wrote, shut>>

(* stderr is read only if stdout was empty.                                *)
StdoutEnds ==
    /\ at = "stdout" /\ atEnd("stdout")
    /\ at' = IF output = 0 THEN "stderr" ELSE "waiting"
    /\ UNCHANGED <<active_cgis, post_body, pipe, script, wrote, shut, output>>

StderrEnds ==
    /\ at = "stderr" /\ atEnd("stderr")
    /\ at' = "waiting"
    /\ UNCHANGED <<active_cgis, post_body, pipe, script, wrote, shut, output>>

(* child.wait(), the response is handed to transition_to_sending, and the  *)
(* request is no longer counted.                                           *)
Respond ==
    /\ at = "waiting" /\ script = "ended"
    /\ active_cgis' = active_cgis - 1
    /\ at' = "idle"
    /\ UNCHANGED <<post_body, pipe, script, wrote, shut, output>>

-----------------------------------------------------------------------------

(* The script commits to a call, or exits.                                 *)
Commit(call) ==
    /\ script = "computing"
    /\ call = "read" => "stdin" \notin shut
    /\ call \in {"stdout", "stderr"} => call \notin shut /\ wrote[call] < MaxOut
    /\ script' = call
    /\ UNCHANGED <<at, active_cgis, post_body, pipe, wrote, shut, output>>

ScriptClosesStdout ==
    /\ script = "computing"
    /\ shut' = shut \union {"stdout"}
    /\ UNCHANGED <<at, active_cgis, post_body, pipe, script, wrote, output>>

ScriptReads ==
    /\ script = "read"
    /\ \/ /\ pipe.stdin > 0
          /\ pipe' = [pipe EXCEPT !.stdin = @ - 1]
          /\ UNCHANGED shut
       \/ /\ pipe.stdin = 0 /\ ~stdinOpen
          /\ shut' = shut \union {"stdin"}
          /\ UNCHANGED pipe
    /\ script' = "computing"
    /\ UNCHANGED <<at, active_cgis, post_body, wrote, output>>

ScriptWrites(p) ==
    /\ script = p /\ pipe[p] < PipeSize
    /\ pipe' = [pipe EXCEPT ![p] = @ + 1]
    /\ wrote' = [wrote EXCEPT ![p] = @ + 1]
    /\ script' = "computing"
    /\ UNCHANGED <<at, active_cgis, post_body, shut, output>>

ServerStep ==
    \/ NotFound \/ Rejected \/ SpawnFails
    \/ \E body \in 0..ReadBuf : Spawn(body)
    \/ WriteBody \/ CloseStdin \/ StdoutEnds \/ StderrEnds \/ Respond
    \/ \E p \in {"stdout", "stderr"} : ReadUnit(p)

ScriptStep ==
    \/ \E call \in {"read", "stdout", "stderr", "ended"} : Commit(call)
    \/ ScriptReads \/ ScriptClosesStdout
    \/ \E p \in {"stdout", "stderr"} : ScriptWrites(p)

CgiNext ==
    \/ Count \/ ServerStep \/ ScriptStep

CgiSpec == CgiInit /\ [][CgiNext]_cgiVars

(* The server runs, and the script is not stopped.                         *)
CgiFairness == WF_cgiVars(ServerStep) /\ WF_cgiVars(ScriptStep)

-----------------------------------------------------------------------------

(* Between two requests nothing is counted, whichever way the last one     *)
(* ended (dispatch_cgi, eventloop.rs:1554-1897), so the limit never        *)
(* refuses a request: there is at most one script at a time.               *)
CountReturns == at = "idle" => active_cgis = 0 /\ ~refused

(* The script waits to write to a full stderr, and the server for stdout   *)
(* or for the exit: neither goes on.                                       *)
jammed ==
    /\ script = "stderr" /\ pipe.stderr = PipeSize
    /\ \/ at = "stdout" /\ pipe.stdout = 0 /\ "stdout" \notin shut
       \/ at = "waiting"

(* If the script ends, every dispatch does, and the loop goes on, but for  *)
(* a full stderr that the server is not reading.  Neither the body, which  *)
(* fits into the pipe, nor stdin, which is always closed, nor the order of *)
(* reads and writes blocks the two for ever (execute_cgi, cgi.rs:149-161;  *)
(* dispatch_cgi, eventloop.rs:1846-1866).                                  *)
DispatchEnds == at # "idle" ~> at = "idle" \/ jammed
=============================================================================
