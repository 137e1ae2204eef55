-------------------------------- MODULE EventLoop --------------------------------
(***************************************************************************)
(* The server of thttpd-core (eventloop.rs, connection.rs) with its        *)
(* throttle table: one thread that polls, accepts, dispatches the events   *)
(* of a batch, resumes paused connections and updates the averages, in     *)
(* that order, while clients, signals and the clock act at any moment.     *)
(* One action is one handler, run to its end; `phase` is the place of the  *)
(* loop between two handlers.                                              *)
(*                                                                         *)
(* Data: input and output are counted in units, a request is its number of *)
(* header and body units, a response its number of header and body units.  *)
(* Time is counted in seconds.  The clients, the sockets and mio are       *)
(* external: poll is edge-triggered, and a (re)registration raises an      *)
(* event at once when the socket is ready for the new interest.            *)
(***************************************************************************)
EXTENDS Throttle

CONSTANTS
    Slots,          \* the slab keys: MAX_CONNECTIONS of them
    READ_BUF_SIZE,  \* capacity of a connection's read buffer
    Requests,       \* what clients may ask, see Request
    Page,           \* the response that carries an error page
    SendSpace,      \* capacity of a socket's send buffer
    Signals,        \* the signals that may be delivered
    MaxBacklog,     \* bound: connections waiting in the listen queue
    MaxInput,       \* bound: units a client sends
    MaxElapsed,     \* bound: seconds a transfer is timed; by then a share of
                    \* one unit per second has paid for the longest body
    MaxBytes        \* bound: bytes per averaging period; no client comes then

Response == [header : Nat, body : Nat]

(* A request is malformed, or names a file or a CGI script.  head and body *)
(* are the units it takes; script is the path the CGI resolves to.         *)
Request == [kind : {"bad", "static", "cgi"}, head : Nat \ {0}, body : Nat,
            file : Files, script : Files, response : Response]

noRequest == [kind |-> "none"]

ASSUME EventLoopConfig ==
    /\ IsFiniteSet(Slots)
    /\ READ_BUF_SIZE \in Nat \ {0}
    /\ Requests \subseteq Request
    /\ Page \in Response
    /\ "" \in Files
    /\ SendSpace \in Nat \ {0}
    /\ Signals \subseteq {"SIGUSR1", "SIGTERM"}
    /\ {MaxBacklog, MaxInput, MaxElapsed, MaxBytes} \subseteq Nat
    /\ \A q \in Requests : q.response.body <= MaxElapsed
    /\ Page.body <= MaxElapsed

None == -1

VARIABLES
    phase,          \* where the loop is
    todo,           \* the slots the current phase has still to handle
    draining,       \* SIGUSR1 was seen
    conn,           \* the slab: a ConnSlot per key, Free when vacant
    entry,          \* the throttle table
    due,            \* seconds until the averages are to be updated
    sock,           \* external: the socket of each slot, and its client
    backlog,        \* external: connections waiting to be accepted
    listen_ready,   \* external: an event is queued for the listener
    usr1            \* external: SIGUSR1 was delivered

vars == <<phase, todo, draining, conn, entry, due, sock, backlog,
          listen_ready, usr1>>

Conn == [state : {"Free", "Reading", "Sending", "Pausing", "Lingering"},
         read_idx : 0..READ_BUF_SIZE, pending_cgi_body : BOOLEAN,
         header_len : Nat, response_len : Nat, bytes_sent : Nat,
         tnums : SUBSET Rules, max_limit : Int, body_bytes : Nat,
         elapsed : Nat, pause : {None, 0, 1}]

Sock == [interest : {"none", "READABLE", "WRITABLE"}, ready : BOOLEAN,
         request : Requests \union {noRequest}, inbox : Nat,
         fin : BOOLEAN, gone : BOOLEAN, space : 0..SendSpace]

TypeOK ==
    /\ phase \in {"poll", "accept", "events", "resume", "exited", "terminated"}
    /\ todo \subseteq Slots
    /\ draining \in BOOLEAN
    /\ conn \in [Slots -> Conn]
    /\ entry \in [Rules -> Entry]
    /\ due \in 0..THROTTLE_TIME
    /\ sock \in [Slots -> Sock]
    /\ backlog \in Nat
    /\ listen_ready \in BOOLEAN
    /\ usr1 \in BOOLEAN

newSlot(state) ==
    [state |-> state, read_idx |-> 0, pending_cgi_body |-> FALSE,
     header_len |-> 0, response_len |-> 0, bytes_sent |-> 0,
     tnums |-> {}, max_limit |-> THROTTLE_NOLIMIT, body_bytes |-> 0,
     elapsed |-> 0, pause |-> None]

noSocket == [interest |-> "none", ready |-> FALSE, request |-> noRequest,
             inbox |-> 0, fin |-> FALSE, gone |-> FALSE, space |-> 0]

Init ==
    /\ phase = "poll" /\ todo = {} /\ draining = FALSE
    /\ conn = [c \in Slots |-> newSlot("Free")]
    /\ entry = [r \in Rules |-> newEntry]
    /\ due = THROTTLE_TIME
    /\ sock = [c \in Slots |-> noSocket]
    /\ backlog = 0 /\ listen_ready = FALSE /\ usr1 = FALSE

InUse == {c \in Slots : conn[c].state # "Free"}

Running == phase \notin {"exited", "terminated"}

-----------------------------------------------------------------------------
(* mio: interest and readiness of a socket.                                *)

readable(s) == s.inbox > 0 \/ s.fin \/ s.gone
writable(s) == s.space > 0 \/ s.gone

register(s, interest) ==
    [s EXCEPT !.interest = interest,
              !.ready = IF interest = "READABLE" THEN readable(s) ELSE writable(s)]

(* mio refuses to reregister a socket that is not registered, and the      *)
(* callers ignore the error.                                               *)
reregister(s, interest) == IF s.interest = "none" THEN s ELSE register(s, interest)

(* A slip: the socket stays registered for input.                          *)
answeredUnregistered(s) == [s EXCEPT !.request = noRequest]

(* The request is answered: what it was matters no more.                   *)
answered(s) == reregister([s EXCEPT !.request = noRequest], "WRITABLE")

(* A slip: the socket of a paused connection stays registered.             *)
deregisterOmitted(s) == s

deregister(s) == [s EXCEPT !.interest = "none", !.ready = FALSE]

-----------------------------------------------------------------------------
(* What the handlers share.                                                *)

(* A connection with a response to send and the rules it counts against.   *)
sending(k, response, tnums, max_limit) ==
    [k EXCEPT !.state = "Sending",
              !.header_len = response.header,
              !.response_len = response.header + response.body,
              !.bytes_sent = 0, !.body_bytes = 0, !.elapsed = 0,
              !.tnums = tnums, !.max_limit = max_limit]

(* transition_to_sending for a response that is subject to admission, or   *)
(* serve_static with its own check before the file is mapped: an over-limit *)
(* path is answered with an unthrottled 503 page.  k is the slot as the     *)
(* caller leaves it.                                                       *)
Reply(c, k, f, response) ==
    LET tnums == tnumsFor(f)
        begun == start(entry, tnums)
        over  == rejects(entry, f)
    IN  /\ entry' = IF over THEN entry ELSE begun
        /\ conn' = [conn EXCEPT ![c] =
                       IF over
                       THEN sending(k, Page, {}, THROTTLE_NOLIMIT)
                       ELSE sending(k, response, tnums, fair_share_for(begun, tnums))]

(* A slip: the rules are not released.                                     *)
close_connectionKeepsRules(c) ==
    /\ entry' = entry
    /\ conn' = [conn EXCEPT ![c] = newSlot("Free")]
    /\ sock' = [sock EXCEPT ![c] = noSocket]

close_connection(c) ==
    /\ entry' = clear(entry, conn[c].tnums)
    /\ conn' = [conn EXCEPT ![c] = newSlot("Free")]
    /\ sock' = [sock EXCEPT ![c] = noSocket]

-----------------------------------------------------------------------------
(* The request handlers.                                                   *)

(* The request line, the URL or the path is refused before a file name is  *)
(* known.                                                                  *)
bad_request(c, k) == Reply(c, k, "", Page)

(* The path leaves the tree, does not exist, needs authorization or may    *)
(* not be read: an error page.                                             *)
staticRefused(c, k, q) == Reply(c, k, q.file, Page)

(* The file, a range of it, its headers alone, "not modified", or the      *)
(* listing of a directory.                                                 *)
staticSent(c, k, q) == Reply(c, k, q.file, q.response)

serve_static(c, k, q) == staticRefused(c, k, q) \/ staticSent(c, k, q)

(* No script is run: it is missing, its rules are over their limit, or too *)
(* many are running.  The last never happens: a script runs to its end     *)
(* inside the handler, so active_cgis is back to 0 when dispatch_cgi       *)
(* returns.  The page is itself subject to admission.                      *)
cgiRefused(c, k, q) == Reply(c, k, q.file, Page)

(* The output is charged CGI_BYTECOUNT and sent unthrottled.               *)
cgiDone(c, k, q) ==
    LET tnums == tnumsFor(q.script)
    IN  /\ ~rejects(entry, q.script)
        /\ entry' = clear(add_bytes(start(entry, tnums), tnums, CGI_BYTECOUNT), tnums)
        /\ conn' = [conn EXCEPT ![c] = sending(k, q.response, {}, THROTTLE_NOLIMIT)]

(* The script could not be started: an unthrottled page.                   *)
cgiFailed(c, k, q) ==
    LET tnums == tnumsFor(q.script)
    IN  /\ ~rejects(entry, q.script)
        /\ entry' = clear(start(entry, tnums), tnums)
        /\ conn' = [conn EXCEPT ![c] = sending(k, Page, {}, THROTTLE_NOLIMIT)]

dispatch_cgi(c, k, q) == cgiRefused(c, k, q) \/ cgiDone(c, k, q) \/ cgiFailed(c, k, q)

process_request(c, k, q) ==
    \/ q.kind = "bad" /\ bad_request(c, k)
    \/ q.kind = "static" /\ serve_static(c, k, q)
    \/ q.kind = "cgi" /\ dispatch_cgi(c, k, q)

(* What handle_read does with idx units in the buffer: wait for the rest   *)
(* of the head or of a CGI body, or answer.                                *)
Answer(c, q, idx) ==
    LET taken == [sock[c] EXCEPT !.inbox = @ - (idx - conn[c].read_idx)]
        arrived == idx >= q.head
        complete == idx >= q.head + q.body
        pending == arrived /\ q.kind = "cgi" /\ ~complete
        k == [conn[c] EXCEPT !.read_idx = idx, !.pending_cgi_body = pending]
    IN  \/ /\ ~arrived \/ pending
           /\ conn' = [conn EXCEPT ![c] = k]
           /\ sock' = [sock EXCEPT ![c] = taken]
           /\ UNCHANGED entry
        \/ /\ arrived /\ ~pending
           /\ process_request(c, k, q)
           /\ sock' = [sock EXCEPT ![c] = answered(taken)]

room(k) == READ_BUF_SIZE - k.read_idx

(* What one read call takes; slip: a unit at a time.                       *)
receivedPiecemeal(k, s) == Min({room(k), 1})

received(k, s) == Min({room(k), s.inbox})

(* One read per event: a full buffer is refused, end of file and errors    *)
(* close, nothing to read waits.                                           *)
handle_read(c) ==
    LET k == conn[c]
        s == sock[c]
    IN  \/ /\ room(k) = 0
           /\ Reply(c, k, IF k.pending_cgi_body THEN s.request.file ELSE "", Page)
           /\ sock' = [sock EXCEPT ![c] = answered(@)]
        \/ /\ room(k) > 0
           /\ s.gone \/ (s.inbox = 0 /\ s.fin)
           /\ close_connection(c)
        \/ /\ room(k) > 0 /\ ~readable(s)
           /\ UNCHANGED <<conn, sock, entry>>
        \/ /\ room(k) > 0 /\ ~s.gone /\ s.inbox > 0
           /\ Answer(c, s.request, k.read_idx + received(k, s))

-----------------------------------------------------------------------------
(* Sending.                                                                *)

(* A slip: what was sent before the pause is forgotten.                    *)
write_limitForgets(k) ==
    IF k.tnums # {} /\ k.max_limit > 0
    THEN Max({k.header_len - k.bytes_sent, 0}) + k.max_limit * Max({k.elapsed, 1})
    ELSE k.response_len - k.bytes_sent

(* Header bytes are free; body bytes count against max_limit per second.   *)
(* A share of 0 is treated as no limit.                                    *)
write_limit(k) ==
    IF k.tnums # {} /\ k.max_limit > 0
    THEN Max({k.header_len - k.bytes_sent, 0})
           + Max({k.max_limit * Max({k.elapsed, 1}) - k.body_bytes, 0})
    ELSE k.response_len - k.bytes_sent

(* Body units among the first n of the response.                           *)
body_of(k, n) == Max({n - k.header_len, 0})

(* n units were written: account for them, and linger or go on.            *)
Written(c, k, s, n) ==
    LET after == k.bytes_sent + n
        delta == IF k.tnums = {} THEN 0 ELSE body_of(k, after) - body_of(k, k.bytes_sent)
        done  == after >= k.response_len
    IN  /\ entry' = add_bytes(entry, k.tnums, delta)
        /\ conn' = [conn EXCEPT ![c] =
               [k EXCEPT !.bytes_sent = after, !.body_bytes = @ + delta,
                         !.state = IF done THEN "Lingering" ELSE "Sending"]]
        /\ sock' = [sock EXCEPT ![c] =
               reregister([s EXCEPT !.space = @ - n],
                          IF done THEN "READABLE" ELSE "WRITABLE")]

(* k and s are the slot and the socket as the caller leaves them.          *)
handle_send(c, k, s) ==
    LET left == k.response_len - k.bytes_sent
        limit == write_limit(k)
    IN  \/ /\ left = 0
           /\ Written(c, k, s, 0)
        \/ /\ left > 0 /\ limit = 0
           /\ conn' = [conn EXCEPT ![c] = [k EXCEPT !.state = "Pausing", !.pause = 1]]
           /\ sock' = [sock EXCEPT ![c] = deregister(s)]
           /\ UNCHANGED entry
        \/ /\ left > 0 /\ limit > 0 /\ s.gone
           /\ close_connection(c)
        \/ /\ left > 0 /\ limit > 0 /\ ~writable(s)
           /\ conn' = [conn EXCEPT ![c] = k]
           /\ sock' = [sock EXCEPT ![c] = s]
           /\ UNCHANGED entry
        \/ /\ left > 0 /\ limit > 0 /\ ~s.gone /\ s.space > 0
           /\ Written(c, k, s, Min({limit, left, s.space}))

(* The slot a pause ends with: sending again, with its share recomputed.   *)
woken(k) == [k EXCEPT !.state = "Sending", !.pause = None,
                      !.max_limit = fair_share_for(entry, k.tnums)]

(* A slip: the socket is not registered again after the pause.             *)
handle_pauseUnregistered(c) == handle_send(c, woken(conn[c]), sock[c])

handle_pause(c) == handle_send(c, woken(conn[c]), register(sock[c], "WRITABLE"))

(* Whatever the read gives, the connection is closed.                      *)
handle_linger(c) == close_connection(c)

-----------------------------------------------------------------------------
(* The loop.                                                               *)

pausesOver == {c \in Slots : conn[c].state = "Pausing" /\ conn[c].pause = 0}

queued == {c \in Slots : sock[c].ready}

(* The poll timeout has expired: a pause or the averages are due, or there *)
(* is no deadline at all and the 60 seconds are over.                      *)
timedOut ==
    \/ pausesOver # {}
    \/ Rules # {} /\ due = 0
    \/ Rules = {} /\ \A c \in Slots : conn[c].state # "Pausing"

(* The top of the loop: SIGUSR1 starts a drain and deregisters the         *)
(* listeners; with nothing in the slab the loop ends.                      *)
StartDrain ==
    /\ phase = "poll" /\ usr1 /\ ~draining
    /\ draining' = TRUE
    /\ listen_ready' = FALSE
    /\ phase' = IF InUse = {} THEN "exited" ELSE "poll"
    /\ UNCHANGED <<todo, conn, entry, due, sock, backlog, usr1>>

(* Poll returns a batch: the queued events, which it takes off the queue.  *)
Poll ==
    /\ phase = "poll"
    /\ usr1 => draining
    /\ queued # {} \/ listen_ready \/ timedOut
    /\ todo' = queued
    /\ sock' = [c \in Slots |-> [sock[c] EXCEPT !.ready = FALSE]]
    /\ listen_ready' = FALSE
    /\ phase' = IF listen_ready THEN "accept" ELSE "events"
    /\ UNCHANGED <<draining, conn, entry, due, backlog, usr1>>

(* SIGTERM or SIGINT: the process and its memory are gone.                 *)
Terminate ==
    /\ phase = "poll" /\ "SIGTERM" \in Signals
    /\ phase' = "terminated"
    /\ todo' = {}
    /\ conn' = [c \in Slots |-> newSlot("Free")]
    /\ sock' = [c \in Slots |-> noSocket]
    /\ entry' = [r \in Rules |-> newEntry]
    /\ due' = THROTTLE_TIME
    /\ backlog' = 0 /\ listen_ready' = FALSE /\ usr1' = FALSE /\ draining' = FALSE

(* handle_accept: a turn of its loop takes a connection into a free slot,  *)
(* drops it (slab full, or registration failed), or ends the loop because  *)
(* nothing is waiting or accept fails.                                     *)
Accept(c) ==
    /\ phase = "accept" /\ ~draining /\ backlog > 0
    /\ c \notin InUse
    /\ backlog' = backlog - 1
    /\ conn' = [conn EXCEPT ![c] = newSlot("Reading")]
    /\ \E q \in Requests :
          sock' = [sock EXCEPT ![c] =
              register([noSocket EXCEPT !.request = q, !.space = SendSpace], "READABLE")]
    /\ UNCHANGED <<phase, todo, draining, entry, due, listen_ready, usr1>>

AcceptDrop ==
    /\ phase = "accept" /\ ~draining /\ backlog > 0
    /\ backlog' = backlog - 1
    /\ UNCHANGED <<phase, todo, draining, conn, entry, due, sock, listen_ready, usr1>>

AcceptDone ==
    /\ phase = "accept" /\ (draining \/ backlog = 0)
    /\ phase' = "events"
    /\ UNCHANGED <<todo, draining, conn, entry, due, sock, backlog, listen_ready, usr1>>

AcceptError ==
    /\ phase = "accept" /\ ~draining /\ backlog > 0
    /\ phase' = "events"
    /\ UNCHANGED <<todo, draining, conn, entry, due, sock, backlog, listen_ready, usr1>>

(* handle_connection_event.  NoStaleEvent: no event of a batch meets a     *)
(* vacant or a paused slot, whose cases are therefore left out.            *)
Dispatch(c) ==
    /\ phase = "events" /\ c \in todo
    /\ \/ conn[c].state = "Reading" /\ handle_read(c)
       \/ conn[c].state = "Sending" /\ handle_send(c, conn[c], sock[c])
       \/ conn[c].state = "Lingering" /\ handle_linger(c)
    /\ todo' = todo \ {c}
    /\ UNCHANGED <<phase, draining, due, backlog, listen_ready, usr1>>

(* resume_ready_paused_connections collects the pauses that are over ...   *)
EventsDone ==
    /\ phase = "events" /\ todo = {}
    /\ phase' = "resume"
    /\ todo' = pausesOver
    /\ UNCHANGED <<draining, conn, entry, due, sock, backlog, listen_ready, usr1>>

(* ... and resumes them one by one.                                        *)
Resume(c) ==
    /\ phase = "resume" /\ c \in todo
    /\ handle_pause(c)
    /\ todo' = todo \ {c}
    /\ UNCHANGED <<phase, draining, due, backlog, listen_ready, usr1>>

(* The rest of an iteration: when due, new averages and the pauses that    *)
(* ended meanwhile; then the end of a drain.                               *)
Update ==
    /\ phase = "resume" /\ todo = {}
    /\ IF due = 0
       THEN /\ entry' = update_averages(entry)
            /\ due' = THROTTLE_TIME
            /\ conn' = [c \in Slots |-> IF c \in pausesOver THEN woken(conn[c]) ELSE conn[c]]
            /\ sock' = [c \in Slots |-> IF c \in pausesOver THEN register(sock[c], "WRITABLE")
                                                            ELSE sock[c]]
       ELSE UNCHANGED <<entry, due, conn, sock>>
    /\ phase' = IF draining /\ InUse = {} THEN "exited" ELSE "poll"
    /\ UNCHANGED <<todo, draining, backlog, listen_ready, usr1>>

-----------------------------------------------------------------------------
(* External: clients, the kernel, the signals and the clock.               *)

Connect ==
    /\ Running /\ backlog < MaxBacklog
    /\ \A r \in Rules : entry[r].bytes_since_avg < MaxBytes
    /\ backlog' = backlog + 1
    /\ listen_ready' = ~draining
    /\ UNCHANGED <<phase, todo, draining, conn, entry, due, sock, usr1>>

(* What a client does to a slot's socket; an edge the server is registered *)
(* for queues an event.                                                    *)
Client(c, s, event) ==
    /\ Running /\ c \in InUse /\ ~sock[c].gone
    /\ sock' = [sock EXCEPT ![c] = [s EXCEPT !.ready = @ \/ event]]
    /\ UNCHANGED <<phase, todo, draining, conn, entry, due, backlog, listen_ready, usr1>>

ClientSend(c) ==
    LET s == sock[c]
    IN  \E n \in 1..(MaxInput - conn[c].read_idx - s.inbox) :
           /\ ~s.fin
           /\ Client(c, [s EXCEPT !.inbox = @ + n], s.interest = "READABLE")

ClientShut(c) ==
    LET s == sock[c]
    IN  ~s.fin /\ Client(c, [s EXCEPT !.fin = TRUE], s.interest = "READABLE")

(* A reset discards what is under way in both directions.                  *)
ClientGone(c) ==
    LET s == sock[c]
    IN  Client(c, [s EXCEPT !.gone = TRUE, !.inbox = 0, !.fin = FALSE, !.space = 0],
               s.interest # "none")

(* The client takes what was sent: a full send buffer becomes writable.    *)
ClientRead(c) ==
    LET s == sock[c]
    IN  /\ s.space < SendSpace
        /\ Client(c, [s EXCEPT !.space = SendSpace],
                  s.space = 0 /\ s.interest = "WRITABLE")

Usr1 ==
    /\ Running /\ ~usr1 /\ "SIGUSR1" \in Signals
    /\ usr1' = TRUE
    /\ UNCHANGED <<phase, todo, draining, conn, entry, due, sock, backlog, listen_ready>>

(* A second passes; without rules nothing depends on it.                   *)
Tick ==
    /\ Running /\ Rules # {}
    /\ due' = Max({due - 1, 0})
    /\ conn' = [c \in Slots |->
           IF conn[c].state \in {"Sending", "Pausing"} /\ conn[c].tnums # {}
           THEN [conn[c] EXCEPT !.elapsed = Min({@ + 1, MaxElapsed}),
                                !.pause = IF @ = 1 THEN 0 ELSE @]
           ELSE conn[c]]
    /\ UNCHANGED <<phase, todo, draining, entry, sock, backlog, listen_ready, usr1>>

-----------------------------------------------------------------------------

Loop ==
    \/ StartDrain \/ Poll \/ AcceptDrop \/ AcceptDone \/ AcceptError
    \/ EventsDone \/ Update
    \/ \E c \in Slots : Accept(c) \/ Dispatch(c) \/ Resume(c)

World ==
    \/ Connect \/ Usr1 \/ Tick \/ Terminate
    \/ \E c \in Slots : \/ ClientSend(c) \/ ClientShut(c)
                        \/ ClientGone(c) \/ ClientRead(c)

Next == Loop \/ World

Spec == Init /\ [][Next]_vars

(* The thread goes on as long as it has something to do, and time passes.  *)
FairSpec == Spec /\ WF_vars(Loop) /\ WF_vars(Tick)

-----------------------------------------------------------------------------
(* Properties.                                                             *)

(* The throttle table counts exactly the connections that hold each rule,  *)
(* on every path a request can take: served, refused with a page, CGI run  *)
(* or failed, paused, reset by the client, lingering or closed.            *)
SendersBalance ==
    \A r \in Rules :
        entry[r].num_sending = Cardinality({c \in Slots : r \in conn[c].tnums})

(* What a slot waits for is what the poll is asked for: input while        *)
(* reading and lingering, room while sending, and while paused nothing but *)
(* a deadline that the poll timeout is computed from.                      *)
InterestMatchesState ==
    \A c \in Slots :
        LET st == conn[c].state
            interest == sock[c].interest
        IN  /\ st \in {"Reading", "Lingering"} <=> interest = "READABLE"
            /\ st = "Sending" <=> interest = "WRITABLE"
            /\ st = "Pausing" <=> conn[c].pause # None

(* An event of a batch always meets the connection it was queued for, in a *)
(* state that handles it: handlers run before it neither vacate the slot   *)
(* nor pause it (handle_connection_event needs neither case).              *)
NoStaleEvent ==
    /\ phase \in {"accept", "events"} =>
          \A c \in todo : conn[c].state \in {"Reading", "Sending", "Lingering"}
    /\ phase = "resume" => \A c \in todo : conn[c].state = "Pausing"

(* Under edge-triggered polling no wakeup is lost: a connection that can   *)
(* write, can finish lingering, or has input and room for it, has an event *)
(* queued or in the batch.                                                 *)
NoLostWakeup ==
    \A c \in InUse :
        LET s == sock[c]
            waiting == s.ready \/ (phase \in {"accept", "events"} /\ c \in todo)
        IN  /\ conn[c].state = "Sending" /\ writable(s) => waiting
            /\ conn[c].state = "Lingering" /\ readable(s) => waiting
            /\ conn[c].state = "Reading" /\ conn[c].read_idx < READ_BUF_SIZE
                 /\ (s.inbox > 0 \/ s.gone) => waiting

(* A connection never got more body bytes than each of its rules allows    *)
(* for the seconds since it started.                                       *)
BodyWithinRule ==
    \A c \in Slots : \A r \in conn[c].tnums :
        conn[c].body_bytes <= MaxLimit[r] * Max({conn[c].elapsed, 1})

(* Clients do not connect so fast that an accept loop never ends.          *)
AcceptLoopsEnd == []<>(phase # "accept")

(* A transfer, throttled or not, ends: when its client keeps taking what   *)
(* is sent (or leaves) and every accept loop comes to an end, a sending or *)
(* paused connection (handle_send, handle_pause) lingers or is closed.     *)
TransfersEnd ==
    \A c \in Slots :
        LET transferring == conn[c].state \in {"Sending", "Pausing"}
        IN  /\ []<>(~transferring \/ writable(sock[c]))
            /\ AcceptLoopsEnd
            => (transferring ~> ~transferring)

=============================================================================
