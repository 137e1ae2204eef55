-------------------------- MODULE EventLoopPollProofs --------------------------
(***************************************************************************)
(* What the event loop asks the poll for, and what it writes, for any      *)
(* number of slots, rules and requests: the poll is asked for what each    *)
(* slot waits for, no event is lost or stale, and no connection gets more  *)
(* than its rules allow.  It rests on what a handler does to a slot and    *)
(* its socket alone, the lemmas of EventLoopProofs.                        *)
(***************************************************************************)
EXTENDS EventLoopProofs

(* Every rule allows each slot a byte per second.                          *)
Generous == \A r \in Rules : MaxLimit[r] >= Cardinality(Slots)

(* The limit of a slot with the rules T: within each of them and, where    *)
(* the rules are generous, not 0.                                          *)
Paced(T, limit) ==
    /\ T \in SUBSET Rules /\ limit \in Int
    /\ \A r \in T : limit <= MaxLimit[r]
    /\ T # {} /\ Generous => limit >= 1

(* The share of a rule among the slots that hold it is such a limit.       *)
LEMMA ShareIsPaced ==
    ASSUME NEW e, Table(e), NEW T \in SUBSET Rules, Slots # {},
           \A r \in T : e[r].num_sending <= Cardinality(Slots)
    PROVE  Paced(T, fair_share_for(e, T))
<1> DEFINE limit == fair_share_for(e, T)
<1>1. limit \in Int /\ \A r \in T : limit <= MaxLimit[r]
  BY Share
<1>2. ASSUME T # {}, Generous PROVE limit >= 1
  <2>1. PICK q \in T : limit = MaxLimit[q] \div Max({e[q].num_sending, 1})
    BY <1>2, Share
  <2>2. MaxLimit[q] \in Nat /\ e[q].num_sending \in Int /\ Cardinality(Slots) \in Nat \ {0}
    BY ThrottleConfig, EventLoopConfig, FS_CardinalityType, FS_EmptySet DEF Table, IsEntry
  <2>3. PICK m \in Nat \ {0} : Max({e[q].num_sending, 1}) = m /\ m <= Cardinality(Slots)
    BY <2>2, MinMax
  <2>4. m <= MaxLimit[q]
    BY <1>2, <2>2, <2>3 DEF Generous
  <2>5. \A x \in Nat, y \in Nat \ {0} : y <= x => x \div y >= 1
    OBVIOUS
  <2> QED BY <2>1, <2>2, <2>3, <2>4, <2>5
<1> QED BY <1>1, <1>2 DEF Paced

LEMMA HoldersFit ==
    ASSUME BalanceInv, NEW c \in Slots, NEW r \in Rules
    PROVE  /\ entry[r].num_sending <= Cardinality(Slots)
           /\ r \notin conn[c].tnums => entry[r].num_sending + 1 <= Cardinality(Slots)
<1>1. entry[r].num_sending = Cardinality(Holders(r)) /\ IsFiniteSet(Slots)
  BY EventLoopConfig DEF BalanceInv, SendersBalance, Holders
<1>2. /\ Cardinality(Holders(r)) \in Nat /\ Cardinality(Slots) \in Nat
      /\ Cardinality(Holders(r)) <= Cardinality(Slots)
  BY <1>1, FS_Subset, FS_CardinalityType DEF Holders
<1>3. ASSUME r \notin conn[c].tnums PROVE Cardinality(Holders(r)) + 1 <= Cardinality(Slots)
  <2>1. Holders(r) \subseteq Slots \ {c}
    BY <1>3 DEF Holders
  <2>2. IsFiniteSet(Slots \ {c}) /\ Cardinality(Slots \ {c}) = Cardinality(Slots) - 1
    BY <1>1, FS_RemoveElement
  <2>3. Cardinality(Holders(r)) <= Cardinality(Slots \ {c})
    BY <2>1, <2>2, FS_Subset
  <2> QED BY <1>2, <2>2, <2>3
<1> QED BY <1>1, <1>2, <1>3

(* The slot is given a response, with rules and a share of them.           *)
Replies(c, k) ==
    \E response \in Response : \E T \in SUBSET Rules : \E limit \in Int :
        Paced(T, limit) /\ conn' = [conn EXCEPT ![c] = sending(k, response, T, limit)]

(* So is no limit, where there is no rule; and every reply sets one of the *)
(* two.                                                                    *)
LEMMA UnthrottledIsPaced == Paced({}, THROTTLE_NOLIMIT) /\ THROTTLE_NOLIMIT \in Int
  BY DEF Paced, THROTTLE_NOLIMIT

LEMMA ReplyReplies ==
    ASSUME BalanceInv, NEW c \in Slots, conn[c].tnums = {}, NEW k, NEW f,
           NEW response \in Response, Reply(c, k, f, response)
    PROVE  Replies(c, k)
<1> DEFINE T == tnumsFor(f)
           e == start(entry, T)
           share == fair_share_for(e, T)
<1>1. T \in SUBSET Rules
  BY DEF tnumsFor
<1>2. conn' = [conn EXCEPT ![c] = IF rejects(entry, f) THEN sending(k, Page, {}, THROTTLE_NOLIMIT)
                                                       ELSE sending(k, response, T, share)]
  BY DEF Reply
<1> HIDE DEF T
<1>3. Table(entry) /\ \A r \in Rules : entry[r].num_sending \in Nat
  BY CountsAreNat DEF BalanceInv, Shape
<1>4. Table(e) /\ \A r \in T : e[r].num_sending = entry[r].num_sending + 1
  BY <1>1, <1>3, StartOp
<1> HIDE DEF e
<1>5. \A r \in T : e[r].num_sending <= Cardinality(Slots)
  BY <1>1, <1>4, HoldersFit
<1>6. Paced(T, share) /\ share \in Int
  BY <1>1, <1>4, <1>5, ShareIsPaced DEF Paced
<1> HIDE DEF share
<1>7. CASE rejects(entry, f)
  <2>1. conn' = [conn EXCEPT ![c] = sending(k, Page, {}, THROTTLE_NOLIMIT)]
    BY <1>2, <1>7
  <2>2. Page \in Response /\ {} \in SUBSET Rules
    BY EventLoopConfig
  <2> QED BY <2>1, <2>2, UnthrottledIsPaced DEF Replies
<1>8. CASE ~rejects(entry, f)
  <2>1. conn' = [conn EXCEPT ![c] = sending(k, response, T, share)]
    BY <1>2, <1>8
  <2> QED BY <1>1, <1>6, <2>1 DEF Replies
<1> QED BY <1>7, <1>8

LEMMA RequestReplies ==
    ASSUME BalanceInv, NEW c \in Slots, conn[c].tnums = {}, NEW k, NEW q \in Requests,
           process_request(c, k, q)
    PROVE  Replies(c, k)
<1>1. q.response \in Response /\ Page \in Response
  BY EventLoopConfig DEF Request
<1>2. CASE \E f : \E response \in Response : Reply(c, k, f, response)
  BY <1>2, ReplyReplies
<1>3. CASE \E response \in Response :
             conn' = [conn EXCEPT ![c] = sending(k, response, {}, THROTTLE_NOLIMIT)]
  <2>1. {} \in SUBSET Rules
    OBVIOUS
  <2> QED BY <1>3, <2>1, UnthrottledIsPaced DEF Replies
<1>4. CASE dispatch_cgi(c, k, q)
  BY <1>1, <1>2, <1>3, <1>4 DEF dispatch_cgi, cgiRefused, cgiDone, cgiFailed
<1> QED BY <1>1, <1>2, <1>4
           DEF process_request, bad_request, serve_static, staticRefused, staticSent

(* An answered slot sends, and is called when it can.                      *)
LEMMA ReplySettles ==
    ASSUME Frame, NEW c \in Slots, NEW k, SlotTyped(k), k.pause = None, Replies(c, k),
           NEW s, SockTyped(s), s.interest = "READABLE", sock' = [sock EXCEPT ![c] = answered(s)]
    PROVE  Alone(c) /\ Settled(c)
<1>1. PICK response \in Response, T \in SUBSET Rules, limit \in Int :
          conn' = [conn EXCEPT ![c] = sending(k, response, T, limit)]
  BY DEF Replies
<1> DEFINE w == sending(k, response, T, limit)
           t == [s EXCEPT !.request = noRequest]
<1>2. SlotTyped(w) /\ w.pause = None /\ w.state = "Sending"
  BY SendingTyped, SendingSlot, SMTT(30) DEF SlotTyped
<1>3. SockTyped(t) /\ t.interest = "READABLE"
  <2>1. IsSock(t)
    BY DEF SockTyped, IsSock
  <2>2. /\ t.interest = s.interest /\ t.ready = s.ready /\ t.inbox = s.inbox
        /\ t.space = s.space /\ t.gone = s.gone /\ t.fin = s.fin
    BY DEF SockTyped, IsSock, SockFields
  <2> HIDE DEF t
  <2> QED BY <2>1, <2>2 DEF SockTyped
<1> DEFINE u == register(t, "WRITABLE")
<1>4. sock' = [sock EXCEPT ![c] = u]
  BY <1>3 DEF answered, reregister
<1> HIDE DEF w, t
<1>5. /\ SockTyped(u) /\ u.interest = "WRITABLE" /\ (u.ready <=> writable(t))
      /\ u.gone = t.gone /\ u.space = t.space
  BY <1>3, RegisterSock, Names, SMTT(30)
<1> HIDE DEF u
<1>6. Alone(c) /\ conn'[c] = w /\ sock'[c] = u
  BY <1>1, <1>4, Replaced DEF w
<1>7. Settled(c)
  BY <1>2, <1>5, <1>6 DEF Settled, Sane, Fits, writable
<1> QED BY <1>6, <1>7

(* A read leaves the slot reading, closed, or with a response.             *)
LEMMA ReadSettles ==
    ASSUME WakeInv, NEW c \in Slots, conn[c].state = "Reading", handle_read(c)
    PROVE  /\ Alone(c) /\ Settled(c)
           /\ \/ conn'[c].tnums = {}
              \/ \E k : SlotTyped(k) /\ Replies(c, k)
<1>1. /\ BalanceInv /\ Frame /\ SlotTyped(conn[c]) /\ SockTyped(sock[c])
      /\ Fits(conn[c], sock[c], Batched(c), Resuming(c)) /\ sock[c].request \in Requests
      /\ conn[c].tnums = {}
  BY DEF WakeInv, Sane, BalanceInv, Shape
<1>2. conn[c].pause = None /\ sock[c].interest = "READABLE"
  BY <1>1 DEF Fits
<1>3. CASE /\ \E f : Reply(c, conn[c], f, Page)
           /\ sock' = [sock EXCEPT ![c] = answered(@)]
  <2>1. Replies(c, conn[c])
    BY <1>1, <1>3, ReplyReplies, EventLoopConfig
  <2>2. sock' = [sock EXCEPT ![c] = answered(sock[c])]
    BY <1>3
  <2> QED BY <1>1, <1>2, <2>1, <2>2, ReplySettles
<1>4. CASE close_connection(c)
  BY <1>1, <1>4, Closes, NewSlot
<1>5. CASE ~readable(sock[c]) /\ UNCHANGED <<conn, sock, entry>>
  <2>1. Alone(c)
    BY <1>1, <1>5 DEF Frame, Alone
  <2>2. Settled(c)
    BY <1>1, <1>5 DEF Settled, Sane, Fits, readable, SockTyped
  <2> QED BY <1>1, <1>5, <2>1, <2>2
<1>6. CASE /\ room(conn[c]) > 0 /\ ~sock[c].gone /\ sock[c].inbox > 0
           /\ Answer(c, sock[c].request, conn[c].read_idx + received(conn[c], sock[c]))
  <2> DEFINE got == received(conn[c], sock[c])
             idx == conn[c].read_idx + got
             rest == sock[c].inbox - (idx - conn[c].read_idx)
             t == [sock[c] EXCEPT !.inbox = rest]
             q == sock[c].request
             pending == idx >= q.head /\ q.kind = "cgi" /\ ~(idx >= q.head + q.body)
             k == [conn[c] EXCEPT !.read_idx = idx, !.pending_cgi_body = pending]
  <2>1. /\ idx \in 0..READ_BUF_SIZE /\ rest \in Nat
        /\ idx < READ_BUF_SIZE => rest = 0
    <3>1. /\ conn[c].read_idx \in Nat /\ conn[c].read_idx <= READ_BUF_SIZE
          /\ READ_BUF_SIZE \in Nat /\ sock[c].inbox \in Nat
      BY <1>1, Bounds, SMTT(30) DEF SlotTyped, SockTyped
    <3>2. got = IF room(conn[c]) <= sock[c].inbox THEN room(conn[c]) ELSE sock[c].inbox
      <4> DEFINE x == room(conn[c])
                 y == sock[c].inbox
      <4>1. x \in Int /\ y \in Int /\ got = Min({x, y})
        BY <3>1 DEF received, room
      <4> HIDE DEF x, y, got
      <4>2. got = IF x <= y THEN x ELSE y
        BY <4>1, MinMax
      <4> QED BY <4>2 DEF x, y
    <3> HIDE DEF got
    <3> QED BY <1>6, <3>1, <3>2, SMTT(30) DEF room
  <2>2. \/ /\ conn' = [conn EXCEPT ![c] = k]
           /\ sock' = [sock EXCEPT ![c] = t]
        \/ /\ process_request(c, k, q)
           /\ sock' = [sock EXCEPT ![c] = answered(t)]
    BY <1>6 DEF Answer
  <2> HIDE DEF idx, rest, pending
  <2>3. SlotTyped(k) /\ k.state = "Reading" /\ k.pause = None /\ k.read_idx = idx /\ k.tnums = {}
    <3>1. IsSlot(k)
      BY <1>1 DEF SlotTyped, IsSlot
    <3>2. /\ k.state = "Reading" /\ k.pause = None /\ k.read_idx = idx /\ k.tnums = {}
          /\ k.header_len = conn[c].header_len /\ k.response_len = conn[c].response_len
          /\ k.bytes_sent = conn[c].bytes_sent /\ k.max_limit = conn[c].max_limit
          /\ k.body_bytes = conn[c].body_bytes /\ k.elapsed = conn[c].elapsed
      BY <1>1, <1>2 DEF SlotTyped, IsSlot, SlotFields
    <3> HIDE DEF k
    <3>3. SlotTyped(k)
      BY <1>1, <2>1, <3>1, <3>2, Names DEF SlotTyped
    <3> QED BY <3>2, <3>3
  <2>4. /\ SockTyped(t) /\ t.interest = "READABLE" /\ t.inbox = rest /\ t.gone = sock[c].gone
        /\ t.request = q /\ t.ready = sock[c].ready
    <3>1. IsSock(t)
      BY <1>1 DEF SockTyped, IsSock
    <3>2. /\ t.interest = "READABLE" /\ t.inbox = rest /\ t.gone = sock[c].gone
          /\ t.request = q /\ t.ready = sock[c].ready /\ t.fin = sock[c].fin /\ t.space = sock[c].space
      BY <1>1, <1>2 DEF SockTyped, IsSock, SockFields
    <3> HIDE DEF t, q
    <3>3. SockTyped(t)
      BY <1>1, <2>1, <3>1, <3>2, Names DEF SockTyped
    <3> QED BY <3>2, <3>3
  <2>5. q \in Requests
    BY <1>1
  <2> HIDE DEF k, t, q
  <2>6. CASE conn' = [conn EXCEPT ![c] = k] /\ sock' = [sock EXCEPT ![c] = t]
    <3>1. Alone(c) /\ conn'[c] = k /\ sock'[c] = t
      BY <1>1, <2>6, Replaced
    <3>2. Settled(c)
      BY <1>6, <2>1, <2>3, <2>4, <2>5, <3>1, SMTT(30) DEF Settled, Sane, Fits
    <3> QED BY <2>3, <3>1, <3>2
  <2>7. CASE process_request(c, k, q) /\ sock' = [sock EXCEPT ![c] = answered(t)]
    <3>1. Replies(c, k)
      BY <1>1, <2>5, <2>7, RequestReplies
    <3> QED BY <1>1, <2>3, <2>4, <2>7, <3>1, ReplySettles
  <2> QED BY <2>2, <2>6, <2>7
<1> QED BY <1>3, <1>4, <1>5, <1>6 DEF handle_read

(* What remains of the invariant beside the balance.                       *)
Awake == Frame /\ \A c \in Slots : /\ Sane(conn[c], sock[c])
                                   /\ Fits(conn[c], sock[c], Batched(c), Resuming(c))

(* The handler of slot c ran to its end.                                   *)
LEMMA HandlerDone ==
    ASSUME Awake, NEW c \in Slots, Alone(c), Settled(c), todo' = todo \ {c}, phase' = phase
    PROVE  Awake'
<1>1. Frame'
  BY DEF Awake, Frame, Alone
<1>2. ASSUME NEW d \in Slots \ {c}
      PROVE  Sane(conn'[d], sock'[d]) /\ Fits(conn'[d], sock'[d], Batched(d)', Resuming(d)')
  BY <1>2 DEF Awake, Alone, Fits, Batched, Resuming
<1>3. Sane(conn'[c], sock'[c]) /\ Fits(conn'[c], sock'[c], Batched(c)', Resuming(c)')
  BY DEF Settled, Fits, Batched, Resuming
<1> QED BY <1>1, <1>2, <1>3 DEF Awake

(* A slot whose pause is over sends again, with a new share.               *)
LEMMA WokenSlot ==
    ASSUME BalanceInv, NEW c \in Slots, SlotTyped(conn[c])
    PROVE  LET w == woken(conn[c])
           IN  /\ SlotTyped(w) /\ w.state = "Sending" /\ w.pause = None
               /\ w.tnums = conn[c].tnums /\ w.elapsed = conn[c].elapsed
               /\ w.body_bytes = conn[c].body_bytes /\ Paced(w.tnums, w.max_limit)
<1> DEFINE k == conn[c]
           share == fair_share_for(entry, k.tnums)
           w == [k EXCEPT !.state = "Sending", !.pause = None, !.max_limit = share]
<1>1. woken(conn[c]) = w
  BY DEF woken
<1>2. Table(entry) /\ k.tnums \in SUBSET Rules
  BY DEF BalanceInv, Shape
<1>3. Paced(k.tnums, share)
  BY <1>2, HoldersFit, ShareIsPaced
<1>4. share \in Int
  BY <1>3 DEF Paced
<1> HIDE DEF k, share
<1>5. SlotTyped(k)
  BY DEF k
<1>6. IsSlot(w)
  BY <1>5 DEF SlotTyped, IsSlot
<1>7. /\ w.state = "Sending" /\ w.pause = None /\ w.read_idx = k.read_idx
      /\ w.header_len = k.header_len /\ w.response_len = k.response_len
      /\ w.bytes_sent = k.bytes_sent /\ w.max_limit = share /\ w.tnums = k.tnums
      /\ w.body_bytes = k.body_bytes /\ w.elapsed = k.elapsed
  BY <1>5 DEF SlotTyped, IsSlot, SlotFields
<1> HIDE DEF w
<1>8. SlotTyped(w)
  BY <1>4, <1>5, <1>6, <1>7, Names DEF SlotTyped
<1> QED BY <1>1, <1>3, <1>7, <1>8 DEF k

(* A client's step leaves the slot alone, and raises an event if the       *)
(* server waits for what it did.                                           *)
LEMMA ClientWakes ==
    ASSUME Awake, NEW c \in Slots, NEW t, NEW event \in BOOLEAN, SockTyped(t), Client(c, t, event),
           t.interest = sock[c].interest, t.ready = sock[c].ready, t.request = sock[c].request,
           event => sock[c].interest # "none",
           sock[c].interest = "WRITABLE" /\ writable(t) => writable(sock[c]) \/ event,
           sock[c].interest = "READABLE" /\ (t.inbox > 0 \/ t.gone) => event \/ sock[c].inbox > 0 \/ sock[c].gone,
           sock[c].interest = "READABLE" /\ t.fin => event \/ sock[c].fin
    PROVE  Awake'
<1> DEFINE on == t.ready \/ event
           u == [t EXCEPT !.ready = on]
<1>1. sock' = [sock EXCEPT ![c] = u] /\ UNCHANGED <<phase, todo, conn>>
  BY DEF Client
<1>2. on \in BOOLEAN /\ (on <=> sock[c].ready \/ event)
  BY DEF SockTyped
<1> HIDE DEF on
<1>3. IsSock(u)
  BY DEF SockTyped, IsSock
<1>4. /\ u.interest = t.interest /\ u.ready = on /\ u.inbox = t.inbox /\ u.space = t.space
      /\ u.gone = t.gone /\ u.fin = t.fin /\ u.request = t.request
  BY DEF SockTyped, IsSock, SockFields
<1> HIDE DEF u
<1>5. SockTyped(u)
  BY <1>2, <1>3, <1>4 DEF SockTyped
<1>6. /\ sock'[c] = u /\ sock' = [d \in Slots |-> sock'[d]]
      /\ \A d \in Slots \ {c} : sock'[d] = sock[d]
  BY <1>1 DEF Awake, Frame
<1>7. Frame'
  BY <1>1, <1>6 DEF Awake, Frame
<1>8. ASSUME NEW d \in Slots \ {c}
      PROVE  Sane(conn'[d], sock'[d]) /\ Fits(conn'[d], sock'[d], Batched(d)', Resuming(d)')
  BY <1>1, <1>6 DEF Awake, Batched, Resuming
<1>9. Sane(conn[c], u)
  BY <1>4, <1>5 DEF Awake, Sane
<1>10. Fits(conn[c], u, Batched(c), Resuming(c))
  <2>1. Fits(conn[c], sock[c], Batched(c), Resuming(c))
    BY DEF Awake
  <2> QED BY <1>2, <1>4, <2>1 DEF Fits, readable, writable
<1>11. Sane(conn'[c], sock'[c]) /\ Fits(conn'[c], sock'[c], Batched(c)', Resuming(c)')
  BY <1>1, <1>6, <1>9, <1>10 DEF Batched, Resuming
<1> QED BY <1>7, <1>8, <1>11 DEF Awake

(* Every step of a client is such a step.                                  *)
LEMMA ClientsWake ==
    ASSUME Awake, NEW c \in Slots,
           ClientSend(c) \/ ClientShut(c) \/ ClientGone(c) \/ ClientRead(c)
    PROVE  Awake'
<1> DEFINE s == sock[c]
<1>1. SockTyped(s)
  BY DEF Awake, Sane
<1>2. CASE ClientSend(c)
  <2>1. PICK n \in 1..(MaxInput - conn[c].read_idx - s.inbox) :
           Client(c, [s EXCEPT !.inbox = @ + n], s.interest = "READABLE")
    BY <1>2 DEF ClientSend
  <2> DEFINE more == s.inbox + n
             t == [s EXCEPT !.inbox = more]
  <2>2. more \in Nat /\ Client(c, t, s.interest = "READABLE")
    BY <1>1, <2>1 DEF SockTyped
  <2> HIDE DEF more
  <2>3. IsSock(t)
    BY <1>1 DEF SockTyped, IsSock
  <2>4. /\ t.interest = s.interest /\ t.ready = s.ready /\ t.request = s.request
        /\ t.inbox = more /\ t.fin = s.fin /\ t.gone = s.gone /\ t.space = s.space
    BY <1>1 DEF SockTyped, IsSock, SockFields
  <2> HIDE DEF t
  <2>5. SockTyped(t)
    BY <1>1, <2>2, <2>3, <2>4 DEF SockTyped
  <2> DEFINE event == s.interest = "READABLE"
  <2>6. event \in BOOLEAN /\ Client(c, t, event)
    BY <2>2
  <2> QED BY <2>4, <2>5, <2>6, ClientWakes DEF writable
<1>3. CASE ClientShut(c)
  <2> DEFINE t == [s EXCEPT !.fin = TRUE]
             event == s.interest = "READABLE"
  <2>2. event \in BOOLEAN /\ Client(c, t, event)
    BY <1>3 DEF ClientShut
  <2>3. IsSock(t)
    BY <1>1 DEF SockTyped, IsSock
  <2>4. /\ t.interest = s.interest /\ t.ready = s.ready /\ t.request = s.request
        /\ t.inbox = s.inbox /\ t.fin = TRUE /\ t.gone = s.gone /\ t.space = s.space
    BY <1>1 DEF SockTyped, IsSock, SockFields
  <2> HIDE DEF t
  <2>5. SockTyped(t)
    BY <1>1, <2>3, <2>4 DEF SockTyped
  <2> QED BY <2>2, <2>4, <2>5, ClientWakes DEF writable
<1>4. CASE ClientGone(c)
  <2> DEFINE t == [s EXCEPT !.gone = TRUE, !.inbox = 0, !.fin = FALSE, !.space = 0]
             event == s.interest # "none"
  <2>2. event \in BOOLEAN /\ Client(c, t, event)
    BY <1>4 DEF ClientGone
  <2>3. IsSock(t)
    BY <1>1 DEF SockTyped, IsSock
  <2>4. /\ t.interest = s.interest /\ t.ready = s.ready /\ t.request = s.request
        /\ t.inbox = 0 /\ t.fin = FALSE /\ t.gone = TRUE /\ t.space = 0
    BY <1>1 DEF SockTyped, IsSock, SockFields
  <2> HIDE DEF t
  <2>5. SockTyped(t)
    <3>1. t.fin \in BOOLEAN /\ t.gone \in BOOLEAN
      BY <2>4
    <3>2. t.inbox \in Nat /\ t.space \in Nat /\ t.interest \in Interests /\ t.ready \in BOOLEAN
      BY <1>1, <2>4 DEF SockTyped
    <3> QED BY <2>3, <3>1, <3>2 DEF SockTyped
  <2> QED BY <2>2, <2>4, <2>5, ClientWakes
<1>5. CASE ClientRead(c)
  <2> DEFINE t == [s EXCEPT !.space = SendSpace]
             event == s.space = 0 /\ s.interest = "WRITABLE"
  <2>2. event \in BOOLEAN /\ Client(c, t, event)
    BY <1>5 DEF ClientRead
  <2>3. IsSock(t)
    BY <1>1 DEF SockTyped, IsSock
  <2>4. /\ t.interest = s.interest /\ t.ready = s.ready /\ t.request = s.request
        /\ t.inbox = s.inbox /\ t.fin = s.fin /\ t.gone = s.gone /\ t.space = SendSpace
    BY <1>1 DEF SockTyped, IsSock, SockFields
  <2> HIDE DEF t
  <2>5. SockTyped(t)
    <3>1. SendSpace \in Nat
      BY Bounds
    <3> QED BY <1>1, <2>3, <2>4, <3>1 DEF SockTyped
  <2>6. s.interest = "WRITABLE" /\ ~event => writable(s)
    BY <1>1 DEF SockTyped, writable
  <2> QED BY <2>2, <2>4, <2>5, <2>6, ClientWakes
<1> QED BY <1>2, <1>3, <1>4, <1>5

(* Every step of the loop and of the clients keeps the invariant.          *)
LEMMA AwakeStep ==
    ASSUME BalanceInv, Awake, [Next]_vars PROVE Awake'
<1>0. /\ Frame /\ WakeInv
      /\ \A c \in Slots : /\ SlotTyped(conn[c]) /\ SockTyped(sock[c]) /\ Sane(conn[c], sock[c])
                          /\ Fits(conn[c], sock[c], Batched(c), Resuming(c))
  BY DEF Awake, Sane, WakeInv
<1>1. ASSUME UNCHANGED <<conn, sock>>, todo' \subseteq Slots,
             \A c \in Slots : (Batched(c)' <=> Batched(c)) /\ (Resuming(c)' => Resuming(c))
      PROVE  Awake'
  BY <1>0, <1>1 DEF Awake, Frame, Fits
<1>2. CASE StartDrain \/ AcceptDrop \/ AcceptDone \/ AcceptError \/ Connect \/ Usr1 \/ UNCHANGED vars
  BY <1>0, <1>1, <1>2 DEF StartDrain, AcceptDrop, AcceptDone, AcceptError, Connect, Usr1, vars,
                          Frame, Batched, Resuming
<1>3. CASE Poll
  <2>1. /\ phase' \in {"accept", "events"} /\ todo' = queued /\ conn' = conn
        /\ \A c \in Slots : sock'[c] = [sock[c] EXCEPT !.ready = FALSE]
        /\ sock' = [c \in Slots |-> sock'[c]]
    BY <1>3 DEF Poll
  <2>2. Frame'
    BY <1>0, <2>1 DEF Frame, queued
  <2> SUFFICES ASSUME NEW c \in Slots
               PROVE  Sane(conn[c], sock'[c]) /\ Fits(conn[c], sock'[c], Batched(c)', Resuming(c)')
    BY <2>1, <2>2 DEF Awake
  <2> DEFINE s == sock[c]
             t == [s EXCEPT !.ready = FALSE]
  <2>3. IsSock(t)
    BY <1>0 DEF SockTyped, IsSock
  <2>4. /\ t.interest = s.interest /\ t.ready = FALSE /\ t.request = s.request
        /\ t.inbox = s.inbox /\ t.fin = s.fin /\ t.gone = s.gone /\ t.space = s.space
    BY <1>0 DEF SockTyped, IsSock, SockFields
  <2>5. sock'[c] = t
    BY <2>1
  <2> HIDE DEF t
  <2>6. Sane(conn[c], t)
    BY <1>0, <2>3, <2>4 DEF Sane, SockTyped
  <2>7. (Batched(c)' <=> s.ready) /\ ~Resuming(c)' /\ ~Batched(c)
    BY <1>3, <2>1 DEF Poll, Batched, Resuming, queued
  <2>8. s.interest \in {"none", "READABLE", "WRITABLE"} /\ conn[c].state \in StateNames
    BY <1>0 DEF SockTyped, Interests, SlotTyped
  <2>9. Fits(conn[c], t, Batched(c)', Resuming(c)')
    BY <1>0, <2>4, <2>7, <2>8 DEF Fits, readable, writable
  <2> QED BY <2>5, <2>6, <2>9
<1>4. CASE Terminate
  <2>1. /\ todo' = {} /\ conn' = [c \in Slots |-> newSlot("Free")] /\ sock' = [c \in Slots |-> noSocket]
    BY <1>4 DEF Terminate
  <2>2. /\ SlotTyped(newSlot("Free")) /\ newSlot("Free").pause = None /\ newSlot("Free").state = "Free"
        /\ SockTyped(noSocket) /\ noSocket.interest = "none" /\ noSocket.ready = FALSE
    BY FreshSlot, FreshSock, NewSlot, Names
  <2>3. \A c \in Slots : conn'[c] = newSlot("Free") /\ sock'[c] = noSocket
    BY <2>1
  <2>4. Frame'
    BY <2>1 DEF Frame
  <2>5. \A c \in Slots : ~Batched(c)' /\ ~Resuming(c)'
    BY <2>1 DEF Batched, Resuming
  <2> QED BY <2>2, <2>3, <2>4, <2>5 DEF Awake, Sane, Fits
<1>5. ASSUME NEW c \in Slots, Accept(c) PROVE Awake'
  <2>1. PICK q \in Requests : sock' = [sock EXCEPT ![c] =
              register([noSocket EXCEPT !.request = q, !.space = SendSpace], "READABLE")]
    BY <1>5 DEF Accept
  <2> DEFINE t == [noSocket EXCEPT !.request = q, !.space = SendSpace]
             u == register(t, "READABLE")
             k == newSlot("Reading")
  <2>2. /\ conn' = [conn EXCEPT ![c] = k] /\ sock' = [sock EXCEPT ![c] = u]
        /\ UNCHANGED <<phase, todo>> /\ phase = "accept" /\ conn[c].state = "Free"
    BY <1>5, <2>1 DEF Accept, InUse
  <2>3. SlotTyped(k) /\ k.pause = None /\ k.state = "Reading"
    BY FreshSlot, NewSlot, Names
  <2>4. /\ t.interest = "none" /\ t.ready = FALSE /\ t.request = q
        /\ t.inbox = 0 /\ t.fin = FALSE /\ t.gone = FALSE /\ t.space = SendSpace
    BY DEF noSocket
  <2>5. IsSock(t)
    BY DEF noSocket, IsSock, SockFields
  <2> HIDE DEF t, k
  <2>6. SockTyped(t)
    <3>1. SendSpace \in Nat /\ "none" \in Interests
      BY Bounds, Names
    <3>2. t.fin \in BOOLEAN /\ t.gone \in BOOLEAN /\ t.ready \in BOOLEAN
      BY <2>4
    <3>3. t.inbox \in Nat /\ t.space \in Nat /\ t.interest \in Interests
      BY <2>4, <3>1
    <3> QED BY <2>5, <3>2, <3>3 DEF SockTyped
  <2>7. /\ SockTyped(u) /\ u.interest = "READABLE" /\ u.request = q /\ u.inbox = 0 /\ u.gone = FALSE
    BY <2>4, <2>6, RegisterSock, Names
  <2> HIDE DEF u
  <2>8. Alone(c) /\ conn'[c] = k /\ sock'[c] = u
    BY <1>0, <2>2, Replaced
  <2>9. Settled(c)
    BY <2>3, <2>7, <2>8, SMTT(30) DEF Settled, Sane, Fits
  <2>10. c \notin todo
    BY <1>0, <2>2 DEF Fits, Batched
  <2> QED BY <2>2, <2>8, <2>9, <2>10, HandlerDone
<1>6. ASSUME NEW c \in Slots, Dispatch(c) PROVE Awake'
  <2>1. todo' = todo \ {c} /\ phase' = phase
    BY <1>6 DEF Dispatch
  <2>2. CASE conn[c].state = "Reading" /\ handle_read(c)
    BY <1>0, <2>1, <2>2, ReadSettles, HandlerDone
  <2>3. CASE conn[c].state = "Sending" /\ handle_send(c, conn[c], sock[c])
    <3>1. conn[c].pause = None /\ sock[c].interest = "WRITABLE"
      BY <1>0, <2>3 DEF Fits
    <3> QED BY <1>0, <2>1, <2>3, <3>1, SendSettles, HandlerDone
  <2>4. CASE handle_linger(c)
    BY <1>0, <2>1, <2>4, Closes, HandlerDone DEF handle_linger
  <2> QED BY <1>6, <2>2, <2>3, <2>4 DEF Dispatch
<1>7. CASE EventsDone
  <2>1. \A c \in Slots : ~Batched(c)' /\ ~Batched(c) /\ (Resuming(c)' => conn[c].state = "Pausing")
    BY <1>7 DEF EventsDone, Batched, Resuming, pausesOver
  <2>2. UNCHANGED <<conn, sock>> /\ todo' \subseteq Slots
    BY <1>7 DEF EventsDone, pausesOver
  <2> QED BY <1>0, <2>1, <2>2 DEF Awake, Frame, Fits
<1>8. ASSUME NEW c \in Slots, Resume(c) PROVE Awake'
  <2> DEFINE k == woken(conn[c])
             s == register(sock[c], "WRITABLE")
  <2>1. todo' = todo \ {c} /\ phase' = phase /\ handle_send(c, k, s)
    BY <1>8 DEF Resume, handle_pause
  <2>2. SlotTyped(k) /\ k.state = "Sending" /\ k.pause = None
    BY <1>0, WokenSlot
  <2>3. SockTyped(s) /\ s.interest = "WRITABLE"
    BY <1>0, RegisterSock, Names
  <2> HIDE DEF k, s
  <2> QED BY <1>0, <2>1, <2>2, <2>3, SendSettles, HandlerDone
<1>9. CASE Update
  <2>1. (\A c \in Slots : ~Batched(c)' /\ ~Batched(c) /\ ~Resuming(c)') /\ todo' = todo
    BY <1>9 DEF Update, Batched, Resuming
  <2>2. CASE UNCHANGED <<conn, sock>>
    BY <1>0, <2>1, <2>2 DEF Awake, Frame, Fits
  <2>3. CASE /\ conn' = [c \in Slots |-> IF c \in pausesOver THEN woken(conn[c]) ELSE conn[c]]
             /\ sock' = [c \in Slots |-> IF c \in pausesOver THEN register(sock[c], "WRITABLE")
                                                             ELSE sock[c]]
    <3>1. Frame'
      BY <1>0, <1>9, <2>3 DEF Frame, Update
    <3> SUFFICES ASSUME NEW c \in Slots
                 PROVE  Sane(conn'[c], sock'[c]) /\ Fits(conn'[c], sock'[c], Batched(c)', Resuming(c)')
      BY <3>1 DEF Awake
    <3>2. CASE c \notin pausesOver
      BY <1>0, <2>1, <2>3, <3>2 DEF Fits
    <3>3. CASE c \in pausesOver
      <4> DEFINE k == woken(conn[c])
                 s == register(sock[c], "WRITABLE")
      <4>1. SlotTyped(k) /\ k.state = "Sending" /\ k.pause = None
        BY <1>0, WokenSlot
      <4>2. /\ SockTyped(s) /\ s.interest = "WRITABLE" /\ (s.ready <=> writable(sock[c]))
            /\ s.gone = sock[c].gone /\ s.space = sock[c].space
        BY <1>0, RegisterSock, Names, SMTT(30)
      <4>3. conn'[c] = k /\ sock'[c] = s
        BY <2>3, <3>3
      <4> HIDE DEF k, s
      <4> QED BY <2>1, <4>1, <4>2, <4>3 DEF Sane, Fits, writable
    <3> QED BY <3>2, <3>3
  <2> QED BY <1>9, <2>2, <2>3 DEF Update
<1>10. CASE Tick
  <2>1. UNCHANGED <<phase, todo, sock>> /\ conn' = [c \in Slots |-> conn'[c]]
    BY <1>10 DEF Tick
  <2>2. ASSUME NEW c \in Slots
        PROVE  SlotTyped(conn'[c]) /\ conn'[c].state = conn[c].state /\ conn'[c].read_idx = conn[c].read_idx
               /\ (conn'[c].pause = None <=> conn[c].pause = None)
    <3> DEFINE k == conn[c]
               x == Min({k.elapsed + 1, MaxElapsed})
               y == IF k.pause = 1 THEN 0 ELSE k.pause
               w == [k EXCEPT !.elapsed = x, !.pause = y]
    <3>1. conn'[c] = k \/ conn'[c] = w
      BY <1>10 DEF Tick
    <3>2. x \in Nat /\ x <= MaxElapsed
      <4>1. k.elapsed \in Nat /\ k.elapsed <= MaxElapsed
        BY <1>0 DEF SlotTyped
      <4> QED BY <4>1, Bounds, Later
    <3>3. y = None <=> k.pause = None
      BY DEF None
    <3>4. SlotTyped(k)
      BY <1>0
    <3> HIDE DEF x, y, k
    <3>5. IsSlot(w)
      BY <3>4 DEF SlotTyped, IsSlot
    <3>6. /\ w.state = k.state /\ w.read_idx = k.read_idx /\ w.pause = y
          /\ w.header_len = k.header_len /\ w.response_len = k.response_len
          /\ w.bytes_sent = k.bytes_sent /\ w.max_limit = k.max_limit
          /\ w.body_bytes = k.body_bytes /\ w.elapsed = x
      BY <3>4 DEF SlotTyped, IsSlot, SlotFields
    <3> HIDE DEF w
    <3>7. SlotTyped(w)
      BY <3>2, <3>4, <3>5, <3>6 DEF SlotTyped
    <3> QED BY <3>1, <3>3, <3>4, <3>6, <3>7 DEF k
  <2>3. Frame'
    BY <1>0, <2>1 DEF Frame
  <2>4. ASSUME NEW c \in Slots
        PROVE  Sane(conn'[c], sock[c]) /\ Fits(conn'[c], sock[c], Batched(c), Resuming(c))
    BY <1>0, <2>2 DEF Sane, Fits
  <2>5. \A c \in Slots : (Batched(c)' <=> Batched(c)) /\ (Resuming(c)' <=> Resuming(c))
    BY <2>1 DEF Batched, Resuming
  <2> QED BY <2>1, <2>3, <2>4, <2>5 DEF Awake, Fits
<1>11. ASSUME NEW c \in Slots,
              ClientSend(c) \/ ClientShut(c) \/ ClientGone(c) \/ ClientRead(c)
       PROVE  Awake'
  BY <1>11, ClientsWake
<1> QED
  BY <1>2, <1>3, <1>4, <1>5, <1>6, <1>7, <1>8, <1>9, <1>10, <1>11 DEF Next, Loop, World

LEMMA WakeSpec == Spec => []WakeInv
<1>1. Init => BalanceInv /\ Awake
  <2> SUFFICES ASSUME Init PROVE Awake
    BY BalanceInit
  <2>1. /\ todo = {} /\ conn = [c \in Slots |-> newSlot("Free")] /\ sock = [c \in Slots |-> noSocket]
    BY DEF Init
  <2>2. /\ SlotTyped(newSlot("Free")) /\ newSlot("Free").pause = None /\ newSlot("Free").state = "Free"
        /\ SockTyped(noSocket) /\ noSocket.interest = "none" /\ noSocket.ready = FALSE
    BY FreshSlot, FreshSock, NewSlot, Names
  <2>3. \A c \in Slots : conn[c] = newSlot("Free") /\ sock[c] = noSocket
    BY <2>1
  <2>4. Frame
    BY <2>1 DEF Frame
  <2>5. \A c \in Slots : ~Batched(c) /\ ~Resuming(c)
    BY <2>1 DEF Batched, Resuming
  <2> QED BY <2>2, <2>3, <2>4, <2>5 DEF Awake, Sane, Fits
<1>2. BalanceInv /\ Awake /\ [Next]_vars => (BalanceInv /\ Awake)'
  BY BalanceStep, AwakeStep
<1>3. BalanceInv /\ Awake => WakeInv
  BY DEF Awake, WakeInv
<1> QED BY <1>1, <1>2, <1>3, PTL DEF Spec

(* A slot that reads or lingers is registered for input, one that sends    *)
(* for room, and one that pauses has a deadline instead (eventloop.rs,     *)
(* handle_send, handle_pause, transition_to_sending).                      *)
THEOREM InterestAlwaysMatches == Spec => []InterestMatchesState
<1>1. WakeInv => InterestMatchesState
  BY DEF WakeInv, Fits, InterestMatchesState
<1> QED BY <1>1, WakeSpec, PTL

(* No event of a batch meets a slot that another handler of the batch      *)
(* vacated or paused, and every pause resumed is still one                 *)
(* (handle_connection_event, resume_ready_paused_connections).             *)
THEOREM EventsAreNeverStale == Spec => []NoStaleEvent
<1>1. WakeInv => NoStaleEvent
  <2> SUFFICES ASSUME WakeInv, NEW c \in todo
               PROVE  /\ phase \in {"accept", "events"} => conn[c].state \in {"Reading", "Sending", "Lingering"}
                      /\ phase = "resume" => conn[c].state = "Pausing"
    BY DEF NoStaleEvent
  <2> QED BY DEF WakeInv, Frame, Fits, Batched, Resuming
<1> QED BY <1>1, WakeSpec, PTL

(* Although the poll is edge-triggered and a handler reads or writes once  *)
(* per event, a slot that can go on has an event queued or in the batch    *)
(* (handle_read, handle_send, reregister).                                 *)
THEOREM WakeupsAreNeverLost == Spec => []NoLostWakeup
<1>1. WakeInv => NoLostWakeup
  <2> SUFFICES ASSUME WakeInv, NEW c \in InUse
               PROVE  LET s == sock[c]
                          waiting == s.ready \/ (phase \in {"accept", "events"} /\ c \in todo)
                      IN  /\ conn[c].state = "Sending" /\ writable(s) => waiting
                          /\ conn[c].state = "Lingering" /\ readable(s) => waiting
                          /\ conn[c].state = "Reading" /\ conn[c].read_idx < READ_BUF_SIZE
                               /\ (s.inbox > 0 \/ s.gone) => waiting
    BY DEF NoLostWakeup
  <2>1. c \in Slots
    BY DEF InUse
  <2> QED BY <2>1 DEF WakeInv, Fits, Batched
<1> QED BY <1>1, WakeSpec, PTL

-----------------------------------------------------------------------------
(* The bodies that are sent.                                               *)

(* A slot that keeps to its rules.                                         *)
Steady(k) ==
    /\ Paced(k.tnums, k.max_limit)
    /\ \A r \in k.tnums : k.body_bytes <= MaxLimit[r] * Max({k.elapsed, 1})

(* More time and a larger limit allow more.                                *)
LEMMA MoreTime ==
    ASSUME NEW m \in Nat, NEW l \in Int, l <= m, NEW e \in Nat, NEW x \in Nat, e <= x
    PROVE  /\ l * Max({e, 1}) <= m * Max({e, 1})
           /\ m * Max({e, 1}) <= m * Max({x, 1})
           /\ l * Max({e, 1}) \in Int /\ m * Max({e, 1}) \in Nat
<1>1. PICK a \in Nat : a = Max({e, 1})
  BY MinMax
<1>2. PICK b \in Nat : b = Max({x, 1}) /\ a <= b
  BY <1>1, MinMax
<1>3. l * a <= m * a
  BY <1>1
<1>4. m * a <= m * b
  BY <1>1, <1>2
<1> QED BY <1>1, <1>2, <1>3, <1>4

(* One write never takes the body past what the share allows by now.       *)
LEMMA WriteIsSteady ==
    ASSUME Generous, NEW k, SlotTyped(k), Steady(k), NEW n \in Nat,
           n <= write_limit(k), NEW w,
           w.tnums = k.tnums, w.max_limit = k.max_limit, w.elapsed = k.elapsed,
           w.body_bytes = k.body_bytes + IF k.tnums = {} THEN 0
                  ELSE body_of(k, k.bytes_sent + n) - body_of(k, k.bytes_sent)
    PROVE  Steady(w)
<1> SUFFICES ASSUME NEW r \in k.tnums
             PROVE  w.body_bytes <= MaxLimit[r] * Max({k.elapsed, 1})
  BY DEF Steady
<1> DEFINE head == Max({k.header_len - k.bytes_sent, 0})
           pays == k.max_limit * Max({k.elapsed, 1})
           rest == Max({pays - k.body_bytes, 0})
           grown == body_of(k, k.bytes_sent + n) - body_of(k, k.bytes_sent)
           cap == MaxLimit[r] * Max({k.elapsed, 1})
<1>1. k.max_limit \in Int /\ k.max_limit >= 1 /\ k.max_limit <= MaxLimit[r] /\ MaxLimit[r] \in Nat
  BY ThrottleConfig DEF Steady, Paced
<1>2. write_limit(k) = head + rest
  BY <1>1, SMTT(30) DEF write_limit
<1>3. grown \in Nat /\ grown <= Max({n - head, 0})
  BY BodyGrows
<1>4. k.body_bytes <= cap /\ w.body_bytes = k.body_bytes + grown
  BY DEF Steady
<1>5. pays <= cap /\ pays \in Int /\ cap \in Nat
  BY <1>1, MoreTime, SMTT(30) DEF SlotTyped
<1>6. head \in Nat /\ k.body_bytes \in Nat
  <2> DEFINE d == k.header_len - k.bytes_sent
  <2>1. d \in Int /\ k.body_bytes \in Nat
    BY DEF SlotTyped
  <2> HIDE DEF d
  <2>2. Max({d, 0}) \in Nat
    BY <2>1, MinMax
  <2> QED BY <2>1, <2>2 DEF d
<1> HIDE DEF head, pays, grown, cap
<1>7. rest = IF pays - k.body_bytes >= 0 THEN pays - k.body_bytes ELSE 0
  <2> DEFINE d == pays - k.body_bytes
  <2>1. d \in Int
    BY <1>5, <1>6
  <2> HIDE DEF d
  <2>2. Max({d, 0}) = IF d >= 0 THEN d ELSE 0
    BY <2>1, MinMax
  <2> QED BY <2>2 DEF d
<1>8. Max({n - head, 0}) = IF n - head >= 0 THEN n - head ELSE 0
  <2> DEFINE d == n - head
  <2>1. d \in Int
    BY <1>6
  <2> HIDE DEF d
  <2>2. Max({d, 0}) = IF d >= 0 THEN d ELSE 0
    BY <2>1, MinMax
  <2> QED BY <2>2 DEF d
<1> HIDE DEF rest
<1>9. k.body_bytes + grown <= cap
  BY <1>2, <1>3, <1>4, <1>5, <1>6, <1>7, <1>8, SMTT(30)
<1> QED BY <1>4, <1>9 DEF cap

(* A slot that keeps those fields, or has no rules, keeps to its rules.    *)
LEMMA SameFieldsSteady ==
    ASSUME NEW k, Steady(k), NEW w, w.tnums = k.tnums, w.max_limit = k.max_limit,
           w.elapsed = k.elapsed, w.body_bytes = k.body_bytes
    PROVE  Steady(w)
  BY DEF Steady

LEMMA NoRulesSteady ==
    ASSUME NEW k, SlotTyped(k), k.tnums = {}
    PROVE  Steady(k)
  BY DEF Steady, Paced, SlotTyped

(* So does one that sends, and one that starts to.                         *)
LEMMA SendIsSteady ==
    ASSUME Generous, Frame, NEW c \in Slots, NEW k, SlotTyped(k), k.state = "Sending", k.pause = None,
           Steady(k), NEW s, SockTyped(s), s.interest = "WRITABLE", handle_send(c, k, s)
    PROVE  Steady(conn'[c])
<1> DEFINE left == k.response_len - k.bytes_sent
           limit == write_limit(k)
<1>1. left \in Nat /\ limit \in Nat /\ s.space \in Nat
  BY LimitIsNat DEF SlotTyped, SockTyped
<1>2. ASSUME NEW n \in Nat, n <= left, n <= limit, n <= s.space, Written(c, k, s, n)
      PROVE  Steady(conn'[c])
  BY <1>2, WritesOut, WriteIsSteady
<1>3. CASE Written(c, k, s, 0)
  BY <1>1, <1>2, <1>3, SMTT(30)
<1>4. CASE Written(c, k, s, Min({limit, left, s.space}))
  <2> DEFINE n == Min({limit, left, s.space})
  <2>1. n \in {limit, left, s.space} /\ n <= left /\ n <= s.space /\ n <= limit
    <3> DEFINE sp == s.space
    <3>1. limit \in Int /\ left \in Int /\ sp \in Int
      BY <1>1
    <3> HIDE DEF limit, left, sp
    <3>2. /\ Min({limit, left, sp}) \in {limit, left, sp}
          /\ Min({limit, left, sp}) <= left /\ Min({limit, left, sp}) <= sp
          /\ Min({limit, left, sp}) <= limit
      BY <3>1, MinOfThree
    <3> QED BY <3>2 DEF sp
  <2>2. n \in Nat /\ Written(c, k, s, n)
    BY <1>1, <1>4, <2>1
  <2> HIDE DEF n
  <2> QED BY <1>2, <2>1, <2>2
<1>5. CASE conn' = [conn EXCEPT ![c] = [k EXCEPT !.state = "Pausing", !.pause = 1]]
  <2> DEFINE w == [k EXCEPT !.state = "Pausing", !.pause = 1]
  <2>1. /\ w.tnums = k.tnums /\ w.max_limit = k.max_limit
        /\ w.elapsed = k.elapsed /\ w.body_bytes = k.body_bytes
    BY DEF SlotTyped, IsSlot, SlotFields
  <2>2. conn'[c] = w
    BY <1>5 DEF Frame
  <2> HIDE DEF w
  <2> QED BY <2>1, <2>2, SameFieldsSteady
<1>6. CASE close_connection(c)
  <2>1. conn'[c] = newSlot("Free")
    BY <1>6, Closes
  <2> QED BY <2>1, FreshSlot, NewSlot, NoRulesSteady, Names
<1>7. CASE conn' = [conn EXCEPT ![c] = k]
  BY <1>7 DEF Frame
<1> QED BY <1>3, <1>4, <1>5, <1>6, <1>7 DEF handle_send

LEMMA ReplyIsSteady ==
    ASSUME Frame, NEW c \in Slots, NEW k, SlotTyped(k), Replies(c, k)
    PROVE  Steady(conn'[c])
<1>1. PICK response \in Response, T \in SUBSET Rules, limit \in Int :
          Paced(T, limit) /\ conn' = [conn EXCEPT ![c] = sending(k, response, T, limit)]
  BY DEF Replies
<1> DEFINE w == sending(k, response, T, limit)
<1>2. w.max_limit = limit /\ w.body_bytes = 0 /\ w.tnums = T /\ SlotTyped(w)
  BY SendingTyped, SMTT(30)
<1>3. conn'[c] = w
  BY <1>1 DEF Frame
<1> HIDE DEF w
<1>4. ASSUME NEW r \in T PROVE 0 <= MaxLimit[r] * Max({w.elapsed, 1})
  <2>1. MaxLimit[r] \in Nat /\ w.elapsed \in Nat
    BY <1>2, ThrottleConfig DEF SlotTyped
  <2>2. MaxLimit[r] * Max({w.elapsed, 1}) \in Nat
    BY <2>1, MoreTime
  <2> QED BY <2>2
<1> QED BY <1>1, <1>2, <1>3, <1>4 DEF Steady

(* Every slot keeps to its rules, and after every step still does.         *)
AllSteady == \A c \in Slots : Steady(conn[c])

LEMMA SteadyStep ==
    ASSUME Generous, WakeInv, AllSteady, [Next]_vars PROVE AllSteady'
<1>0. /\ Frame /\ BalanceInv
      /\ \A c \in Slots : /\ SlotTyped(conn[c]) /\ SockTyped(sock[c]) /\ Steady(conn[c])
                          /\ Fits(conn[c], sock[c], Batched(c), Resuming(c))
  BY DEF WakeInv, Sane, AllSteady
<1>1. ASSUME NEW c \in Slots, Alone(c), Steady(conn'[c]) PROVE AllSteady'
  BY <1>0, <1>1 DEF AllSteady, Alone
<1>2. CASE UNCHANGED conn
  BY <1>0, <1>2 DEF AllSteady
<1>3. Steady(newSlot("Free")) /\ Steady(newSlot("Reading"))
  BY FreshSlot, NewSlot, NoRulesSteady, Names
<1>4. CASE Terminate
  <2>1. \A c \in Slots : conn'[c] = newSlot("Free")
    BY <1>4 DEF Terminate
  <2> QED BY <1>3, <2>1 DEF AllSteady
<1>5. ASSUME NEW c \in Slots, Accept(c) PROVE AllSteady'
  <2>1. conn' = [conn EXCEPT ![c] = newSlot("Reading")]
    BY <1>5 DEF Accept
  <2>2. \A d \in Slots : conn'[d] = conn[d] \/ conn'[d] = newSlot("Reading")
    BY <1>0, <2>1 DEF Frame
  <2> QED BY <1>0, <1>3, <2>2 DEF AllSteady
<1>6. ASSUME NEW c \in Slots, Dispatch(c) PROVE AllSteady'
  <2>2. CASE conn[c].state = "Reading" /\ handle_read(c)
    <3>1. Alone(c) /\ SlotTyped(conn'[c])
      BY <2>2, ReadSettles DEF Settled, Sane
    <3>2. CASE conn'[c].tnums = {}
      BY <1>1, <3>1, <3>2, NoRulesSteady
    <3>3. CASE \E k : SlotTyped(k) /\ Replies(c, k)
      BY <1>0, <1>1, <3>1, <3>3, ReplyIsSteady
    <3> QED BY <2>2, <3>2, <3>3, ReadSettles
  <2>3. CASE conn[c].state = "Sending" /\ handle_send(c, conn[c], sock[c])
    <3>1. conn[c].pause = None /\ sock[c].interest = "WRITABLE"
      BY <1>0, <2>3 DEF Fits
    <3> QED BY <1>0, <1>1, <2>3, <3>1, SendSettles, SendIsSteady
  <2>4. CASE handle_linger(c)
    BY <1>0, <1>1, <1>3, <2>4, Closes DEF handle_linger
  <2> QED BY <1>6, <2>2, <2>3, <2>4 DEF Dispatch
<1>7. ASSUME NEW c \in Slots
      PROVE  SlotTyped(woken(conn[c])) /\ woken(conn[c]).state = "Sending"
             /\ woken(conn[c]).pause = None /\ Steady(woken(conn[c]))
  BY <1>0, WokenSlot DEF Steady
<1>8. ASSUME NEW c \in Slots, Resume(c) PROVE AllSteady'
  <2> DEFINE k == woken(conn[c])
             s == register(sock[c], "WRITABLE")
  <2>1. handle_send(c, k, s)
    BY <1>8 DEF Resume, handle_pause
  <2>2. SlotTyped(k) /\ k.state = "Sending" /\ k.pause = None /\ Steady(k)
    BY <1>7
  <2>3. SockTyped(s) /\ s.interest = "WRITABLE"
    BY <1>0, RegisterSock, Names
  <2> HIDE DEF k, s
  <2> QED BY <1>0, <1>1, <2>1, <2>2, <2>3, SendSettles, SendIsSteady
<1>9. CASE Update
  <2>1. \A c \in Slots : conn'[c] = conn[c] \/ conn'[c] = woken(conn[c])
    BY <1>9 DEF Update
  <2> QED BY <1>0, <1>7, <2>1 DEF AllSteady
<1>10. CASE Tick
  <2> SUFFICES ASSUME NEW c \in Slots PROVE Steady(conn'[c])
    BY DEF AllSteady
  <2> DEFINE k == conn[c]
             x == Min({k.elapsed + 1, MaxElapsed})
             y == IF k.pause = 1 THEN 0 ELSE k.pause
             w == [k EXCEPT !.elapsed = x, !.pause = y]
  <2>1. conn'[c] = k \/ conn'[c] = w
    BY <1>10 DEF Tick
  <2>2. SlotTyped(k) /\ Steady(k)
    BY <1>0
  <2>3. k.elapsed \in Nat /\ k.elapsed <= x /\ x \in Nat
    <3>1. k.elapsed \in Nat /\ k.elapsed <= MaxElapsed
      BY <1>0 DEF SlotTyped
    <3> QED BY <3>1, Bounds, Later
  <2> HIDE DEF k, x, y
  <2>4. w.tnums = k.tnums /\ w.max_limit = k.max_limit /\ w.body_bytes = k.body_bytes /\ w.elapsed = x
    BY <2>2 DEF SlotTyped, IsSlot, SlotFields
  <2> HIDE DEF w
  <2>5. ASSUME NEW r \in k.tnums PROVE k.body_bytes <= MaxLimit[r] * Max({x, 1})
    <3>1. MaxLimit[r] \in Nat
      BY <2>2, ThrottleConfig DEF Steady, Paced
    <3> DEFINE a == MaxLimit[r] * Max({k.elapsed, 1})
               b == MaxLimit[r] * Max({x, 1})
    <3>2. a <= b /\ a \in Nat
      BY <2>3, <3>1, MoreTime, SMTT(30)
    <3>3. b \in Nat
      BY <2>3, <3>1, MoreTime
    <3>4. k.body_bytes <= a /\ k.body_bytes \in Nat
      BY <2>2 DEF Steady, SlotTyped
    <3> HIDE DEF a, b
    <3>5. k.body_bytes <= b
      BY <3>2, <3>3, <3>4
    <3> QED BY <3>5 DEF b
  <2>6. Steady(w)
    BY <2>2, <2>4, <2>5 DEF Steady
  <2> QED BY <2>1, <2>2, <2>6
<1>11. CASE \/ StartDrain \/ Poll \/ AcceptDrop \/ AcceptDone \/ AcceptError \/ EventsDone
            \/ Connect \/ Usr1
            \/ \E c \in Slots : \E s, event : Client(c, s, event)
  BY <1>2, <1>11 DEF StartDrain, Poll, AcceptDrop, AcceptDone, AcceptError, EventsDone,
                     Connect, Usr1, Client
<1>12. ASSUME NEW c \in Slots,
              ClientSend(c) \/ ClientShut(c) \/ ClientGone(c) \/ ClientRead(c)
       PROVE  \E s, event : Client(c, s, event)
  BY <1>12 DEF ClientSend, ClientShut, ClientGone, ClientRead
<1>13. CASE UNCHANGED vars
  BY <1>2, <1>13 DEF vars
<1> QED
  BY <1>4, <1>5, <1>6, <1>8, <1>9, <1>10, <1>11, <1>12, <1>13 DEF Next, Loop, World

(* Where every rule allows each slot a byte per second, so that no share   *)
(* is rounded down to 0, a connection never gets more of a body than each  *)
(* of its rules allows for its time, however often it pauses and its share *)
(* is computed anew (connection.rs handle_send, throttle.rs).              *)
THEOREM BodiesStayWithinRules ==
    ASSUME Generous PROVE Spec => []BodyWithinRule
<1>1. Init => AllSteady
  <2> SUFFICES ASSUME Init, NEW c \in Slots PROVE Steady(conn[c])
    BY DEF AllSteady
  <2>1. conn[c] = newSlot("Free")
    BY DEF Init
  <2> QED BY <2>1, FreshSlot, NewSlot, NoRulesSteady, Names
<1>2. WakeInv /\ AllSteady /\ [Next]_vars => AllSteady'
  BY SteadyStep
<1>3. AllSteady => BodyWithinRule
  BY DEF AllSteady, Steady, BodyWithinRule
<1> QED BY <1>1, <1>2, <1>3, WakeSpec, PTL DEF Spec
=============================================================================
