-------------------------- MODULE EventLoopProofs --------------------------
(***************************************************************************)
(* The event loop for any number of slots, rules and requests: the         *)
(* throttle table counts the connections that hold each rule.              *)
(*                                                                         *)
(* To the rules the slots hold every step does one of three things: it     *)
(* keeps them, gives a slot that holds none a set of rules and counts them *)
(* up, or takes a slot's rules away and counts them down.  To a slot and   *)
(* its socket a handler does whatever it does alone, and leaves them       *)
(* settled, waiting for what has not happened yet: the lemmas of the       *)
(* second half say so of writing, for EventLoopPollProofs.                 *)
(***************************************************************************)
EXTENDS EventLoop, NumberLemmas, FiniteSetTheorems, TLAPS

(* A value with the fields of a slot, an entry.                            *)
SlotFields == {"state", "read_idx", "pending_cgi_body", "header_len", "response_len",
               "bytes_sent", "tnums", "max_limit", "body_bytes", "elapsed", "pause"}

IsSlot(k) == k = [f \in SlotFields |-> k[f]]

IsEntry(e) ==
    /\ e = [rate |-> e.rate, bytes_since_avg |-> e.bytes_since_avg,
            num_sending |-> e.num_sending]
    /\ e.num_sending \in Int

Table(entries) ==
    /\ entries = [r \in Rules |-> entries[r]]
    /\ \A r \in Rules : IsEntry(entries[r])

Holders(r) == {c \in Slots : r \in conn[c].tnums}

(* A slot holds rules only from its answer to its end.                     *)
Shape ==
    /\ conn = [c \in Slots |-> conn[c]]
    /\ \A c \in Slots : /\ IsSlot(conn[c])
                        /\ conn[c].tnums \subseteq Rules
                        /\ conn[c].state \in {"Free", "Reading"} => conn[c].tnums = {}
    /\ Table(entry)

BalanceInv == Shape /\ SendersBalance

-----------------------------------------------------------------------------
(* What a step does to the rules held.                                     *)

Keeps ==
    /\ \A c \in Slots : conn'[c].tnums = conn[c].tnums
    /\ \A r \in Rules : entry'[r].num_sending = entry[r].num_sending

Takes(c, tnums) ==
    /\ conn[c].tnums = {} /\ conn'[c].tnums = tnums
    /\ \A d \in Slots \ {c} : conn'[d].tnums = conn[d].tnums
    /\ \A r \in Rules : entry'[r].num_sending =
           IF r \in tnums THEN entry[r].num_sending + 1 ELSE entry[r].num_sending

Drops(c) ==
    /\ conn'[c].tnums = {}
    /\ \A d \in Slots \ {c} : conn'[d].tnums = conn[d].tnums
    /\ \A r \in Rules : entry'[r].num_sending =
           IF r \in conn[c].tnums THEN entry[r].num_sending - 1 ELSE entry[r].num_sending

(* The count of a rule's holders follows what the table does.              *)
LEMMA CountFollows ==
    ASSUME BalanceInv,
           Keeps \/ \E c \in Slots : Drops(c) \/ \E T \in SUBSET Rules : Takes(c, T)
    PROVE  SendersBalance'
<1> SUFFICES ASSUME NEW r \in Rules
             PROVE  entry'[r].num_sending = Cardinality(Holders(r)')
    BY DEF SendersBalance, Holders
<1>1. /\ IsFiniteSet(Holders(r))
      /\ entry[r].num_sending = Cardinality(Holders(r))
      /\ Cardinality(Holders(r)) \in Nat
    BY EventLoopConfig, FS_Subset, FS_CardinalityType DEF BalanceInv, SendersBalance, Holders
<1>2. CASE Keeps
    <2>1. Holders(r)' = Holders(r)
        BY <1>2 DEF Keeps, Holders
    <2> QED  BY <1>1, <1>2, <2>1 DEF Keeps
<1>3. CASE \E c \in Slots : Drops(c)
    <2>1. PICK c \in Slots : Drops(c)  BY <1>3
    <2>2. Holders(r)' = Holders(r) \ {c}
        BY <2>1 DEF Drops, Holders
    <2>3. c \in Holders(r) <=> r \in conn[c].tnums
        BY DEF Holders
    <2>4. Cardinality(Holders(r)') = IF c \in Holders(r) THEN Cardinality(Holders(r)) - 1
                                                        ELSE Cardinality(Holders(r))
        BY <1>1, <2>2, FS_RemoveElement
    <2> QED  BY <1>1, <2>1, <2>3, <2>4 DEF Drops
<1>4. CASE \E c \in Slots : \E T \in SUBSET Rules : Takes(c, T)
    <2>1. PICK c \in Slots, T \in SUBSET Rules : Takes(c, T)  BY <1>4
    <2>2. c \notin Holders(r)
        BY <2>1 DEF Takes, Holders
    <2>3. CASE r \in T
        <3>1. Holders(r)' = Holders(r) \union {c}
            BY <2>1, <2>3 DEF Takes, Holders
        <3>2. Cardinality(Holders(r)') = Cardinality(Holders(r)) + 1
            BY <1>1, <2>2, <3>1, FS_AddElement
        <3> QED  BY <1>1, <2>1, <2>3, <3>2 DEF Takes
    <2>4. CASE r \notin T
        <3>1. Holders(r)' = Holders(r)
            BY <2>1, <2>4 DEF Takes, Holders
        <3> QED  BY <1>1, <2>1, <2>4, <3>1 DEF Takes
    <2> QED  BY <2>3, <2>4
<1> QED  BY <1>2, <1>3, <1>4

(* Balanced counts are not negative, so the clamp in start does nothing.   *)
LEMMA CountsAreNat ==
    ASSUME BalanceInv
    PROVE  \A r \in Rules : entry[r].num_sending \in Nat
<1> SUFFICES ASSUME NEW r \in Rules PROVE entry[r].num_sending \in Nat
    OBVIOUS
<1>1. IsFiniteSet(Holders(r))
    BY EventLoopConfig, FS_Subset DEF Holders
<1> QED  BY <1>1, FS_CardinalityType DEF BalanceInv, SendersBalance, Holders

(* The operations of the table.                                            *)
LEMMA StartOp ==
    ASSUME NEW e, Table(e), NEW T, \A r \in Rules : e[r].num_sending \in Nat
    PROVE  /\ Table(start(e, T))
           /\ \A r \in Rules : start(e, T)[r].num_sending =
                  IF r \in T THEN e[r].num_sending + 1 ELSE e[r].num_sending
BY DEF Table, IsEntry, start

LEMMA ClearOp ==
    ASSUME NEW e, Table(e), NEW T
    PROVE  /\ Table(clear(e, T))
           /\ \A r \in Rules : clear(e, T)[r].num_sending =
                  IF r \in T THEN e[r].num_sending - 1 ELSE e[r].num_sending
BY DEF Table, IsEntry, clear

LEMMA AddBytesOp ==
    ASSUME NEW e, Table(e), NEW T, NEW n
    PROVE  /\ Table(add_bytes(e, T, n))
           /\ \A r \in Rules : add_bytes(e, T, n)[r].num_sending = e[r].num_sending
BY DEF Table, IsEntry, add_bytes

LEMMA UpdateOp ==
    ASSUME NEW e, Table(e)
    PROVE  /\ Table(update_averages(e))
           /\ \A r \in Rules : update_averages(e)[r].num_sending = e[r].num_sending
<1>1. \A r \in Rules : \E x : update_averages(e)[r] =
          [e[r] EXCEPT !.rate = x, !.bytes_since_avg = 0]
    BY DEF update_averages
<1>2. \A r \in Rules : /\ IsEntry(update_averages(e)[r])
                       /\ update_averages(e)[r].num_sending = e[r].num_sending
    BY <1>1 DEF Table, IsEntry
<1>3. update_averages(e) = [r \in Rules |-> update_averages(e)[r]]
    BY DEF update_averages
<1> QED  BY <1>2, <1>3 DEF Table

-----------------------------------------------------------------------------
(* The handlers.                                                           *)

Changes(c) == \/ Keeps
              \/ Drops(c)
              \/ \E T \in SUBSET Rules : Takes(c, T)

(* One slot of the slab is replaced.                                       *)
LEMMA SlotReplaced ==
    ASSUME Shape, NEW c \in Slots, NEW k, IsSlot(k), k.tnums \subseteq Rules,
           k.state \in {"Free", "Reading"} => k.tnums = {},
           conn' = [conn EXCEPT ![c] = k], Table(entry')
    PROVE  /\ Shape'
           /\ conn'[c].tnums = k.tnums
           /\ \A d \in Slots \ {c} : conn'[d].tnums = conn[d].tnums
<1>1. /\ conn'[c] = k
      /\ \A d \in Slots \ {c} : conn'[d] = conn[d]
      /\ conn' = [d \in Slots |-> conn'[d]]
    BY DEF Shape
<1> QED  BY <1>1 DEF Shape

LEMMA SendingSlot ==
    ASSUME NEW k, IsSlot(k), NEW response, NEW T, NEW limit
    PROVE  /\ IsSlot(sending(k, response, T, limit))
           /\ sending(k, response, T, limit).tnums = T
           /\ sending(k, response, T, limit).state = "Sending"
<1> DEFINE with(h, l) ==
        [k EXCEPT !.state = "Sending", !.header_len = h, !.response_len = l,
                  !.bytes_sent = 0, !.body_bytes = 0, !.elapsed = 0,
                  !.tnums = T, !.max_limit = limit]
<1>1. sending(k, response, T, limit)
          = with(response.header, response.header + response.body)
    BY DEF sending
<1>2. \A h, l : IsSlot(with(h, l))
    BY DEF IsSlot
<1>3. \A h, l : with(h, l).tnums = T
    BY DEF IsSlot, SlotFields
<1>4. \A h, l : with(h, l).state = "Sending"
    BY DEF IsSlot, SlotFields
<1> HIDE DEF with
<1> QED  BY <1>1, <1>2, <1>3, <1>4

LEMMA NewSlot ==
    ASSUME NEW st
    PROVE  IsSlot(newSlot(st)) /\ newSlot(st).tnums = {} /\ newSlot(st).state = st
BY DEF IsSlot, SlotFields, newSlot

(* An admission counts the slot's new rules up; a refusal gives it none.   *)
LEMMA ReplyTakes ==
    ASSUME BalanceInv, NEW c \in Slots, conn[c].tnums = {}, NEW k, IsSlot(k),
           NEW f, NEW response, Reply(c, k, f, response)
    PROVE  Shape' /\ \E T \in SUBSET Rules : Takes(c, T)
<1> DEFINE T == IF rejects(entry, f) THEN {} ELSE tnumsFor(f)
<1> DEFINE e == start(entry, tnumsFor(f))
<1>1. Table(entry) /\ Shape /\ \A r \in Rules : entry[r].num_sending \in Nat
    BY CountsAreNat DEF BalanceInv, Shape
<1>2. Table(e) /\ \A r \in Rules : e[r].num_sending =
          IF r \in tnumsFor(f) THEN entry[r].num_sending + 1 ELSE entry[r].num_sending
    BY <1>1, StartOp
<1>3. T \in SUBSET Rules
    BY DEF tnumsFor
<1> DEFINE p == IF rejects(entry, f)
                THEN sending(k, Page, {}, THROTTLE_NOLIMIT)
                ELSE sending(k, response, tnumsFor(f), fair_share_for(e, tnumsFor(f)))
<1>4. /\ IsSlot(p) /\ p.tnums = T /\ p.state = "Sending"
      /\ conn' = [conn EXCEPT ![c] = p]
    <2>1. conn' = [conn EXCEPT ![c] = p]
        BY DEF Reply
    <2> QED  BY <2>1, SendingSlot
<1> HIDE DEF p
<1>5. entry' = IF rejects(entry, f) THEN entry ELSE e
    BY DEF Reply
<1>6. Table(entry') /\ \A r \in Rules : entry'[r].num_sending =
          IF r \in T THEN entry[r].num_sending + 1 ELSE entry[r].num_sending
    BY <1>1, <1>2, <1>5
<1> HIDE DEF T
<1>7. /\ Shape' /\ conn'[c].tnums = T
      /\ \A d \in Slots \ {c} : conn'[d].tnums = conn[d].tnums
    BY <1>1, <1>3, <1>4, <1>6, SlotReplaced
<1> QED  BY <1>3, <1>6, <1>7 DEF Takes

(* Closing a connection counts its rules down.                             *)
LEMMA CloseDrops ==
    ASSUME BalanceInv, NEW c \in Slots, close_connection(c)
    PROVE  Shape' /\ Drops(c)
<1>1. Shape /\ Table(entry)
    BY DEF BalanceInv, Shape
<1>2. Table(entry') /\ \A r \in Rules : entry'[r].num_sending =
          IF r \in conn[c].tnums THEN entry[r].num_sending - 1 ELSE entry[r].num_sending
    BY <1>1, ClearOp DEF close_connection
<1>3. PICK k : /\ IsSlot(k) /\ k.tnums = {} /\ conn' = [conn EXCEPT ![c] = k]
    BY NewSlot DEF close_connection
<1>4. /\ Shape' /\ conn'[c].tnums = {}
      /\ \A d \in Slots \ {c} : conn'[d].tnums = conn[d].tnums
    BY <1>1, <1>2, <1>3, SlotReplaced
<1> QED  BY <1>2, <1>4 DEF Drops

(* Running a CGI counts its rules up and down again.                       *)
LEMMA CgiChanges ==
    ASSUME BalanceInv, NEW c \in Slots, conn[c].tnums = {}, NEW k, IsSlot(k),
           NEW q, dispatch_cgi(c, k, q)
    PROVE  Shape' /\ Changes(c)
<1> DEFINE T == tnumsFor(q.script)
<1> DEFINE b == start(entry, T)
<1>1. Table(entry) /\ Shape /\ \A r \in Rules : entry[r].num_sending \in Nat
    BY CountsAreNat DEF BalanceInv, Shape
<1>2. CASE Reply(c, k, q.file, Page)
    BY <1>2, ReplyTakes DEF Changes
<1>3. CASE /\ \/ entry' = clear(add_bytes(b, T, CGI_BYTECOUNT), T)
              \/ entry' = clear(b, T)
           /\ \E p : conn' = [conn EXCEPT ![c] = sending(k, p, {}, THROTTLE_NOLIMIT)]
    <2> HIDE DEF T
    <2>1. Table(b) /\ \A r \in Rules : b[r].num_sending =
              IF r \in T THEN entry[r].num_sending + 1 ELSE entry[r].num_sending
        BY <1>1, StartOp
    <2> HIDE DEF b
    <2> DEFINE a == add_bytes(b, T, CGI_BYTECOUNT)
    <2>2. Table(a) /\ \A r \in Rules : a[r].num_sending = b[r].num_sending
        BY <2>1, AddBytesOp
    <2> HIDE DEF a
    <2>3. PICK x : /\ Table(x) /\ entry' = clear(x, T)
                   /\ \A r \in Rules : x[r].num_sending = b[r].num_sending
        BY <1>3, <2>1, <2>2 DEF a
    <2>4. Table(entry') /\ \A r \in Rules : entry'[r].num_sending =
              IF r \in T THEN x[r].num_sending - 1 ELSE x[r].num_sending
        BY <2>3, ClearOp
    <2>5. \A r \in Rules : entry'[r].num_sending = entry[r].num_sending
        BY <1>1, <2>1, <2>3, <2>4
    <2>6. PICK p : /\ IsSlot(p) /\ p.tnums = {} /\ conn' = [conn EXCEPT ![c] = p]
        <3>1. PICK w : conn' = [conn EXCEPT ![c] = sending(k, w, {}, THROTTLE_NOLIMIT)]
            BY <1>3
        <3>2. /\ IsSlot(sending(k, w, {}, THROTTLE_NOLIMIT))
              /\ sending(k, w, {}, THROTTLE_NOLIMIT).tnums = {}
            BY SendingSlot
        <3> QED  BY <3>1, <3>2
    <2>7. /\ Shape' /\ conn'[c].tnums = {}
          /\ \A d \in Slots \ {c} : conn'[d].tnums = conn[d].tnums
        BY <1>1, <2>4, <2>6, SlotReplaced
    <2> QED  BY <2>5, <2>7 DEF Changes, Keeps
<1> QED  BY <1>2, <1>3 DEF dispatch_cgi, cgiRefused, cgiDone, cgiFailed

(* A slot whose rules stay as they are.                                    *)
LEMMA SlotKept ==
    ASSUME BalanceInv, NEW c \in Slots, NEW k, IsSlot(k), k.tnums = conn[c].tnums,
           k.state \in {"Free", "Reading"} => k.tnums = {},
           conn' = [conn EXCEPT ![c] = k], Table(entry'),
           \A r \in Rules : entry'[r].num_sending = entry[r].num_sending
    PROVE  Shape' /\ Changes(c)
<1>1. Shape /\ k.tnums \subseteq Rules
    BY DEF BalanceInv, Shape
<1>2. /\ Shape' /\ conn'[c].tnums = k.tnums
      /\ \A d \in Slots \ {c} : conn'[d].tnums = conn[d].tnums
    BY <1>1, SlotReplaced
<1> QED  BY <1>2 DEF Changes, Keeps

LEMMA ReadChanges ==
    ASSUME BalanceInv, NEW c \in Slots, conn[c].state = "Reading", handle_read(c)
    PROVE  Shape' /\ Changes(c)
<1>1. Shape /\ Table(entry) /\ IsSlot(conn[c]) /\ conn[c].tnums = {}
    BY DEF BalanceInv, Shape
<1>2. CASE \E f : Reply(c, conn[c], f, Page)
    BY <1>1, <1>2, ReplyTakes DEF Changes
<1>3. CASE close_connection(c)
    BY <1>3, CloseDrops DEF Changes
<1>4. CASE UNCHANGED <<conn, sock, entry>>
    BY <1>1, <1>4 DEF Changes, Keeps, Shape
<1>5. CASE \E q, idx : Answer(c, q, idx)
    <2>1. PICK q, idx : Answer(c, q, idx)
        BY <1>5
    <2> DEFINE pending == /\ idx >= q.head /\ q.kind = "cgi"
                          /\ ~(idx >= q.head + q.body)
    <2> DEFINE k == [conn[c] EXCEPT !.read_idx = idx, !.pending_cgi_body = pending]
    <2>2. IsSlot(k)
        BY <1>1 DEF IsSlot
    <2>3. k.tnums = {} /\ k.state = "Reading"
        BY <1>1 DEF IsSlot, SlotFields
    <2>4. \/ conn' = [conn EXCEPT ![c] = k] /\ entry' = entry
          \/ process_request(c, k, q)
        BY <2>1 DEF Answer
    <2> HIDE DEF k
    <2>5. CASE conn' = [conn EXCEPT ![c] = k] /\ entry' = entry
        BY <1>1, <2>2, <2>3, <2>5, SlotKept
    <2>6. CASE \E f, w : Reply(c, k, f, w)
        BY <1>1, <2>2, <2>6, ReplyTakes DEF Changes
    <2>7. CASE dispatch_cgi(c, k, q)
        BY <1>1, <2>2, <2>7, CgiChanges
    <2>8. CASE process_request(c, k, q)
        BY <2>6, <2>7, <2>8 DEF process_request, bad_request, serve_static,
               staticRefused, staticSent
    <2> QED  BY <2>4, <2>5, <2>8
<1> QED  BY <1>2, <1>3, <1>4, <1>5 DEF handle_read

LEMMA SendChanges ==
    ASSUME BalanceInv, NEW c \in Slots, NEW k, IsSlot(k), k.tnums = conn[c].tnums,
           k.state = "Sending", NEW s, handle_send(c, k, s)
    PROVE  Shape' /\ Changes(c)
<1>1. Shape /\ Table(entry)
    BY DEF BalanceInv, Shape
<1>2. CASE \E n : Written(c, k, s, n)
    <2>1. PICK n : Written(c, k, s, n)
        BY <1>2
    <2>2. PICK d : entry' = add_bytes(entry, k.tnums, d)
        BY <2>1 DEF Written
    <2>3. PICK after, body, st :
              /\ st \in {"Lingering", "Sending"}
              /\ conn' = [conn EXCEPT ![c] = [k EXCEPT !.bytes_sent = after,
                                                       !.body_bytes = body, !.state = st]]
        BY <2>1 DEF Written
    <2> DEFINE w == [k EXCEPT !.bytes_sent = after, !.body_bytes = body, !.state = st]
    <2>4. IsSlot(w)
        BY DEF IsSlot
    <2>5. w.tnums = k.tnums /\ w.state = st
        BY DEF IsSlot, SlotFields
    <2>6. Table(entry') /\ \A r \in Rules : entry'[r].num_sending = entry[r].num_sending
        BY <1>1, <2>2, AddBytesOp
    <2>7. conn' = [conn EXCEPT ![c] = w]
        BY <2>3
    <2> HIDE DEF w
    <2> QED  BY <2>3, <2>4, <2>5, <2>6, <2>7, SlotKept
<1>3. CASE conn' = [conn EXCEPT ![c] = [k EXCEPT !.state = "Pausing", !.pause = 1]]
           /\ entry' = entry
    <2> DEFINE w == [k EXCEPT !.state = "Pausing", !.pause = 1]
    <2>1. IsSlot(w)
        BY DEF IsSlot
    <2>2. w.tnums = k.tnums /\ w.state = "Pausing"
        BY DEF IsSlot, SlotFields
    <2>3. conn' = [conn EXCEPT ![c] = w]
        BY <1>3
    <2> HIDE DEF w
    <2> QED  BY <1>1, <1>3, <2>1, <2>2, <2>3, SlotKept
<1>4. CASE conn' = [conn EXCEPT ![c] = k] /\ entry' = entry
    BY <1>1, <1>4, SlotKept
<1>5. CASE close_connection(c)
    BY <1>5, CloseDrops DEF Changes
<1> QED  BY <1>2, <1>3, <1>4, <1>5 DEF handle_send

-----------------------------------------------------------------------------

LEMMA BalanceStep ==
    ASSUME BalanceInv, [Next]_vars
    PROVE  BalanceInv'
<1>0. /\ Shape /\ Table(entry)
      /\ \A c \in Slots : IsSlot(conn[c])
    BY DEF BalanceInv, Shape
<1>1. SUFFICES \/ Shape' /\ Keeps
               \/ \E c \in Slots : Shape' /\ Changes(c)
               \/ BalanceInv'
    BY CountFollows DEF BalanceInv, Changes
<1>2. CASE UNCHANGED <<conn, entry>>
    BY <1>0, <1>2 DEF Shape, Keeps
<1>3. CASE Terminate
    <2>1. /\ \A c \in Slots : conn'[c] = newSlot("Free")
          /\ conn' = [c \in Slots |-> conn'[c]]
          /\ entry' = [r \in Rules |-> newEntry]
        BY <1>3 DEF Terminate
    <2>2. Table(entry') /\ \A r \in Rules : entry'[r].num_sending = 0
        BY <2>1 DEF Table, IsEntry, newEntry
    <2>3. \A c \in Slots : IsSlot(conn'[c]) /\ conn'[c].tnums = {}
        BY <2>1, NewSlot
    <2>4. Shape'
        BY <2>1, <2>2, <2>3 DEF Shape
    <2>5. \A r \in Rules : Holders(r)' = {}
        BY <2>3 DEF Holders
    <2>6. SendersBalance'
        BY <2>2, <2>5, FS_EmptySet DEF SendersBalance, Holders
    <2> QED  BY <2>4, <2>6 DEF BalanceInv
<1>4. ASSUME NEW c \in Slots, Accept(c)
      PROVE  Shape' /\ Changes(c)
    <2> DEFINE k == newSlot("Reading")
    <2>1. conn[c].tnums = {}
        BY <1>0, <1>4 DEF Accept, InUse, Shape
    <2>2. IsSlot(k) /\ k.tnums = {}
        BY NewSlot
    <2>3. conn' = [conn EXCEPT ![c] = k] /\ entry' = entry
        BY <1>4 DEF Accept
    <2> HIDE DEF k
    <2> QED  BY <1>0, <2>1, <2>2, <2>3, SlotKept
<1>5. ASSUME NEW c \in Slots, Dispatch(c)
      PROVE  Shape' /\ Changes(c)
    BY <1>0, <1>5, ReadChanges, SendChanges, CloseDrops DEF Dispatch, handle_linger, Changes
<1>6. ASSUME NEW k, IsSlot(k)
      PROVE  IsSlot(woken(k)) /\ woken(k).tnums = k.tnums /\ woken(k).state = "Sending"
    <2>1. IsSlot(woken(k))
        BY <1>6 DEF IsSlot, woken
    <2>2. woken(k).tnums = k.tnums /\ woken(k).state = "Sending"
        BY <1>6 DEF IsSlot, SlotFields, woken
    <2> QED  BY <2>1, <2>2
<1>7. ASSUME NEW c \in Slots, Resume(c)
      PROVE  Shape' /\ Changes(c)
    <2>1. handle_send(c, woken(conn[c]), register(sock[c], "WRITABLE"))
        BY <1>7 DEF Resume, handle_pause
    <2> QED  BY <1>0, <1>6, <2>1, SendChanges
<1>8. CASE Update
    <2>1. CASE UNCHANGED <<conn, entry>>
        BY <1>2, <2>1
    <2>2. CASE /\ entry' = update_averages(entry)
               /\ conn' = [c \in Slots |-> IF c \in pausesOver THEN woken(conn[c]) ELSE conn[c]]
        <3>1. Table(entry') /\ \A r \in Rules : entry'[r].num_sending = entry[r].num_sending
            BY <1>0, <2>2, UpdateOp
        <3>2. \A c \in Slots : /\ conn'[c] = conn[c] \/ conn'[c] = woken(conn[c])
                               /\ conn' = [d \in Slots |-> conn'[d]]
            BY <2>2
        <3>3. \A c \in Slots : /\ IsSlot(conn'[c])
                               /\ conn'[c].tnums = conn[c].tnums
                               /\ conn'[c].state \in {conn[c].state, "Sending"}
            BY <1>0, <1>6, <3>2
        <3>4. conn' = [c \in Slots |-> conn'[c]]
            BY <2>2
        <3>5. Shape'
            BY <1>0, <3>1, <3>3, <3>4 DEF Shape
        <3> QED  BY <3>1, <3>3, <3>5 DEF Keeps
    <2> QED  BY <1>8, <2>1, <2>2 DEF Update
<1>9. CASE Tick
    <2> DEFINE w(k, x, y) == [k EXCEPT !.elapsed = x, !.pause = y]
    <2>1. /\ \A c \in Slots : conn'[c] = conn[c] \/ \E x, y : conn'[c] = w(conn[c], x, y)
          /\ conn' = [c \in Slots |-> conn'[c]]
          /\ entry' = entry
        BY <1>9 DEF Tick
    <2>2. ASSUME NEW k, IsSlot(k), NEW x, NEW y
          PROVE  IsSlot(w(k, x, y))
        BY <2>2 DEF IsSlot
    <2>3. ASSUME NEW k, IsSlot(k), NEW x, NEW y
          PROVE  w(k, x, y).tnums = k.tnums /\ w(k, x, y).state = k.state
        BY <2>3 DEF IsSlot, SlotFields
    <2> HIDE DEF w
    <2>4. \A c \in Slots : /\ IsSlot(conn'[c])
                           /\ conn'[c].tnums = conn[c].tnums
                           /\ conn'[c].state = conn[c].state
        BY <1>0, <2>1, <2>2, <2>3
    <2>5. Shape'
        BY <1>0, <2>1, <2>4 DEF Shape
    <2> QED  BY <2>1, <2>4, <2>5 DEF Keeps
<1>10. CASE \/ StartDrain \/ Poll \/ AcceptDrop \/ AcceptDone \/ AcceptError \/ EventsDone
            \/ Connect \/ Usr1
            \/ \E c \in Slots : \E s, event : Client(c, s, event)
    BY <1>2, <1>10 DEF StartDrain, Poll, AcceptDrop, AcceptDone, AcceptError, EventsDone,
                       Connect, Usr1, Client
<1>11. CASE UNCHANGED vars
    BY <1>2, <1>11 DEF vars
<1>12. ASSUME NEW c \in Slots,
              ClientSend(c) \/ ClientShut(c) \/ ClientGone(c) \/ ClientRead(c)
       PROVE  \E s, event : Client(c, s, event)
    BY <1>12 DEF ClientSend, ClientShut, ClientGone, ClientRead
<1> QED
    BY <1>3, <1>4, <1>5, <1>7, <1>8, <1>9, <1>10, <1>11, <1>12 DEF Next, Loop, World

LEMMA BalanceInit == Init => BalanceInv
<1> SUFFICES ASSUME Init PROVE BalanceInv
    OBVIOUS
<1>1. Table(entry) /\ \A r \in Rules : entry[r].num_sending = 0
    BY DEF Init, Table, IsEntry, newEntry
<1>2. \A c \in Slots : IsSlot(conn[c]) /\ conn[c].tnums = {}
    BY NewSlot DEF Init
<1>3. conn = [c \in Slots |-> conn[c]]
    BY DEF Init
<1>4. SendersBalance
    BY <1>1, <1>2, FS_EmptySet DEF SendersBalance
<1> QED  BY <1>1, <1>2, <1>3, <1>4 DEF BalanceInv, Shape

(* Whatever the clients ask and however their connections end, each rule's *)
(* num_sending is the number of connections that hold the rule, so that a  *)
(* share is computed for the senders there are (throttle.rs).              *)
THEOREM SendersAlwaysBalance == Spec => []SendersBalance
<1>1. Init => BalanceInv
    BY BalanceInit
<1>2. BalanceInv /\ [Next]_vars => BalanceInv'
    BY BalanceStep
<1>3. BalanceInv => SendersBalance
    BY DEF BalanceInv
<1> QED  BY <1>1, <1>2, <1>3, PTL DEF Spec

-----------------------------------------------------------------------------
(* The poll: interest, events and pauses.                                  *)

(* The least of three numbers, and a clock that is advanced up to its      *)
(* bound.                                                                  *)
LEMMA MinOfThree ==
    ASSUME NEW a \in Int, NEW b \in Int, NEW c \in Int
    PROVE  /\ Min({a, b, c}) \in {a, b, c}
           /\ Min({a, b, c}) <= a /\ Min({a, b, c}) <= b /\ Min({a, b, c}) <= c
<1>1. \E x \in {a, b, c} : \A y \in {a, b, c} : x <= y
  OBVIOUS
<1> QED BY <1>1 DEF Min

LEMMA Later ==
    ASSUME NEW e \in Nat, NEW m \in Nat, e <= m
    PROVE  Min({e + 1, m}) \in Nat /\ e <= Min({e + 1, m}) /\ Min({e + 1, m}) <= m
<1>1. PICK z \in Int : z = e + 1
  OBVIOUS
<1>2. m \in Int
  OBVIOUS
<1>3. Min({z, m}) = IF z <= m THEN z ELSE m
  BY <1>2, MinMax
<1> QED BY <1>1, <1>3

(* A share is what one of the rules gives, and no more than any of them.   *)
LEMMA Share ==
    ASSUME NEW e, Table(e), NEW T \in SUBSET Rules
    PROVE  /\ fair_share_for(e, T) \in Int
           /\ T # {} => \E q \in T : fair_share_for(e, T) = MaxLimit[q] \div Max({e[q].num_sending, 1})
           /\ \A r \in T : fair_share_for(e, T) <= MaxLimit[r]
<1> DEFINE part(r) == MaxLimit[r] \div Max({e[r].num_sending, 1})
           S == {part(r) : r \in T}
<1>1. ASSUME NEW r \in Rules PROVE part(r) \in Nat /\ part(r) <= MaxLimit[r]
  <2>1. MaxLimit[r] \in Nat /\ e[r].num_sending \in Int
    BY ThrottleConfig DEF Table, IsEntry
  <2>2. PICK m \in Nat \ {0} : Max({e[r].num_sending, 1}) = m
    BY <2>1, MinMax
  <2>3. \A x \in Nat, y \in Nat \ {0} : x \div y \in Nat /\ x \div y <= x
    OBVIOUS
  <2> QED BY <2>1, <2>2, <2>3
<1>2. CASE T = {}
  BY <1>2 DEF fair_share_for, THROTTLE_NOLIMIT
<1>3. CASE T # {}
  <2>1. S \in SUBSET Nat /\ S # {}
    BY <1>1, <1>3
  <2>2. fair_share_for(e, T) = Min(S)
    BY <1>3 DEF fair_share_for
  <2> HIDE DEF part
  <2>3. Min(S) \in S /\ \A y \in S : Min(S) <= y
    BY <2>1, NatSetMin
  <2>4. PICK q \in T : fair_share_for(e, T) = part(q)
    BY <2>2, <2>3
  <2>5. \A r \in T : fair_share_for(e, T) <= part(r)
    BY <2>2, <2>3
  <2>6. ASSUME NEW r \in T PROVE fair_share_for(e, T) <= MaxLimit[r]
    <3>1. part(r) \in Nat /\ part(r) <= MaxLimit[r] /\ part(q) \in Nat /\ MaxLimit[r] \in Nat
      BY <1>1, ThrottleConfig
    <3> QED BY <2>4, <2>5, <3>1
  <2>7. part(q) \in Int
    BY <1>1
  <2> QED BY <1>3, <2>4, <2>6, <2>7 DEF part
<1> QED BY <1>2, <1>3

-----------------------------------------------------------------------------
(* The states of a slot, the interests of a socket and its fields.         *)
StateNames == {"Free", "Reading", "Sending", "Pausing", "Lingering"}
Interests == {"none", "READABLE", "WRITABLE"}
SockFields == {"interest", "ready", "request", "inbox", "fin", "gone", "space"}

IsSock(s) == s = [f \in SockFields |-> s[f]]

(* The types of a slot and of a socket.                                    *)
SlotTyped(k) ==
    /\ IsSlot(k) /\ k.state \in StateNames
    /\ k.read_idx \in 0..READ_BUF_SIZE
    /\ k.header_len \in Nat /\ k.response_len \in Nat
    /\ k.bytes_sent \in Nat /\ k.bytes_sent <= k.response_len
    /\ k.max_limit \in Int /\ k.body_bytes \in Nat
    /\ k.elapsed \in Nat /\ k.elapsed <= MaxElapsed

SockTyped(s) ==
    /\ IsSock(s) /\ s.interest \in Interests /\ s.ready \in BOOLEAN
    /\ s.inbox \in Nat /\ s.space \in Nat /\ s.gone \in BOOLEAN /\ s.fin \in BOOLEAN

(* The values the actions use, and the bounds.                             *)
LEMMA Names ==
    /\ {"Free", "Reading", "Sending", "Pausing", "Lingering"} \subseteq StateNames
    /\ {"none", "READABLE", "WRITABLE"} \subseteq Interests
  BY DEF StateNames, Interests

LEMMA Bounds ==
    MaxElapsed \in Nat /\ READ_BUF_SIZE \in Nat \ {0} /\ SendSpace \in Nat \ {0}
  BY EventLoopConfig

(* A slot and a socket as they start ...                                   *)
LEMMA FreshSlot ==
    ASSUME NEW st \in StateNames
    PROVE  SlotTyped(newSlot(st)) /\ newSlot(st).pause = None
<1>1. IsSlot(newSlot(st)) /\ newSlot(st).state = st
  BY NewSlot
<1> DEFINE w == newSlot(st)
<1>2. /\ w.read_idx = 0 /\ w.header_len = 0 /\ w.response_len = 0 /\ w.bytes_sent = 0
      /\ w.max_limit = -1 /\ w.body_bytes = 0 /\ w.elapsed = 0 /\ w.pause = None
  BY DEF newSlot, THROTTLE_NOLIMIT
<1> HIDE DEF w
<1>3. IsSlot(w) /\ w.state = st
  BY <1>1 DEF w
<1>4. SlotTyped(w)
  BY <1>2, <1>3, Bounds DEF SlotTyped
<1> QED BY <1>2, <1>4 DEF w

LEMMA FreshSock ==
    SockTyped(noSocket) /\ noSocket.interest = "none" /\ noSocket.ready = FALSE
<1>1. IsSock(noSocket)
  BY DEF noSocket, IsSock, SockFields
<1> QED BY <1>1, Names DEF SockTyped, noSocket

(* ... and a slot that is given a response.                                *)
LEMMA SendingTyped ==
    ASSUME NEW k, SlotTyped(k), NEW response \in Response, NEW T, NEW limit \in Int
    PROVE  /\ SlotTyped(sending(k, response, T, limit))
           /\ sending(k, response, T, limit).pause = k.pause
           /\ sending(k, response, T, limit).max_limit = limit
           /\ sending(k, response, T, limit).body_bytes = 0
           /\ sending(k, response, T, limit).tnums = T
<1>0. IsSlot(k)
  BY DEF SlotTyped
<1> DEFINE h == response.header
           l == response.header + response.body
           w == [k EXCEPT !.state = "Sending", !.header_len = h, !.response_len = l,
                  !.bytes_sent = 0, !.body_bytes = 0, !.elapsed = 0,
                  !.tnums = T, !.max_limit = limit]
<1>1. sending(k, response, T, limit) = w
  BY DEF sending
<1>2. h \in Nat /\ l \in Nat
  BY DEF Response
<1> HIDE DEF h, l
<1>3. IsSlot(w) /\ w.state = "Sending"
  BY <1>0, <1>1, SendingSlot
<1>4. /\ w.read_idx = k.read_idx /\ w.pause = k.pause /\ w.header_len = h /\ w.response_len = l
      /\ w.bytes_sent = 0 /\ w.body_bytes = 0 /\ w.elapsed = 0 /\ w.max_limit = limit /\ w.tnums = T
  BY <1>0 DEF IsSlot, SlotFields
<1> HIDE DEF w
<1>5. h <= l /\ 0 <= l
  BY DEF h, l, Response
<1>6. SlotTyped(w)
  BY <1>2, <1>3, <1>4, <1>5, Names, Bounds DEF SlotTyped
<1> QED BY <1>1, <1>4, <1>6

(* Registering is what raises an event for what is there already;          *)
(* deregistering takes it back.                                            *)
LEMMA RegisterSock ==
    ASSUME NEW s, SockTyped(s), NEW i \in Interests
    PROVE  /\ SockTyped(register(s, i))
           /\ register(s, i).interest = i
           /\ register(s, i).ready <=> IF i = "READABLE" THEN readable(s) ELSE writable(s)
           /\ register(s, i).inbox = s.inbox /\ register(s, i).fin = s.fin
           /\ register(s, i).gone = s.gone /\ register(s, i).space = s.space
           /\ register(s, i).request = s.request
<1> DEFINE on == IF i = "READABLE" THEN readable(s) ELSE writable(s)
<1>1. register(s, i) = [s EXCEPT !.interest = i, !.ready = on]
  BY DEF register
<1>2. on \in BOOLEAN
  BY DEF readable, writable, SockTyped
<1> HIDE DEF on
<1> DEFINE w == [s EXCEPT !.interest = i, !.ready = on]
<1>3. IsSock(w)
  BY DEF SockTyped, IsSock
<1>4. /\ w.interest = i /\ w.ready = on /\ w.inbox = s.inbox /\ w.fin = s.fin
      /\ w.gone = s.gone /\ w.space = s.space /\ w.request = s.request
  BY DEF SockTyped, IsSock, SockFields
<1> HIDE DEF w
<1>5. SockTyped(w)
  BY <1>2, <1>3, <1>4 DEF SockTyped
<1>6. register(s, i) = w
  BY <1>1 DEF w
<1>7. w.ready <=> on
  BY <1>4
<1> QED BY <1>4, <1>5, <1>6, <1>7 DEF on

LEMMA DeregisterSock ==
    ASSUME NEW s, SockTyped(s)
    PROVE  /\ SockTyped(deregister(s))
           /\ deregister(s).interest = "none" /\ deregister(s).ready = FALSE
<1>1. IsSock(deregister(s))
  BY DEF SockTyped, IsSock, deregister
<1>2. /\ deregister(s).interest = "none" /\ deregister(s).ready = FALSE
      /\ deregister(s).inbox = s.inbox /\ deregister(s).fin = s.fin
      /\ deregister(s).gone = s.gone /\ deregister(s).space = s.space
  BY DEF SockTyped, IsSock, SockFields, deregister
<1> QED BY <1>1, <1>2, Names DEF SockTyped

-----------------------------------------------------------------------------
(* A slot and its socket, given whether an event of the batch, or a pause  *)
(* that is over, is still to be handled for them.                          *)
Fits(k, s, batched, resuming) ==
    /\ k.state \in {"Reading", "Lingering"} <=> s.interest = "READABLE"
    /\ k.state = "Sending" <=> s.interest = "WRITABLE"
    /\ k.state = "Pausing" <=> k.pause # None
    /\ s.ready => s.interest # "none"
    /\ batched => k.state \in {"Reading", "Sending", "Lingering"}
    /\ resuming => k.state = "Pausing"
    /\ s.ready \/ batched \/
         /\ ~(k.state = "Sending" /\ writable(s))
         /\ ~(k.state = "Lingering" /\ readable(s))
         /\ ~(k.state = "Reading" /\ k.read_idx < READ_BUF_SIZE /\ (s.inbox > 0 \/ s.gone))

(* A slot and its socket have their types, and who reads has a request to  *)
(* read.                                                                   *)
Sane(k, s) ==
    /\ SlotTyped(k) /\ SockTyped(s)
    /\ k.state = "Reading" => s.request \in Requests

(* Slot c has an event in the batch that is handled, or is among the       *)
(* pauses that are resumed.                                                *)
Batched(c) == phase \in {"accept", "events"} /\ c \in todo
Resuming(c) == phase = "resume" /\ c \in todo

(* The variables are functions on the slots.                               *)
Frame ==
    /\ conn = [c \in Slots |-> conn[c]] /\ sock = [c \in Slots |-> sock[c]]
    /\ todo \subseteq Slots

(* The inductive invariant.                                                *)
WakeInv ==
    /\ BalanceInv /\ Frame
    /\ \A c \in Slots : Sane(conn[c], sock[c]) /\ Fits(conn[c], sock[c], Batched(c), Resuming(c))

(* What a handler leaves behind.                                           *)
Settled(c) == Sane(conn'[c], sock'[c]) /\ Fits(conn'[c], sock'[c], FALSE, FALSE)

(* Only slot c and its socket change.                                      *)
Alone(c) ==
    /\ conn' = [d \in Slots |-> conn'[d]] /\ sock' = [d \in Slots |-> sock'[d]]
    /\ \A d \in Slots \ {c} : conn'[d] = conn[d] /\ sock'[d] = sock[d]

(* An update of both changes them alone; so does closing.                  *)
LEMMA Replaced ==
    ASSUME Frame, NEW c \in Slots, NEW k, NEW s,
           conn' = [conn EXCEPT ![c] = k], sock' = [sock EXCEPT ![c] = s]
    PROVE  Alone(c) /\ conn'[c] = k /\ sock'[c] = s
  BY DEF Frame, Alone

LEMMA Closes ==
    ASSUME Frame, NEW c \in Slots, close_connection(c)
    PROVE  Alone(c) /\ Settled(c) /\ conn'[c] = newSlot("Free")
<1> DEFINE k == newSlot("Free")
           s == noSocket
<1>1. conn' = [conn EXCEPT ![c] = k] /\ sock' = [sock EXCEPT ![c] = s]
  BY DEF close_connection
<1>2. /\ SlotTyped(k) /\ k.pause = None /\ k.state = "Free"
      /\ SockTyped(s) /\ s.interest = "none" /\ s.ready = FALSE
  BY FreshSlot, FreshSock, NewSlot, Names
<1> HIDE DEF k, s
<1>3. Alone(c) /\ conn'[c] = k /\ sock'[c] = s
  BY <1>1, Replaced
<1>4. Settled(c)
  BY <1>2, <1>3 DEF Settled, Sane, Fits
<1> QED BY <1>3, <1>4 DEF k

(* A write adds to the body what it sends past the header, and its limit   *)
(* is a number.                                                            *)
LEMMA BodyGrows ==
    ASSUME NEW k, SlotTyped(k), NEW n \in Nat
    PROVE  LET grown == body_of(k, k.bytes_sent + n) - body_of(k, k.bytes_sent)
           IN  /\ grown \in Nat
               /\ grown <= Max({n - Max({k.header_len - k.bytes_sent, 0}), 0})
<1>1. k.bytes_sent \in Nat /\ k.header_len \in Nat
  BY DEF SlotTyped
<1>2. \A x \in Int : Max({x, 0}) = IF x >= 0 THEN x ELSE 0
  BY MinMax
<1> DEFINE b == k.bytes_sent
           h == k.header_len
           header == Max({h - b, 0})
<1>3. /\ b \in Nat /\ h \in Nat
      /\ body_of(k, b + n) = (IF b + n - h >= 0 THEN b + n - h ELSE 0)
      /\ body_of(k, b) = (IF b - h >= 0 THEN b - h ELSE 0)
      /\ header = (IF h - b >= 0 THEN h - b ELSE 0)
  BY <1>1, <1>2 DEF body_of
<1> HIDE DEF b, h, header
<1>4. Max({n - header, 0}) = (IF n - header >= 0 THEN n - header ELSE 0)
  BY <1>2, <1>3
<1>5. /\ body_of(k, b + n) - body_of(k, b) \in Nat
      /\ body_of(k, b + n) - body_of(k, b) <= Max({n - header, 0})
  BY <1>3, <1>4
<1> QED BY <1>5 DEF b, h, header

LEMMA LimitIsNat ==
    ASSUME NEW k, SlotTyped(k)
    PROVE  write_limit(k) \in Nat
<1>1. \A x \in Int : Max({x, 0}) \in Nat
  BY MinMax
<1>2. Max({k.elapsed, 1}) \in Nat
  BY MinMax DEF SlotTyped
<1>3. k.max_limit * Max({k.elapsed, 1}) \in Int
  BY <1>2 DEF SlotTyped
<1>4. k.header_len - k.bytes_sent \in Int /\ k.max_limit * Max({k.elapsed, 1}) - k.body_bytes \in Int
      /\ k.response_len - k.bytes_sent \in Nat
  BY <1>3 DEF SlotTyped
<1>5. Max({k.header_len - k.bytes_sent, 0})
        + Max({k.max_limit * Max({k.elapsed, 1}) - k.body_bytes, 0}) \in Nat
  BY <1>1, <1>4
<1> QED BY <1>4, <1>5 DEF write_limit

(* n more units of the response are out.                                   *)
LEMMA WritesOut ==
    ASSUME Frame, NEW c \in Slots, NEW k, SlotTyped(k), k.pause = None,
           NEW s, SockTyped(s), s.interest = "WRITABLE",
           NEW n \in Nat, n <= k.response_len - k.bytes_sent, n <= s.space, Written(c, k, s, n)
    PROVE  /\ Alone(c) /\ Settled(c)
           /\ conn'[c].tnums = k.tnums /\ conn'[c].max_limit = k.max_limit
           /\ conn'[c].elapsed = k.elapsed
           /\ conn'[c].body_bytes = k.body_bytes + IF k.tnums = {} THEN 0
                  ELSE body_of(k, k.bytes_sent + n) - body_of(k, k.bytes_sent)
<1> DEFINE after == k.bytes_sent + n
           delta == IF k.tnums = {} THEN 0 ELSE body_of(k, k.bytes_sent + n) - body_of(k, k.bytes_sent)
           body == k.body_bytes + delta
           st == IF after >= k.response_len THEN "Lingering" ELSE "Sending"
           i == IF after >= k.response_len THEN "READABLE" ELSE "WRITABLE"
           free == s.space - n
           w == [k EXCEPT !.bytes_sent = after, !.body_bytes = body, !.state = st]
           t == [s EXCEPT !.space = free]
<1>1. conn' = [conn EXCEPT ![c] = w] /\ sock' = [sock EXCEPT ![c] = reregister(t, i)]
  BY DEF Written
<1>2. delta \in Nat
  BY BodyGrows
<1>3. /\ after \in Nat /\ after <= k.response_len /\ body \in Nat /\ free \in Nat
      /\ st \in StateNames /\ i \in Interests
      /\ (st = "Sending" /\ i = "WRITABLE") \/ (st = "Lingering" /\ i = "READABLE")
  <2>1. after \in Nat /\ after <= k.response_len /\ free \in Nat
    BY DEF SlotTyped, SockTyped
  <2>2. body \in Nat
    <3> HIDE DEF delta
    <3> QED BY <1>2 DEF SlotTyped
  <2> QED BY <2>1, <2>2, Names
<1> HIDE DEF after, body, st, i, free
<1>4. SlotTyped(w)
  <2>1. IsSlot(w)
    BY DEF SlotTyped, IsSlot
  <2>2. /\ w.state = st /\ w.read_idx = k.read_idx /\ w.header_len = k.header_len
        /\ w.response_len = k.response_len /\ w.bytes_sent = after /\ w.max_limit = k.max_limit
        /\ w.body_bytes = body /\ w.elapsed = k.elapsed
    BY DEF SlotTyped, IsSlot, SlotFields
  <2> HIDE DEF w
  <2> QED BY <1>3, <2>1, <2>2 DEF SlotTyped
<1>5. /\ w.state = st /\ w.pause = None /\ w.tnums = k.tnums /\ w.max_limit = k.max_limit
      /\ w.elapsed = k.elapsed /\ w.body_bytes = body
  BY DEF SlotTyped, IsSlot, SlotFields
<1>6. /\ SockTyped(t) /\ t.interest = "WRITABLE"
  <2>1. IsSock(t)
    BY DEF SockTyped, IsSock
  <2>2. /\ t.interest = s.interest /\ t.ready = s.ready /\ t.inbox = s.inbox
        /\ t.space = free /\ t.gone = s.gone /\ t.fin = s.fin
    BY DEF SockTyped, IsSock, SockFields
  <2> HIDE DEF t
  <2> QED BY <1>3, <2>1, <2>2 DEF SockTyped
<1> HIDE DEF w, t
<1>7. Alone(c) /\ conn'[c] = w /\ sock'[c] = register(t, i)
  BY <1>1, <1>6, Replaced DEF reregister
<1> DEFINE u == register(t, i)
<1>8. /\ SockTyped(u) /\ u.interest = i
      /\ u.ready <=> IF i = "READABLE" THEN readable(t) ELSE writable(t)
      /\ u.inbox = t.inbox /\ u.fin = t.fin /\ u.gone = t.gone /\ u.space = t.space
  BY <1>3, <1>6, RegisterSock
<1> HIDE DEF u
<1>9. conn'[c] = w /\ sock'[c] = u
  BY <1>7 DEF u
<1>10. Sane(w, u)
  BY <1>3, <1>4, <1>5, <1>8 DEF Sane
<1>11. Fits(w, u, FALSE, FALSE)
  BY <1>3, <1>5, <1>8 DEF Fits, readable, writable
<1> QED BY <1>5, <1>7, <1>9, <1>10, <1>11 DEF Settled, body

(* Sending goes on, lingers, pauses or ends; k is the slot as the caller   *)
(* leaves it.                                                              *)
LEMMA SendSettles ==
    ASSUME Frame, NEW c \in Slots, NEW k, SlotTyped(k), k.state = "Sending", k.pause = None,
           NEW s, SockTyped(s), s.interest = "WRITABLE", handle_send(c, k, s)
    PROVE  Alone(c) /\ Settled(c)
<1> DEFINE left == k.response_len - k.bytes_sent
           limit == write_limit(k)
<1>1. left \in Nat /\ limit \in Nat /\ s.space \in Nat
  BY LimitIsNat DEF SlotTyped, SockTyped
<1>2. CASE Written(c, k, s, 0)
  BY <1>1, <1>2, WritesOut
<1>3. CASE limit > 0 /\ left > 0 /\ Written(c, k, s, Min({limit, left, s.space}))
  <2> DEFINE n == Min({limit, left, s.space})
  <2>1. n \in {limit, left, s.space} /\ n <= left /\ n <= s.space
    <3> DEFINE sp == s.space
    <3>1. limit \in Int /\ left \in Int /\ sp \in Int
      BY <1>1
    <3> HIDE DEF limit, left, sp
    <3>2. /\ Min({limit, left, sp}) \in {limit, left, sp}
          /\ Min({limit, left, sp}) <= left /\ Min({limit, left, sp}) <= sp
      BY <3>1, MinOfThree
    <3> QED BY <3>2 DEF sp
  <2>2. n \in Nat /\ Written(c, k, s, n)
    BY <1>1, <1>3, <2>1
  <2> HIDE DEF n
  <2> QED BY <2>1, <2>2, WritesOut
<1>4. CASE conn' = [conn EXCEPT ![c] = [k EXCEPT !.state = "Pausing", !.pause = 1]]
           /\ sock' = [sock EXCEPT ![c] = deregister(s)]
  <2> DEFINE w == [k EXCEPT !.state = "Pausing", !.pause = 1]
             u == deregister(s)
  <2>1. IsSlot(w)
    BY DEF SlotTyped, IsSlot
  <2>2. /\ w.state = "Pausing" /\ w.pause = 1 /\ w.read_idx = k.read_idx /\ w.header_len = k.header_len
        /\ w.response_len = k.response_len /\ w.bytes_sent = k.bytes_sent /\ w.max_limit = k.max_limit
        /\ w.body_bytes = k.body_bytes /\ w.elapsed = k.elapsed
    BY DEF SlotTyped, IsSlot, SlotFields
  <2>3. SockTyped(u) /\ u.interest = "none" /\ u.ready = FALSE
    BY DeregisterSock
  <2> HIDE DEF w, u
  <2>4. SlotTyped(w)
    BY <2>1, <2>2, Names DEF SlotTyped
  <2>5. Alone(c) /\ conn'[c] = w /\ sock'[c] = u
    BY <1>4, Replaced DEF w, u
  <2>6. Settled(c)
    BY <2>2, <2>3, <2>4, <2>5, SMTT(30) DEF Settled, Sane, Fits, None
  <2> QED BY <2>5, <2>6
<1>5. CASE close_connection(c)
  BY <1>5, Closes
<1>6. CASE ~writable(s) /\ conn' = [conn EXCEPT ![c] = k] /\ sock' = [sock EXCEPT ![c] = s]
  <2>1. Alone(c) /\ conn'[c] = k /\ sock'[c] = s
    BY <1>6, Replaced
  <2>2. Settled(c)
    BY <1>6, <2>1 DEF Settled, Sane, Fits
  <2> QED BY <2>1, <2>2
<1> QED BY <1>2, <1>3, <1>4, <1>5, <1>6 DEF handle_send
====
