----------------------------- MODULE ShadowProofs -----------------------------
(***************************************************************************)
(* The circuit breaker on its own, for any requests and thresholds: its    *)
(* fields agree, an open one recovers, and without clients that leave a    *)
(* half-open one has a probe.                                              *)
(*                                                                         *)
(* Then two of them under shadow mode, which implements the plain proxy;   *)
(* its claims of the shadow's breaker are always held by a task, and every *)
(* admitted call has one outcome, for any calls, messages and caps.        *)
(***************************************************************************)
EXTENDS Breaker, Shadow, TLAPS

(* What the methods of circuit.rs do to a breaker whose fields agree.      *)
Agree(b) ==
    /\ b \in BreakerValue
    /\ b.probe_in_flight <=> b.state = "HalfOpen"
    /\ b.opened_at = "None" <=> b.state = "Closed"
    /\ b.state = "HalfOpen" => b.opened_at = "cooled"

Requested == request \in [Requests -> {"none", "plain", "probe"}]

Inv == Agree(breaker) /\ Requested

(* Counting an outcome yields a window again.                              *)
LEMMA CountedType ==
    ASSUME NEW w \in Window, NEW success \in BOOLEAN
    PROVE  counted(w, success) \in Window
  <1> DEFINE base == IF w.expired THEN freshWindow ELSE w
  <1>1. base.errors \in Nat /\ base.total \in Nat
    BY DEF freshWindow, Window
  <1> QED
    BY <1>1 DEF counted, Window

(* trip() and close() leave agreeing fields once the slot is released.     *)
LEMMA TripCloseAgree ==
    ASSUME NEW b \in BreakerValue, ~b.probe_in_flight
    PROVE  Agree(trip(b)) /\ Agree(close(b))
  BY DEF Agree, trip, close, freshWindow, BreakerValue, Window, States, OpenedAt

(* record() keeps the fields in agreement, whoever calls it and when.      *)
LEMMA RecordAgrees ==
    ASSUME NEW b, Agree(b), NEW success \in BOOLEAN
    PROVE  Agree(record(b, success))
  <1> DEFINE released == [b EXCEPT !.probe_in_flight = FALSE]
             w == counted(b.window, success)
  <1>1. released \in BreakerValue /\ ~released.probe_in_flight
    BY DEF Agree, BreakerValue
  <1>2. Agree(trip(released)) /\ Agree(close(released))
    BY <1>1, TripCloseAgree
  <1>3. CASE b.state = "HalfOpen"
    BY <1>2, <1>3 DEF record
  <1>4. CASE b.state # "HalfOpen"
    <2>1. Agree(trip(b))
      BY <1>4, TripCloseAgree DEF Agree
    <2>2. w \in Window
      BY CountedType DEF Agree, BreakerValue
    <2>3. Agree([b EXCEPT !.window = w])
      BY <2>2 DEF Agree, BreakerValue
    <2> QED
      BY <1>4, <2>1, <2>3 DEF record
  <1> QED
    BY <1>3, <1>4

(* So do release_probe, try_admit and the clock.                           *)
LEMMA OthersAgree ==
    ASSUME NEW b, Agree(b)
    PROVE  /\ Agree(release_probe(b))
           /\ Agree(try_admit(b))
           /\ b.opened_at = "fresh" => Agree(cool(b))
           /\ Agree(expire(b))
  <1>1. Agree(release_probe(b))
    <2> DEFINE released == [b EXCEPT !.probe_in_flight = FALSE]
    <2>1. released \in BreakerValue /\ ~released.probe_in_flight
      BY DEF Agree, BreakerValue
    <2> QED
      BY <2>1, TripCloseAgree DEF release_probe
  <1>2. Agree(try_admit(b))
    BY DEF Agree, try_admit, admits, BreakerValue, States
  <1>3. b.opened_at = "fresh" => Agree(cool(b))
    BY DEF Agree, cool, BreakerValue, OpenedAt
  <1>4. Agree(expire(b))
    BY DEF Agree, expire, BreakerValue, Window
  <1> QED
    BY <1>1, <1>2, <1>3, <1>4

(* No sequence of admissions, outcomes, releases, cancellations and clock  *)
(* ticks makes the fields of the breaker disagree.                         *)
THEOREM FieldsAlwaysAgree == Spec => [](TypeOK /\ FieldsAgree)
  <1>1. Init => Inv
    BY DEF Init, Inv, Agree, Requested, newBreaker, freshWindow,
           BreakerValue, Window, States, OpenedAt
  <1>2. Inv /\ [Next]_vars => Inv'
    <2> SUFFICES ASSUME Inv, [Next]_vars
                 PROVE  Inv'
      OBVIOUS
    <2>1. Agree(breaker) /\ Requested
      BY DEF Inv
    <2>2. ASSUME NEW r \in Requests, Admit(r) PROVE Agree(breaker') /\ Requested'
      BY <2>1, <2>2, OthersAgree DEF Admit, Requested
    <2>3. ASSUME NEW r \in Requests, NEW success \in BOOLEAN, Finish(r, success)
          PROVE  Agree(breaker') /\ Requested'
      BY <2>1, <2>3, RecordAgrees DEF Finish, Requested
    <2>4. ASSUME NEW r \in Requests, Unmirrored(r)
          PROVE  Agree(breaker') /\ Requested'
      BY <2>1, <2>4, OthersAgree DEF Unmirrored, Requested
    <2>5. ASSUME NEW r \in Requests, Cancel(r)
          PROVE  Agree(breaker') /\ Requested'
      BY <2>1, <2>5 DEF Cancel, Requested
    <2>6. CASE CoolOff
      BY <2>1, <2>6, OthersAgree DEF CoolOff, Requested, Inv
    <2>7. CASE WindowExpires
      BY <2>1, <2>7, OthersAgree DEF WindowExpires, Requested, Inv
    <2>8. CASE UNCHANGED vars
      BY <2>1, <2>8 DEF vars, Requested, Inv
    <2> QED
      BY <2>2, <2>3, <2>4, <2>5, <2>6, <2>7, <2>8 DEF Next, Resolving, Inv
  <1>3. Inv => TypeOK /\ FieldsAgree
    BY DEF Inv, Agree, Requested, TypeOK, FieldsAgree
  <1> QED
    BY <1>1, <1>2, <1>3, PTL DEF Spec

(* An open breaker that no request is using can be probed once the         *)
(* cool-off is over: because the fields agree, an Open breaker has a trip  *)
(* time and a free slot.                                                   *)
THEOREM OpenBreakerRecovers == Spec => []IdleOpenBreakerRecovers
  <1>1. TypeOK /\ FieldsAgree => IdleOpenBreakerRecovers
    BY DEF TypeOK, FieldsAgree, IdleOpenBreakerRecovers, can_route,
           BreakerValue, OpenedAt
  <1> QED
    BY <1>1, FieldsAlwaysAgree, PTL

-----------------------------------------------------------------------------

Below(w) == w \in Window /\ w.errors <= w.total /\ ~overThreshold(w)

(* An empty window is below the threshold, whatever the threshold.         *)
LEMMA FreshWindowBelow == Below(freshWindow)
  BY BreakerConfig DEF Below, freshWindow, Window, overThreshold

(* record() keeps a window only after finding it below the threshold.      *)
LEMMA RecordKeepsBelow ==
    ASSUME NEW b \in BreakerValue, Below(b.window), NEW success \in BOOLEAN
    PROVE  Below(record(b, success).window)
  <1> DEFINE w == counted(b.window, success)
             base == IF b.window.expired THEN freshWindow ELSE b.window
  <1>1. w \in Window
    BY CountedType DEF BreakerValue
  <1>2. base \in Window /\ base.errors <= base.total
    BY FreshWindowBelow DEF Below
  <1>3. w.errors <= w.total
    BY <1>2 DEF counted, Window
  <1>4. \A c \in BreakerValue : Below(trip(c).window) /\ Below(close(c).window)
    BY FreshWindowBelow DEF trip, close, BreakerValue
  <1>5. [b EXCEPT !.probe_in_flight = FALSE] \in BreakerValue
    BY DEF BreakerValue
  <1>6. ~overThreshold(w) => Below([b EXCEPT !.window = w].window)
    BY <1>1, <1>3 DEF Below, BreakerValue
  <1> QED
    BY <1>4, <1>5, <1>6 DEF record

(* The outcome that takes the error rate over the threshold trips the      *)
(* breaker in the same call: no over-threshold window is ever kept.        *)
THEOREM WindowStaysBelow == Spec => []KeptWindowIsBelowThreshold
  <1> DEFINE W == Below(breaker.window)
  <1>1. Init => W
    BY FreshWindowBelow DEF Init, newBreaker
  <1>2. TypeOK /\ W /\ [Next]_vars => W'
    <2> SUFFICES ASSUME TypeOK, W, [Next]_vars
                 PROVE  W'
      OBVIOUS
    <2>1. breaker \in BreakerValue
      BY DEF TypeOK
    <2>2. ASSUME NEW r \in Requests, Admit(r) PROVE W'
      BY <2>1, <2>2 DEF Admit, try_admit, BreakerValue
    <2>3. ASSUME NEW r \in Requests, NEW success \in BOOLEAN, Finish(r, success)
          PROVE  W'
      BY <2>1, <2>3, RecordKeepsBelow DEF Finish
    <2>4. ASSUME NEW r \in Requests, Unmirrored(r) PROVE W'
      BY <2>1, <2>4, FreshWindowBelow
         DEF Unmirrored, release_probe, trip, BreakerValue
    <2>5. ASSUME NEW r \in Requests, Cancel(r) PROVE W'
      BY <2>5 DEF Cancel
    <2>6. CASE CoolOff
      BY <2>1, <2>6 DEF CoolOff, cool, BreakerValue
    <2>7. CASE WindowExpires
      BY <2>1, <2>7
         DEF WindowExpires, expire, BreakerValue, Window, Below, overThreshold
    <2>8. CASE UNCHANGED vars
      BY <2>8 DEF vars
    <2> QED
      BY <2>2, <2>3, <2>4, <2>5, <2>6, <2>7, <2>8 DEF Next, Resolving
  <1>3. W => KeptWindowIsBelowThreshold
    BY DEF Below, KeptWindowIsBelowThreshold
  <1> QED
    BY <1>1, <1>2, <1>3, FieldsAlwaysAgree, PTL DEF Spec

-----------------------------------------------------------------------------

(* When every admitted request runs to its outcome, a half-open breaker    *)
(* has its probe in flight: HalfOpen is entered only by an admission that  *)
(* becomes the probe, and the probe's own outcome leaves it.               *)
THEOREM HalfOpenIsProbed == PatientSpec => []HalfOpenHasProbe
  <1> DEFINE J == TypeOK /\ HalfOpenHasProbe
  <1>1. Init => J
    BY DEF Init, TypeOK, HalfOpenHasProbe, newBreaker, freshWindow,
           BreakerValue, Window, States, OpenedAt
  <1>2. J /\ [Resolving]_vars => HalfOpenHasProbe'
    <2> SUFFICES ASSUME TypeOK, HalfOpenHasProbe, [Resolving]_vars
                 PROVE  HalfOpenHasProbe'
      OBVIOUS
    <2>1. breaker \in BreakerValue /\ request \in [Requests -> {"none", "plain", "probe"}]
      BY DEF TypeOK
    <2>2. ASSUME NEW r \in Requests, Admit(r) PROVE HalfOpenHasProbe'
      <3>1. CASE breaker.state = "Closed"
        BY <2>1, <2>2, <3>1 DEF Admit, try_admit, admits, HalfOpenHasProbe
      <3>2. CASE breaker.state # "Closed"
        BY <2>1, <2>2, <3>2 DEF Admit, HalfOpenHasProbe
      <3> QED
        BY <3>1, <3>2
    <2>3. ASSUME NEW r \in Requests, NEW success \in BOOLEAN, Finish(r, success)
          PROVE  HalfOpenHasProbe'
      <3>1. record(breaker, success).state # "HalfOpen"
        BY <2>1 DEF record, trip, close, BreakerValue, States
      <3> QED
        BY <2>3, <3>1 DEF Finish, HalfOpenHasProbe
    <2>4. ASSUME NEW r \in Requests, Unmirrored(r) PROVE HalfOpenHasProbe'
      <3>1. release_probe(breaker).state # "HalfOpen"
        BY <2>1 DEF release_probe, trip, BreakerValue, States
      <3> QED
        BY <2>4, <3>1 DEF Unmirrored, HalfOpenHasProbe
    <2>5. CASE CoolOff
      BY <2>1, <2>5 DEF CoolOff, cool, BreakerValue, HalfOpenHasProbe
    <2>6. CASE WindowExpires
      BY <2>1, <2>6 DEF WindowExpires, expire, BreakerValue, HalfOpenHasProbe
    <2>7. CASE UNCHANGED vars
      BY <2>7 DEF vars, HalfOpenHasProbe
    <2> QED
      BY <2>2, <2>3, <2>4, <2>5, <2>6, <2>7 DEF Resolving
  <1>3. PatientSpec => Spec
    <2>1. [Resolving]_vars => [Next]_vars
      BY DEF Next
    <2> QED
      BY <2>1, PTL DEF PatientSpec, Spec
  <1> QED
    BY <1>1, <1>2, <1>3, FieldsAlwaysAgree, PTL DEF PatientSpec

-----------------------------------------------------------------------------
(* Shadow mode.                                                            *)

(* A request with a body of some size.                                     *)
Request == [headers : SUBSET Header, ids : Seq(Header), declared : Nat, size : Nat]

Shape ==
    /\ pc \in [Calls -> Places]
    /\ mirror \in [Calls -> BOOLEAN]
    /\ ask \in [Calls -> Request]
    /\ reply \in [Calls -> [status : {"none", "2xx", "5xx"},
                            headers : SUBSET Header, size : Nat]]
    /\ received = [c \in Calls |-> received[c]]
    /\ given = [c \in Calls |-> given[c]]
    /\ body \in [Calls -> [buf : Nat, tail : Nat, left : Nat]]

(* No unit of the body is lost on the way from the stream to the copy.     *)
holds(b, n) == b.buf + b.tail + b.left = n

Conserved(c) ==
    /\ pc[c] = "reading" => mirror[c] /\ holds(body[c], ask[c].size)
    /\ pc[c] = "ready" =>
          /\ holds(body[c], ask[c].size)
          /\ IF mirror[c] THEN captured(body[c]) ELSE body[c] = unread(ask[c].size)
    /\ pc[c] = "capturing" => mirror[c] /\ holds(body[c], reply[c].size)
    /\ pc[c] = "relaying" =>
          /\ holds(body[c], reply[c].size)
          /\ IF mirror[c] THEN captured(body[c]) ELSE body[c] = unread(reply[c].size)

ShadowInv == Shape /\ \A c \in Calls : Conserved(c)

-----------------------------------------------------------------------------

(* A frame moves units from the stream to the copy and the tail.           *)
LEMMA FrameConserves ==
    ASSUME NEW b \in [buf : Nat, tail : Nat, left : Nat], NEW k \in Nat, k <= b.left,
           ~captured(b)
    PROVE  /\ takeFrame(b, k) \in [buf : Nat, tail : Nat, left : Nat]
           /\ \A n : holds(b, n) => holds(takeFrame(b, k), n)
<1> USE MessagesConfig DEF holds, takeFrame, captured, truncated
<1>1. b.tail = 0
  OBVIOUS
<1>2. CASE b.buf + k <= Cap
  <2>1. takeFrame(b, k) = [buf |-> b.buf + k, tail |-> b.tail, left |-> b.left - k]
    BY <1>2
  <2> QED  BY <2>1
<1>3. CASE ~(b.buf + k <= Cap)
  <2>1. takeFrame(b, k) = [buf |-> Cap, tail |-> b.buf + k - Cap, left |-> b.left - k]
    BY <1>3
  <2> QED  BY <1>1, <1>3, <2>1
<1> QED  BY <1>2, <1>3

(* What was captured is passed on whole.                                   *)
LEMMA ChainedIsWhole ==
    ASSUME NEW b \in [buf : Nat, tail : Nat, left : Nat], NEW n \in Nat,
           holds(b, n), captured(b)
    PROVE  chained(b) = n
BY DEF holds, captured, truncated, chained

(* What clients send are requests.                                         *)
LEMMA AsksTyped ==
    ASSUME NEW a \in Asks PROVE a \in Request
<1>1. a = [headers |-> a.headers, ids |-> a.ids, declared |-> a.declared, size |-> a.size]
      /\ a.headers \in SUBSET Header /\ a.ids \in Seq(RequestId)
      /\ a.declared \in Nat /\ a.size \in Nat
  BY ShadowConfig DEF Ask
<1>2. a.ids \in Seq(Header)
  BY <1>1, MessagesConfig
<1> QED  BY <1>1, <1>2 DEF Request

LEMMA UnreadHolds ==
    ASSUME NEW n \in Nat
    PROVE  unread(n) \in [buf : Nat, tail : Nat, left : Nat] /\ holds(unread(n), n)
BY DEF unread, holds

-----------------------------------------------------------------------------

stage == [c \in Calls |-> stageOf(pc[c])]

(* A call that moves moves in the plain proxy as well.                     *)
LEMMA StageMoves ==
    ASSUME Shape, NEW c \in Calls, NEW q \in Places, goto(c, q)
    PROVE  /\ pc' \in [Calls -> Places] /\ pc'[c] = q
           /\ \A d \in Calls : d # c => pc'[d] = pc[d]
           /\ stage' = [stage EXCEPT ![c] = stageOf(q)]
           /\ stage[c] = stageOf(pc[c])
BY DEF Shape, goto, stage

LEMMA BadGatewaySimulated ==
    ASSUME ShadowInv, NEW c \in Calls, BadGateway(c),
           pc[c] \in {"reading", "ready", "waiting", "capturing"}
    PROVE  ShadowInv' /\ P!PlainNext
<1>1. goto(c, "done") /\ UNCHANGED <<ask, received, reply, body, mirror>>
      /\ given' = [given EXCEPT ![c] = failure("502")]
  BY DEF BadGateway, taskVars
<1>2. pc' \in [Calls -> Places] /\ pc'[c] = "done"
      /\ (\A d \in Calls : d # c => pc'[d] = pc[d])
      /\ stage' = [stage EXCEPT ![c] = "done"] /\ stage[c] = stageOf(pc[c])
  BY <1>1, StageMoves DEF ShadowInv, Places, stageOf
<1>3. P!Fail(c)
  <2>1. failure("502") = P!failure("502")
    BY DEF failure, P!failure
  <2> QED  BY <1>1, <1>2, <2>1 DEF P!Fail, stage, stageOf
<1>4. ShadowInv'
  BY <1>1, <1>2 DEF ShadowInv, Shape, Conserved
<1> QED  BY <1>3, <1>4 DEF P!PlainNext

(* A step of a handler is a step of the plain proxy or changes nothing a   *)
(* client or the primary sees.                                             *)
LEMMA HandlerSimulated ==
    ASSUME ShadowInv, NEW c \in Calls, Handler(c)
    PROVE  ShadowInv' /\ [P!PlainNext]_(P!plainVars)
<1> USE DEF taskVars
<1>1. ASSUME NEW up \in SUBSET Backends, Unavailable(c, up)
      PROVE  ShadowInv' /\ P!PlainNext
  <2>1. pc[c] = "idle" /\ goto(c, "done") /\ UNCHANGED <<ask, received, reply, body, mirror>>
        /\ given' = [given EXCEPT ![c] = failure("503")]
    BY <1>1 DEF Unavailable
  <2>2. pc' \in [Calls -> Places] /\ pc'[c] = "done"
        /\ (\A d \in Calls : d # c => pc'[d] = pc[d])
        /\ stage' = [stage EXCEPT ![c] = "done"] /\ stage[c] = stageOf(pc[c])
    BY <2>1, StageMoves DEF ShadowInv, Places, stageOf
  <2>3. P!Fail(c)
    BY <2>1, <2>2 DEF P!Fail, stage, stageOf, failure, P!failure
  <2>4. ShadowInv'
    BY <2>1, <2>2 DEF ShadowInv, Shape, Conserved
  <2> QED  BY <2>3, <2>4 DEF P!PlainNext
<1>2. ASSUME NEW up \in SUBSET Backends, NEW a \in Asks, Arrive(c, a, up)
      PROVE  ShadowInv' /\ P!PlainNext
  <2> DEFINE q == IF mirror'[c] THEN "reading" ELSE "ready"
  <2>1. pc[c] = "idle" /\ goto(c, q) /\ UNCHANGED <<received, reply, given>>
        /\ ask' = [ask EXCEPT ![c] = a]
        /\ body' = [body EXCEPT ![c] = unread(a.size)]
        /\ mirror' = [mirror EXCEPT ![c] = "shadow" \in up /\ can_route(shadow)]
    BY <1>2 DEF Arrive
  <2>2. pc' \in [Calls -> Places] /\ pc'[c] = q
        /\ (\A d \in Calls : d # c => pc'[d] = pc[d])
        /\ stage' = [stage EXCEPT ![c] = "asked"] /\ stage[c] = stageOf(pc[c])
    BY <2>1, StageMoves DEF ShadowInv, Places, stageOf
  <2>3. P!Receive(c)
    BY <2>1, <2>2 DEF P!Receive, stage, stageOf
  <2>4. a \in Request /\ a.size \in Nat
    BY AsksTyped DEF Request
  <2>5. unread(a.size) \in [buf : Nat, tail : Nat, left : Nat]
        /\ holds(unread(a.size), a.size)
    BY <2>4, UnreadHolds
  <2>6. mirror' \in [Calls -> BOOLEAN]
    BY <2>1 DEF ShadowInv, Shape, can_route
  <2>7. Shape'
    BY <2>1, <2>2, <2>4, <2>5, <2>6 DEF ShadowInv, Shape
  <2>8. ASSUME NEW d \in Calls PROVE Conserved(d)'
    <3>1. CASE d = c
      BY <2>1, <2>2, <2>5, <2>6, <3>1 DEF ShadowInv, Shape, Conserved
    <3>2. CASE d # c
      BY <2>1, <2>2, <3>2 DEF ShadowInv, Shape, Conserved
    <3> QED  BY <3>1, <3>2
  <2> QED  BY <2>3, <2>7, <2>8 DEF P!PlainNext, ShadowInv
<1>3. ASSUME NEW up \in SUBSET Backends, Forward(c, up)
      PROVE  ShadowInv' /\ P!PlainNext
  <2>1. pc[c] = "ready" /\ goto(c, "waiting")
        /\ UNCHANGED <<ask, reply, given, body, mirror>>
    BY <1>3 DEF Forward
  <2>2. pc' \in [Calls -> Places] /\ pc'[c] = "waiting"
        /\ (\A d \in Calls : d # c => pc'[d] = pc[d])
        /\ stage' = [stage EXCEPT ![c] = "sent"] /\ stage[c] = stageOf(pc[c])
    BY <2>1, StageMoves DEF ShadowInv, Places, stageOf
  <2>3. (IF mirror[c] THEN chained(body[c]) ELSE body[c].left) = ask[c].size
    <3>1. ask[c].size \in Nat /\ body[c] \in [buf : Nat, tail : Nat, left : Nat]
      BY DEF ShadowInv, Shape, Request
    <3> QED  BY <2>1, <3>1, ChainedIsWhole DEF ShadowInv, Shape, Conserved, unread
  <2>4. received' = [received EXCEPT ![c] = P!forwarded(ask[c])]
    <3>1. received' = [received EXCEPT ![c] =
             [headers  |-> requestHeaders(ask[c]),
              declared |-> ask[c].declared,
              size     |-> ask[c].size]]
      BY <1>3, <2>3 DEF Forward
    <3>2. requestHeaders(ask[c]) = P!requestHeaders(ask[c])
      BY DEF requestHeaders, P!requestHeaders, endToEnd, P!endToEnd, request_id,
             P!request_id, text, P!text
    <3> QED  BY <3>1, <3>2 DEF P!forwarded
  <2>5. P!Send(c)
    BY <2>1, <2>2, <2>4 DEF P!Send, stage, stageOf
  <2>6. ShadowInv'
    BY <2>1, <2>2, <2>4 DEF ShadowInv, Shape, Conserved
  <2> QED  BY <2>5, <2>6 DEF P!PlainNext
<1>4. ASSUME NEW up \in SUBSET Backends, NotRoutable(c, up)
      PROVE  ShadowInv' /\ P!PlainNext
  BY <1>4, BadGatewaySimulated DEF NotRoutable
<1>5. ASSUME NEW k \in 1 .. body[c].left, ReadFrame(c, k) \/ CaptureFrame(c, k)
      PROVE  ShadowInv' /\ UNCHANGED P!plainVars
  <2>1. UNCHANGED <<pc, ask, received, reply, given, mirror>>
        /\ body' = [body EXCEPT ![c] = takeFrame(body[c], k)]
        /\ ~captured(body[c])
        /\ k <= body[c].left
        /\ pc[c] \in {"reading", "capturing"}
    BY <1>5 DEF ReadFrame, CaptureFrame
  <2>2. body[c] \in [buf : Nat, tail : Nat, left : Nat] /\ k \in Nat
    BY DEF ShadowInv, Shape
  <2>3. takeFrame(body[c], k) \in [buf : Nat, tail : Nat, left : Nat]
        /\ \A n : holds(body[c], n) => holds(takeFrame(body[c], k), n)
    BY <2>1, <2>2, FrameConserves
  <2>4. Shape'
    BY <2>1, <2>3 DEF ShadowInv, Shape
  <2>5. ASSUME NEW d \in Calls PROVE Conserved(d)'
    BY <2>1, <2>3 DEF ShadowInv, Shape, Conserved
  <2> QED  BY <2>1, <2>4, <2>5 DEF ShadowInv, P!plainVars
<1>6. CASE ReadEnds(c)
  <2>1. pc[c] = "reading" /\ captured(body[c]) /\ goto(c, "ready")
        /\ UNCHANGED <<ask, received, reply, given, body, mirror>>
    BY <1>6 DEF ReadEnds
  <2>2. pc' \in [Calls -> Places] /\ pc'[c] = "ready"
        /\ (\A d \in Calls : d # c => pc'[d] = pc[d])
        /\ stage' = [stage EXCEPT ![c] = "asked"] /\ stage[c] = stageOf(pc[c])
    BY <2>1, StageMoves DEF ShadowInv, Places, stageOf
  <2>3. stage' = stage
    BY <2>1, <2>2 DEF stage, stageOf
  <2>4. ShadowInv'
    BY <2>1, <2>2 DEF ShadowInv, Shape, Conserved
  <2> QED  BY <2>1, <2>3, <2>4 DEF P!plainVars, stage
<1>7. CASE ReadFails(c) \/ ForwardFails(c) \/ CaptureFails(c)
  BY <1>7, BadGatewaySimulated DEF ReadFails, ForwardFails, CaptureFails
<1>8. ASSUME NEW x \in Responses, Answered(c, x)
      PROVE  ShadowInv' /\ P!PlainNext
  <2> DEFINE q == IF mirror[c] THEN "capturing" ELSE "relaying"
  <2>1. pc[c] = "waiting" /\ goto(c, q) /\ UNCHANGED <<ask, received, given, mirror>>
        /\ reply' = [reply EXCEPT ![c] = x]
        /\ body' = [body EXCEPT ![c] = unread(x.size)]
    BY <1>8 DEF Answered
  <2>2. pc' \in [Calls -> Places] /\ pc'[c] = q
        /\ (\A d \in Calls : d # c => pc'[d] = pc[d])
        /\ stage' = [stage EXCEPT ![c] = "answered"] /\ stage[c] = stageOf(pc[c])
    BY <2>1, StageMoves DEF ShadowInv, Places, stageOf
  <2>3. P!Reply(c)
    BY <2>1, <2>2 DEF P!Reply, stage, stageOf
  <2>4. x \in [status : {"none", "2xx", "5xx"}, headers : SUBSET Header, size : Nat]
    BY ShadowConfig DEF Response
  <2>5. unread(x.size) \in [buf : Nat, tail : Nat, left : Nat]
        /\ holds(unread(x.size), x.size)
    BY <2>4, UnreadHolds
  <2>6. Shape'
    BY <2>1, <2>2, <2>4, <2>5 DEF ShadowInv, Shape
  <2>7. ASSUME NEW d \in Calls PROVE Conserved(d)'
    <3>1. CASE d = c
      BY <2>1, <2>2, <2>5, <3>1 DEF ShadowInv, Shape, Conserved
    <3>2. CASE d # c
      BY <2>1, <2>2, <3>2 DEF ShadowInv, Shape, Conserved
    <3> QED  BY <3>1, <3>2
  <2> QED  BY <2>3, <2>6, <2>7 DEF P!PlainNext, ShadowInv
<1>9. CASE CaptureEnds(c)
  <2>1. pc[c] = "capturing" /\ captured(body[c]) /\ goto(c, "relaying")
        /\ UNCHANGED <<ask, received, reply, given, body, mirror>>
    BY <1>9 DEF CaptureEnds
  <2>2. pc' \in [Calls -> Places] /\ pc'[c] = "relaying"
        /\ (\A d \in Calls : d # c => pc'[d] = pc[d])
        /\ stage' = [stage EXCEPT ![c] = "answered"] /\ stage[c] = stageOf(pc[c])
    BY <2>1, StageMoves DEF ShadowInv, Places, stageOf
  <2>3. stage' = stage
    BY <2>1, <2>2 DEF stage, stageOf
  <2>4. ShadowInv'
    BY <2>1, <2>2 DEF ShadowInv, Shape, Conserved
  <2> QED  BY <2>1, <2>3, <2>4 DEF P!plainVars, stage
<1>10. ASSUME NEW n \in 0 .. reply[c].size, NEW whole \in BOOLEAN,
              whole => n = reply[c].size,
              pc[c] = "relaying", deliver(c, n, whole), goto(c, "done"),
              UNCHANGED <<ask, received, reply, body, mirror>>
       PROVE  ShadowInv' /\ P!PlainNext
  <2>1. goto(c, "done")
    BY <1>10
  <2>2. pc' \in [Calls -> Places] /\ pc'[c] = "done"
        /\ (\A d \in Calls : d # c => pc'[d] = pc[d])
        /\ stage' = [stage EXCEPT ![c] = "done"] /\ stage[c] = stageOf(pc[c])
    BY <2>1, StageMoves DEF ShadowInv, Places, stageOf
  <2>3. P!Deliver(c)
    <3> DEFINE H == IF mirror[c] THEN mirroredHeaders(ask[c], reply[c].headers)
                    ELSE userHeaders(ask[c], reply[c].headers)
    <3>1. H \in {P!userHeaders(ask[c], reply[c].headers), P!mirroredHeaders(ask[c], reply[c].headers)}
      BY DEF userHeaders, P!userHeaders, mirroredHeaders, P!mirroredHeaders, endToEnd,
             P!endToEnd, request_id, P!request_id, text, P!text
    <3>2. given' = [given EXCEPT ![c] =
             [status  |-> reply[c].status,
              headers |-> H,
              size    |-> n,
              whole   |-> whole]]
      BY <1>10 DEF deliver
    <3> HIDE DEF H
    <3> QED  BY <1>10, <2>2, <3>1, <3>2 DEF P!Deliver, stage, stageOf
  <2>4. ShadowInv'
    BY <1>10, <2>2 DEF ShadowInv, Shape, Conserved, deliver
  <2> QED  BY <2>3, <2>4 DEF P!PlainNext
<1>11. pc[c] = "relaying" => holds(body[c], reply[c].size) /\ body[c].buf \in Nat
          /\ body[c].tail \in Nat /\ body[c].left \in Nat /\ reply[c].size \in Nat
  BY DEF ShadowInv, Shape, Conserved
<1>12. CASE Relay(c)
  <2>1. (IF mirror[c] THEN chained(body[c]) ELSE body[c].left) = reply[c].size
    BY <1>11, <1>12, ChainedIsWhole DEF Relay, ShadowInv, Shape, Conserved, unread
  <2>2. reply[c].size \in 0 .. reply[c].size
    BY <1>11, <1>12, SMTT(30) DEF Relay
  <2> QED  BY <1>10, <1>12, <2>1, <2>2 DEF Relay
<1>13. CASE RelayBreaks(c)
  <2>1. PICK n \in 0 .. body[c].left - 1 :
               deliver(c, body[c].buf + body[c].tail + n, FALSE)
    BY <1>13 DEF RelayBreaks
  <2>2. body[c].buf + body[c].tail + n \in 0 .. reply[c].size
    BY <1>11, <1>13, <2>1 DEF RelayBreaks, holds
  <2> QED  BY <1>10, <1>13, <2>1, <2>2 DEF RelayBreaks
<1> QED
  BY <1>1, <1>2, <1>3, <1>4, <1>5, <1>6, <1>7, <1>8, <1>9, <1>12, <1>13 DEF Handler

(* Nothing else touches what the client and the primary see.               *)
LEMMA StepSimulated ==
    ASSUME ShadowInv, [ShadowNext]_shadowVars
    PROVE  ShadowInv' /\ [P!PlainNext]_(P!plainVars)
<1>1. ASSUME NEW c \in Calls, Handler(c)
      PROVE  ShadowInv' /\ [P!PlainNext]_(P!plainVars)
  BY <1>1, HandlerSimulated
<1>2. ASSUME NEW c \in Calls, ClientLeaves(c)
      PROVE  ShadowInv' /\ P!PlainNext
  <2>1. pc[c] \in {"reading", "waiting", "capturing", "relaying"} /\ goto(c, "gone")
        /\ UNCHANGED <<ask, received, reply, given, body, mirror>>
    BY <1>2 DEF ClientLeaves, taskVars
  <2>2. pc' \in [Calls -> Places] /\ pc'[c] = "gone"
        /\ (\A d \in Calls : d # c => pc'[d] = pc[d])
        /\ stage' = [stage EXCEPT ![c] = "gone"] /\ stage[c] = stageOf(pc[c])
    BY <2>1, StageMoves DEF ShadowInv, Places, stageOf
  <2>3. P!Leave(c)
    BY <2>1, <2>2 DEF P!Leave, stage, stageOf
  <2>4. ShadowInv'
    BY <2>1, <2>2 DEF ShadowInv, Shape, Conserved
  <2> QED  BY <2>3, <2>4 DEF P!PlainNext
<1>3. ASSUME UNCHANGED callVars
      PROVE  ShadowInv' /\ UNCHANGED P!plainVars
  BY <1>3 DEF callVars, ShadowInv, Shape, Conserved, P!plainVars
<1>4. ASSUME NEW c \in Calls, Mirror(c)
      PROVE  UNCHANGED callVars
  BY <1>4 DEF Mirror, MirrorRefused, MirrorClaims, MirrorSends, MirrorUnrouted,
              MirrorFails, MirrorEnds
<1>5. CoolsOff => UNCHANGED callVars
  BY DEF CoolsOff
<1>6. UNCHANGED shadowVars => UNCHANGED callVars
  BY DEF shadowVars
<1> QED  BY <1>1, <1>2, <1>3, <1>4, <1>5, <1>6 DEF ShadowNext

LEMMA ShadowStarts == ShadowInit => ShadowInv
<1> SUFFICES ASSUME ShadowInit PROVE ShadowInv
  OBVIOUS
<1>1. NoAsk \in Request
      /\ NoReply \in [status : {"none", "2xx", "5xx"}, headers : SUBSET Header, size : Nat]
  BY DEF NoAsk, NoReply, Request
<1>2. unread(0) \in [buf : Nat, tail : Nat, left : Nat]
  BY UnreadHolds
<1> QED  BY <1>1, <1>2 DEF ShadowInit, ShadowInv, Shape, Conserved, Places

LEMMA ShadowInvHolds == ShadowSpec => []ShadowInv
<1>1. ShadowInv /\ [ShadowNext]_shadowVars => ShadowInv'
  BY StepSimulated
<1> QED  BY <1>1, ShadowStarts, PTL DEF ShadowSpec

(* Shadow mode implements the plain proxy: for any bodies, frames, caps    *)
(* and failures the primary gets the whole request and the client the      *)
(* primary's response, its header values turned into text or not, and the  *)
(* mirror cannot be seen otherwise (handle_shadow, server.rs:224-366).     *)
THEOREM ShadowLooksLikePlainProxy == ShadowSpec => LooksLikePlainProxy
<1>1. ShadowInit => P!PlainInit
  BY DEF ShadowInit, P!PlainInit, P!NoAsk, P!NoRequest, P!NoReply, P!given0, NoAsk,
         NoRequest, NoReply, given0, stageOf
<1>2. ShadowInv /\ [ShadowNext]_shadowVars => [P!PlainNext]_(P!plainVars)
  BY StepSimulated
<1> QED  BY <1>1, <1>2, ShadowInvHolds, PTL DEF ShadowSpec, LooksLikePlainProxy, P!PlainSpec

-----------------------------------------------------------------------------

Tasks == [Calls -> {"none", "spawned", "claimed", "mirroring", "ended"}]

Early == {"idle", "reading", "ready", "waiting", "capturing"}

(* A call whose response is not captured yet has no task.                  *)
Unspawned ==
    /\ pc \in [Calls -> Places]
    /\ \A c \in Calls : pc[c] \in Early => task[c] = "none"

ProbeInv == Agree(shadow) /\ task \in Tasks /\ Unspawned /\ ShadowProbeIsHeld

(* record and release_probe always leave half-open.                        *)
LEMMA ResolveLeavesHalfOpen ==
    ASSUME NEW b, Agree(b), NEW success \in BOOLEAN
    PROVE  record(b, success).state # "HalfOpen" /\ release_probe(b).state # "HalfOpen"
BY DEF Agree, record, release_probe, trip, close, BreakerValue

LEMMA ProbeInvHolds == ShadowSpec => []ProbeInv
<1>1. ShadowInit => ProbeInv
  BY DEF ShadowInit, ProbeInv, Agree, Tasks, Unspawned, Places, ShadowProbeIsHeld, newBreaker,
         freshWindow, BreakerValue, Window, States, OpenedAt
<1>2. ProbeInv /\ [ShadowNext]_shadowVars => ProbeInv'
  <2> SUFFICES ASSUME ProbeInv, [ShadowNext]_shadowVars PROVE ProbeInv'
    OBVIOUS
  <2> USE DEF taskVars
  <2>0. ASSUME NEW c \in Calls, NEW q \in Places, goto(c, q),
               pc[c] \in Early \/ q \notin Early
        PROVE  /\ pc' \in [Calls -> Places] /\ pc'[c] = q
               /\ UNCHANGED task => Unspawned'
    BY <2>0 DEF ProbeInv, Unspawned, goto
  <2>1. ASSUME UNCHANGED <<shadow, task>>, Unspawned' PROVE ProbeInv'
    BY <2>1 DEF ProbeInv, Agree, ShadowProbeIsHeld
  <2>2. ASSUME NEW c \in Calls, CaptureEnds(c) PROVE ProbeInv'
    <3>1. task[c] = "none" /\ task' = [task EXCEPT ![c] = "spawned"]
          /\ UNCHANGED shadow /\ pc' = [pc EXCEPT ![c] = "relaying"]
      BY <2>2 DEF CaptureEnds, goto, ProbeInv, Unspawned, Early
    <3>2. Unspawned'
      BY <3>1 DEF ProbeInv, Unspawned, Early, Places, Tasks
    <3> QED  BY <3>1, <3>2 DEF ProbeInv, Agree, Tasks, ShadowProbeIsHeld
  <2>3. ASSUME NEW c \in Calls, Handler(c), ~CaptureEnds(c)
        PROVE  UNCHANGED <<shadow, task>> /\ Unspawned'
    <3>1. UNCHANGED <<shadow, task>>
      BY <2>3 DEF Handler, Unavailable, Arrive, ReadFrame, ReadEnds, ReadFails, Forward,
                  NotRoutable, ForwardFails, Answered, CaptureFrame, CaptureFails,
                  Relay, RelayBreaks, BadGateway
    <3>2. \/ UNCHANGED pc
          \/ \E q \in Places : goto(c, q) /\ (pc[c] \in Early \/ q \notin Early)
      BY <2>3 DEF Handler, Unavailable, Arrive, ReadFrame, ReadEnds, ReadFails, Forward,
                  NotRoutable, ForwardFails, Answered, CaptureFrame, CaptureFails,
                  Relay, RelayBreaks, BadGateway, Early, Places
    <3> QED  BY <2>0, <3>1, <3>2 DEF ProbeInv, Unspawned
  <2>4. ASSUME NEW c \in Calls, ClientLeaves(c)
        PROVE  UNCHANGED <<shadow, task>> /\ Unspawned'
    BY <2>0, <2>4 DEF ClientLeaves, Early, Places
  <2>14. ASSUME NEW c \in Calls, NEW q, q # "none", task[c] # "none", UNCHANGED pc,
               task' = [task EXCEPT ![c] = q]
        PROVE  Unspawned'
    BY <2>14 DEF ProbeInv, Unspawned, Tasks
  <2>5. ASSUME NEW c \in Calls, MirrorRefused(c) PROVE ProbeInv'
    <3>1. Unspawned'
      BY <2>5, <2>14 DEF MirrorRefused, callVars
    <3> QED  BY <2>5, <3>1 DEF MirrorRefused, ProbeInv, Agree, Tasks, ShadowProbeIsHeld
  <2>6. ASSUME NEW c \in Calls, MirrorClaims(c) PROVE ProbeInv'
    <3>1. Agree(shadow')
      BY <2>6, OthersAgree DEF MirrorClaims, ProbeInv
    <3>2. task' \in Tasks /\ task'[c] = "claimed"
      BY <2>6 DEF MirrorClaims, ProbeInv, Tasks
    <3>3. Unspawned'
      BY <2>6, <2>14 DEF MirrorClaims, callVars
    <3> QED  BY <3>1, <3>2, <3>3 DEF ProbeInv, ShadowProbeIsHeld, Agree
  <2>7. ASSUME NEW c \in Calls, NEW up \in SUBSET Backends, MirrorSends(c, up)
        PROVE  ProbeInv'
    <3>1. Unspawned'
      BY <2>7, <2>14 DEF MirrorSends, callVars
    <3> QED  BY <2>7, <3>1 DEF MirrorSends, ProbeInv, Agree, Tasks, ShadowProbeIsHeld
  <2>8. ASSUME NEW c \in Calls, task' = [task EXCEPT ![c] = "ended"],
               task[c] # "none", UNCHANGED pc,
               \/ shadow' = release_probe(shadow)
               \/ \E success \in BOOLEAN : shadow' = record(shadow, success)
        PROVE  ProbeInv'
    <3>1. Agree(shadow') /\ shadow'.state # "HalfOpen"
      BY <2>8, OthersAgree, RecordAgrees, ResolveLeavesHalfOpen DEF ProbeInv
    <3>2. Unspawned'
      BY <2>8, <2>14
    <3> QED  BY <2>8, <3>1, <3>2 DEF ProbeInv, Tasks, ShadowProbeIsHeld, Agree
  <2>9. ASSUME NEW c \in Calls, NEW up \in SUBSET Backends, MirrorUnrouted(c, up)
        PROVE  ProbeInv'
    BY <2>8, <2>9 DEF MirrorUnrouted, endMirror, callVars
  <2>10. ASSUME NEW c \in Calls, MirrorFails(c) PROVE ProbeInv'
    BY <2>8, <2>10 DEF MirrorFails, endMirror, callVars
  <2>11. ASSUME NEW c \in Calls, NEW x \in Responses, MirrorEnds(c, x) PROVE ProbeInv'
    <3>1. (x.status # "5xx") \in BOOLEAN
      OBVIOUS
    <3> QED  BY <2>8, <2>11, <3>1 DEF MirrorEnds, endMirror, callVars
  <2>12. CASE CoolsOff
    <3>1. shadow' = shadow \/ (shadow.opened_at = "fresh" /\ shadow' = cool(shadow))
      BY <2>12 DEF CoolsOff
    <3>2. Agree(shadow') /\ (shadow'.state = "HalfOpen" => shadow.state = "HalfOpen")
      BY <3>1, OthersAgree DEF ProbeInv, cool, Agree, BreakerValue
    <3> QED  BY <2>12, <3>2 DEF CoolsOff, ProbeInv, ShadowProbeIsHeld, Agree, callVars, Unspawned
  <2>13. CASE UNCHANGED shadowVars
    BY <2>1, <2>13 DEF shadowVars, callVars, ProbeInv, Unspawned
  <2> QED
    BY <2>1, <2>2, <2>3, <2>4, <2>5, <2>6, <2>7, <2>9, <2>10, <2>11, <2>12, <2>13
    DEF ShadowNext, Mirror
<1> QED  BY <1>1, <1>2, PTL DEF ShadowSpec

(* However clients and the primary fail, a half-open shadow breaker is in  *)
(* the hands of a mirror's task that will resolve it (dispatch_shadow,     *)
(* shadow.rs:136-222).                                                     *)
THEOREM ShadowProbeIsAlwaysHeld == ShadowSpec => []ShadowProbeIsHeld
  BY ProbeInvHolds, PTL DEF ProbeInv

-----------------------------------------------------------------------------

(* What the shadow backend answered is known only once the task has ended, *)
(* and the primary's response no longer changes then.                      *)
Compared(c) ==
    twin[c] # NoReply =>
        /\ task[c] = "ended"
        /\ divergences[c] = {} =>
              /\ twin[c].status = reply[c].status
              /\ text(endToEnd(twin[c].headers)) = text(endToEnd(reply[c].headers))
              /\ twin[c].size = reply[c].size

ComparedInv ==
    /\ twin = [c \in Calls |-> twin[c]]
    /\ divergences = [c \in Calls |-> divergences[c]]
    /\ \A c \in Calls : Compared(c)

(* The Connection line goes with the hop-by-hop lines, so stripping again  *)
(* takes nothing more away (strip_hop_by_hop, forwarder.rs).               *)
LEMMA StrippedOnce ==
    ASSUME NEW headers PROVE endToEnd(endToEnd(headers)) = endToEnd(headers)
  BY MessagesConfig DEF endToEnd

(* Turning values into text takes no line away and changes no name, so it  *)
(* makes no difference which comes first (server.rs:283-287).              *)
LEMMA TextKeepsNames ==
    ASSUME NEW headers PROVE endToEnd(text(headers)) = text(endToEnd(headers))
<1>1. Connection \in text(headers) <=> Connection \in headers
  BY MessagesConfig DEF text
<1> DEFINE drop == HopByHop \cup IF Connection \in headers THEN Listed ELSE {}
<1>2. \A h \in Opaque : h \in drop <=> Blank[h] \in drop
  BY MessagesConfig
<1>3. endToEnd(text(headers)) = text(headers) \ drop /\ endToEnd(headers) = headers \ drop
  BY <1>1 DEF endToEnd
<1> HIDE DEF drop
<1> QED  BY <1>2, <1>3 DEF text

(* A comparison that reports nothing has compared everything.              *)
LEMMA NothingReported ==
    ASSUME NEW p, NEW s, diff_responses(p, s) = {}
    PROVE  p.status = s.status /\ p.headers = s.headers /\ p.size = s.size
  BY DEF diff_responses

(* If the comparison reports nothing, primary and shadow gave the same     *)
(* response end to end, with the same body, for any headers, sizes and cap *)
(* (diff_responses, diff.rs; dispatch_shadow, shadow.rs:136-222).          *)
THEOREM SilenceAlwaysMeansEqual == ShadowSpec => []SilenceMeansEqual
<1>1. ShadowInit => ComparedInv
  BY DEF ShadowInit, ComparedInv, Compared
<1>2. ShadowInv /\ ProbeInv /\ ComparedInv /\ [ShadowNext]_shadowVars => ComparedInv'
  <2> SUFFICES ASSUME ShadowInv, ProbeInv, ComparedInv, [ShadowNext]_shadowVars
               PROVE  ComparedInv'
    OBVIOUS
  <2> USE DEF taskVars
  <2>1. ASSUME UNCHANGED <<reply, task, twin, divergences>> PROVE ComparedInv'
    BY <2>1 DEF ComparedInv, Compared
  <2>2. ASSUME NEW c \in Calls, pc[c] \in Early, UNCHANGED <<twin, divergences>>,
               \A d \in Calls : d # c => reply'[d] = reply[d] /\ task'[d] = task[d]
        PROVE  ComparedInv'
    <3>1. twin[c] = NoReply
      BY <2>2 DEF ProbeInv, Unspawned, ComparedInv, Compared
    <3> QED  BY <2>2, <3>1 DEF ComparedInv, Compared
  <2>3. ASSUME NEW c \in Calls, NEW x \in Responses, Answered(c, x) PROVE ComparedInv'
    BY <2>2, <2>3 DEF Answered, Early, ShadowInv, Shape
  <2>4. ASSUME NEW c \in Calls, CaptureEnds(c) PROVE ComparedInv'
    BY <2>2, <2>4 DEF CaptureEnds, Early, ProbeInv, Tasks
  <2>5. ASSUME NEW c \in Calls, Handler(c) \/ ClientLeaves(c) PROVE ComparedInv'
    BY <2>1, <2>3, <2>4, <2>5
       DEF Handler, Unavailable, Arrive, ReadFrame, ReadEnds, ReadFails, Forward, NotRoutable,
           ForwardFails, CaptureFrame, CaptureFails, Relay, RelayBreaks, BadGateway, ClientLeaves
  <2>6. ASSUME NEW c \in Calls, NEW q, task[c] # "ended", task' = [task EXCEPT ![c] = q],
               UNCHANGED <<reply, twin>>,
               \A d \in Calls : d # c => divergences'[d] = divergences[d],
               divergences' = [d \in Calls |-> divergences'[d]]
        PROVE  ComparedInv'
    <3>1. twin[c] = NoReply
      BY <2>6 DEF ComparedInv, Compared
    <3> QED  BY <2>6, <3>1 DEF ComparedInv, Compared, ProbeInv, Tasks
  <2>7. ASSUME NEW c \in Calls, MirrorRefused(c) \/ MirrorClaims(c) PROVE ComparedInv'
    BY <2>6, <2>7 DEF MirrorRefused, MirrorClaims, callVars, ComparedInv
  <2>8. ASSUME NEW c \in Calls, NEW up \in SUBSET Backends, MirrorSends(c, up)
        PROVE  ComparedInv'
    BY <2>6, <2>8 DEF MirrorSends, callVars, ComparedInv
  <2>9. ASSUME NEW c \in Calls, task[c] # "ended", endMirror(c, {"connection_lifecycle"}),
               UNCHANGED <<reply, twin>>
        PROVE  ComparedInv'
    BY <2>6, <2>9 DEF endMirror, ComparedInv
  <2>10. ASSUME NEW c \in Calls, NEW up \in SUBSET Backends,
                MirrorUnrouted(c, up) \/ MirrorFails(c)
         PROVE  ComparedInv'
    BY <2>9, <2>10 DEF MirrorUnrouted, MirrorFails, callVars
  <2>11. ASSUME NEW c \in Calls, NEW x \in Responses, MirrorEnds(c, x) PROVE ComparedInv'
    <3> DEFINE p == [reply[c] EXCEPT !.headers = text(endToEnd(@))]
               t == [x EXCEPT !.headers = text(@)]
    <3>1. /\ twin' = [twin EXCEPT ![c] = x] /\ UNCHANGED reply
          /\ task' = [task EXCEPT ![c] = "ended"]
          /\ divergences' = [divergences EXCEPT ![c] = diff_responses(p, t)]
      BY <2>11 DEF MirrorEnds, endMirror, callVars
    <3>2. /\ p.status = reply[c].status /\ p.size = reply[c].size
          /\ p.headers = text(endToEnd(reply[c].headers))
          /\ t.status = x.status /\ t.size = x.size /\ t.headers = text(x.headers)
      BY ShadowConfig DEF ShadowInv, Shape, Response
    <3> HIDE DEF p, t
    <3>6. ASSUME p.headers = t.headers
          PROVE  text(endToEnd(x.headers)) = text(endToEnd(reply[c].headers))
      BY <3>2, <3>6, StrippedOnce, TextKeepsNames
    <3>3. Compared(c)'
      BY <3>1, <3>2, <3>6, NothingReported DEF Compared, ComparedInv, ProbeInv, Tasks
    <3>4. ASSUME NEW d \in Calls, d # c PROVE Compared(d)'
      BY <3>1, <3>4 DEF Compared, ComparedInv, ProbeInv, Tasks
    <3>5. twin' = [d \in Calls |-> twin'[d]] /\ divergences' = [d \in Calls |-> divergences'[d]]
      BY <3>1 DEF ComparedInv
    <3> QED  BY <3>3, <3>4, <3>5 DEF ComparedInv
  <2>12. CASE CoolsOff \/ UNCHANGED shadowVars
    BY <2>1, <2>12 DEF CoolsOff, shadowVars, callVars
  <2> QED
    BY <2>5, <2>7, <2>8, <2>10, <2>11, <2>12 DEF ShadowNext, Mirror
<1>3. ComparedInv => SilenceMeansEqual
  BY DEF ComparedInv, Compared, SilenceMeansEqual
<1> QED  BY <1>1, <1>2, <1>3, ShadowInvHolds, ProbeInvHolds, PTL DEF ShadowSpec

-----------------------------------------------------------------------------

(* How many outcomes a call has had where it is.                           *)
Counted(c) ==
    /\ recorded[c] \in {0, 1}
    /\ pc[c] \in {"idle", "reading", "ready", "waiting", "capturing"} => recorded[c] = 0
    /\ pc[c] = "relaying" => recorded[c] = 1
    /\ pc[c] = "done" => recorded[c] = IF given[c].status = "503" THEN 0 ELSE 1

OutcomeInv ==
    /\ Shape
    /\ recorded \in [Calls -> {0, 1}]
    /\ \A c \in Calls : Counted(c)

(* A step of one call leaves the count of the others alone.                *)
LEMMA OthersCounted ==
    ASSUME OutcomeInv, NEW c \in Calls, Shape', NEW n \in {0, 1},
           recorded' = [recorded EXCEPT ![c] = n],
           \A d \in Calls : d # c => pc'[d] = pc[d] /\ given'[d] = given[d],
           Counted(c)'
    PROVE  OutcomeInv'
BY DEF OutcomeInv, Counted

(* Every call the primary admits ends with one outcome recorded for it, on *)
(* all the ways a handler may return (handle, handle_shadow,               *)
(* server.rs:84-366).                                                      *)
THEOREM EveryCallHasOneOutcome == ShadowSpec => []OneOutcomePerCall
<1>1. ShadowInit => ShadowInv /\ OutcomeInv
  <2>1. ShadowInit => Shape
    BY ShadowStarts DEF ShadowInv
  <2> QED  BY <2>1, ShadowStarts DEF ShadowInit, OutcomeInv, Counted
<1>2. ShadowInv /\ OutcomeInv /\ [ShadowNext]_shadowVars => ShadowInv' /\ OutcomeInv'
  <2> SUFFICES ASSUME ShadowInv, OutcomeInv, [ShadowNext]_shadowVars
               PROVE  ShadowInv' /\ OutcomeInv'
    OBVIOUS
  <2> USE DEF taskVars
  <2>0. ShadowInv' /\ Shape' /\ Shape
    BY StepSimulated DEF ShadowInv
  <2>1. ASSUME NEW c \in Calls, NEW q \in Places, goto(c, q),
               UNCHANGED <<recorded, given>>,
               \/ pc[c] \in {"idle", "reading", "ready", "waiting", "capturing"}
                  /\ q \in {"reading", "ready", "waiting", "capturing", "gone"}
               \/ q = "gone"
        PROVE  OutcomeInv'
    BY <2>0, <2>1 DEF goto, OutcomeInv, Shape, Counted
  <2>2. ASSUME NEW c \in Calls, outcome(c, FALSE), goto(c, "done"),
               pc[c] \in {"reading", "ready", "waiting", "capturing"},
               given' = [given EXCEPT ![c] = failure("502")]
        PROVE  OutcomeInv'
    <3>0. recorded[c] = 0
      BY <2>2 DEF OutcomeInv, Counted
    <3>1. recorded' = [recorded EXCEPT ![c] = 1]
      BY <2>2, <3>0 DEF outcome
    <3>2. pc'[c] = "done" /\ given'[c].status = "502"
          /\ (\A d \in Calls : d # c => pc'[d] = pc[d] /\ given'[d] = given[d])
      BY <2>0, <2>2 DEF goto, Shape, failure
    <3>3. Counted(c)'
      BY <3>1, <3>2 DEF Counted, OutcomeInv
    <3> QED  BY <2>0, <3>1, <3>2, <3>3, OthersCounted
  <2>3. ASSUME NEW c \in Calls, NEW success \in BOOLEAN, outcome(c, success),
               goto(c, "relaying"), pc[c] \in {"waiting", "capturing"}, UNCHANGED given
        PROVE  OutcomeInv'
    <3>0. recorded[c] = 0
      BY <2>3 DEF OutcomeInv, Counted
    <3>1. recorded' = [recorded EXCEPT ![c] = 1]
      BY <2>3, <3>0 DEF outcome
    <3>2. pc'[c] = "relaying"
          /\ (\A d \in Calls : d # c => pc'[d] = pc[d] /\ given'[d] = given[d])
      BY <2>0, <2>3 DEF goto, Shape
    <3>3. Counted(c)'
      BY <3>1, <3>2 DEF Counted, OutcomeInv
    <3> QED  BY <2>0, <3>1, <3>2, <3>3, OthersCounted
  <2>4. ASSUME NEW c \in Calls, NEW n, NEW whole, deliver(c, n, whole), goto(c, "done"),
               pc[c] = "relaying", UNCHANGED recorded
        PROVE  OutcomeInv'
    <3>1. recorded[c] = 1 /\ recorded \in [Calls -> {0, 1}] /\ recorded' = recorded
      BY <2>4 DEF OutcomeInv, Counted
    <3>9. recorded' = [recorded EXCEPT ![c] = 1]
      BY <3>1, Zenon
    <3>2. pc'[c] = "done" /\ given'[c].status = reply[c].status
          /\ (\A d \in Calls : d # c => pc'[d] = pc[d] /\ given'[d] = given[d])
      BY <2>0, <2>4 DEF goto, Shape, deliver
    <3>3. reply[c].status # "503"
      BY <2>0 DEF Shape
    <3>4. Counted(c)'
      BY <3>1, <3>2, <3>3 DEF Counted, OutcomeInv
    <3> QED  BY <2>0, <3>9, <3>2, <3>4, OthersCounted
  <2>5. ASSUME NEW c \in Calls, NEW up \in SUBSET Backends, Unavailable(c, up)
        PROVE  OutcomeInv'
    <3>1. recorded[c] = 0 /\ recorded \in [Calls -> {0, 1}] /\ recorded' = recorded
      BY <2>5 DEF Unavailable, OutcomeInv, Counted
    <3>9. recorded' = [recorded EXCEPT ![c] = 0]
      BY <3>1, Zenon
    <3>2. pc'[c] = "done" /\ given'[c].status = "503"
          /\ (\A d \in Calls : d # c => pc'[d] = pc[d] /\ given'[d] = given[d])
      BY <2>0, <2>5 DEF Unavailable, goto, Shape, failure
    <3>3. Counted(c)'
      BY <3>1, <3>2 DEF Counted, OutcomeInv
    <3> QED  BY <2>0, <3>9, <3>2, <3>3, OthersCounted
  <2>6. ASSUME NEW c \in Calls, Handler(c) PROVE OutcomeInv'
    <3>1. ASSUME BadGateway(c), pc[c] \in {"reading", "ready", "waiting", "capturing"}
          PROVE  OutcomeInv'
      BY <2>2, <3>1 DEF BadGateway
    <3>2. ASSUME NEW a \in Asks, NEW up \in SUBSET Backends, Arrive(c, a, up)
          PROVE  OutcomeInv'
      BY <2>1, <3>2 DEF Arrive, Places
    <3>3. ASSUME NEW k \in 1 .. body[c].left, ReadFrame(c, k) \/ CaptureFrame(c, k)
          PROVE  OutcomeInv'
      BY <2>0, <3>3 DEF ReadFrame, CaptureFrame, OutcomeInv, Counted
    <3>4. ASSUME ReadEnds(c) PROVE OutcomeInv'
      BY <2>1, <3>4 DEF ReadEnds, Places
    <3>5. ASSUME NEW up \in SUBSET Backends, Forward(c, up) PROVE OutcomeInv'
      BY <2>1, <3>5 DEF Forward, Places
    <3>6. ASSUME NEW x \in Responses, Answered(c, x) PROVE OutcomeInv'
      <4>1. (x.status # "5xx") \in BOOLEAN
        OBVIOUS
      <4>2. CASE mirror[c]
        BY <2>1, <3>6, <4>2 DEF Answered, Places
      <4>3. CASE ~mirror[c]
        BY <2>3, <3>6, <4>1, <4>3 DEF Answered
      <4> QED  BY <4>2, <4>3
    <3>7. ASSUME CaptureEnds(c) PROVE OutcomeInv'
      <4>1. (reply[c].status # "5xx") \in BOOLEAN
        OBVIOUS
      <4> QED  BY <2>3, <3>7, <4>1 DEF CaptureEnds
    <3>8. ASSUME Relay(c) \/ RelayBreaks(c) PROVE OutcomeInv'
      BY <2>4, <3>8 DEF Relay, RelayBreaks
    <3> QED
      BY <2>5, <2>6, <3>1, <3>2, <3>3, <3>4, <3>5, <3>6, <3>7, <3>8
      DEF Handler, NotRoutable, ReadFails, ForwardFails, CaptureFails
  <2>7. ASSUME NEW c \in Calls, ClientLeaves(c) PROVE OutcomeInv'
    BY <2>1, <2>7 DEF ClientLeaves, Places
  <2>8. ASSUME UNCHANGED callVars PROVE OutcomeInv'
    BY <2>0, <2>8 DEF callVars, OutcomeInv, Counted
  <2>9. ASSUME NEW c \in Calls, Mirror(c) PROVE UNCHANGED callVars
    BY <2>9 DEF Mirror, MirrorRefused, MirrorClaims, MirrorSends, MirrorUnrouted,
                MirrorFails, MirrorEnds
  <2>10. (CoolsOff => UNCHANGED callVars) /\ (UNCHANGED shadowVars => UNCHANGED callVars)
    BY DEF CoolsOff, shadowVars
  <2> QED  BY <2>0, <2>6, <2>7, <2>8, <2>9, <2>10 DEF ShadowNext
<1>3. OutcomeInv => OneOutcomePerCall
  BY DEF OutcomeInv, Counted, OneOutcomePerCall
<1> QED  BY <1>1, <1>2, <1>3, PTL DEF ShadowSpec
=============================================================================
