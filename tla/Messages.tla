------------------------------- MODULE Messages -------------------------------
(***************************************************************************)
(* What thttpd-migrate does to the messages it forwards: which headers it  *)
(* keeps (forwarder.rs, server.rs), how much of a body it copies           *)
(* (shadow.rs), and how it compares two responses (diff.rs).               *)
(*                                                                         *)
(* A header is one header line, so a set of headers keeps repeated fields  *)
(* apart and forgets their order; only the order of a client's             *)
(* x-request-id lines matters, and these are a sequence.  The bytes of a   *)
(* body are always handled in order and in one piece after the other, so a *)
(* number of units stands for them.  Trailers are left out.                *)
(***************************************************************************)
EXTENDS Naturals, Sequences

CONSTANTS
    Header,         \* header lines
    HopByHop,       \* the lines whose name is in HOP_BY_HOP
    Connection,     \* the Connection line, one of them
    Listed,         \* the lines the Connection line names
    Host,           \* the Host lines
    BackendHost,    \* the Host line made from a backend's address
    RequestId,      \* the x-request-id lines
    OwnId,          \* the x-request-id line the proxy makes up
    Opaque,         \* the lines whose value is not visible ASCII
    Blank,          \* such a line with an empty value in place of its own
    Cap             \* ShadowConfig.max_body_bytes

ASSUME MessagesConfig ==
    /\ Connection \in HopByHop /\ HopByHop \subseteq Header
    /\ Listed \subseteq Header
    /\ BackendHost \in Host /\ Host \subseteq Header
    /\ OwnId \in RequestId /\ RequestId \subseteq Header
    /\ Opaque \subseteq Header \ {Connection, BackendHost, OwnId}
    /\ Blank \in [Opaque -> Header \ (Opaque \cup {Connection})]
    /\ \A h \in Opaque, S \in {HopByHop, Listed, Host, RequestId} :
          h \in S <=> Blank[h] \in S
    /\ Cap \in Nat

(* ids are the x-request-id lines, headers the others; declared is the     *)
(* Content-Length, 0 when there is none.                                   *)
Ask == [headers : SUBSET (Header \ RequestId), ids : Seq(RequestId),
        declared : Nat, size : Nat]

Response == [status : {"2xx", "5xx"}, headers : SUBSET Header, size : Nat]

-----------------------------------------------------------------------------

(* forwarded_headers for a request and strip_hop_by_hop for a response:    *)
(* what the Connection line names goes with the hop-by-hop lines.          *)
endToEnd(headers) ==
    headers \ (HopByHop \cup IF Connection \in headers THEN Listed ELSE {})

(* v.to_str().unwrap_or_default(): a value that is not text becomes empty. *)
text(headers) == (headers \ Opaque) \cup {Blank[h] : h \in headers \cap Opaque}

(* The first id of the request a, if it is text, or one made up; the other *)
(* ids are dropped.                                                        *)
request_id(a) ==
    IF a.ids = <<>> THEN OwnId ELSE IF a.ids[1] \in Opaque THEN OwnId ELSE a.ids[1]

(* forwarded_headers and handle, then rebuild_for_backend_streaming.       *)
requestHeaders(a) ==
    LET kept == text(endToEnd(a.headers)) \cup {request_id(a)}
    IN  kept \cup IF kept \cap Host = {} THEN {BackendHost} ELSE {}

(* The headers of the response to the request a as handle passes them on,  *)
(* from those of the backend: their values are not touched.                *)
userHeaders(a, headers) == (endToEnd(headers) \ RequestId) \cup {request_id(a)}

(* The same under a mirror: handle_shadow turns them into text, and        *)
(* rebuild_shadow_response_headers makes the response's of that.           *)
mirroredHeaders(a, headers) ==
    (text(endToEnd(headers)) \ RequestId) \cup {request_id(a)}

-----------------------------------------------------------------------------

(* A body under read_capped: units in the prefix, in the tail of the frame *)
(* that crossed the cap, and still unread in the stream.                   *)
Body == [buf : 0 .. Cap, tail : Nat, left : Nat]

unread(n) == [buf |-> 0, tail |-> 0, left |-> n]

(* A slip: the head of the frame that crosses the cap is not copied.       *)
takeFrameWhole(b, k) ==
    IF b.buf + k <= Cap
    THEN [b EXCEPT !.buf = @ + k, !.left = @ - k]
    ELSE [b EXCEPT !.tail = b.buf + k - Cap, !.left = @ - k]

(* The next frame has k units.                                             *)
takeFrame(b, k) ==
    IF b.buf + k <= Cap
    THEN [b EXCEPT !.buf = @ + k, !.left = @ - k]
    ELSE [buf |-> Cap, tail |-> b.buf + k - Cap, left |-> b.left - k]

truncated(b) == b.tail > 0

captured(b) == truncated(b) \/ b.left = 0

(* What ChainedBody, or Full when the body fitted, yields in the end.      *)
chained(b) == IF truncated(b) THEN b.buf + b.tail + b.left ELSE b.buf

-----------------------------------------------------------------------------

(* A slip: a comparison that was cut short is not reported.                *)
diff_responsesPartial(p, s) ==
    LET cut == p.size > Cap \/ s.size > Cap
    IN  (IF p.status # s.status THEN {"status"} ELSE {})
        \cup (IF p.headers # s.headers THEN {"headers"} ELSE {})
        \cup (IF ~cut /\ p.size # s.size THEN {"body"} ELSE {})

(* diff_responses on the captured primary response p, whose headers are    *)
(* already stripped, and the shadow's response s, whose headers are not;   *)
(* both are text.                                                          *)
diff_responses(p, s) ==
    LET cut == p.size > Cap \/ s.size > Cap
    IN  (IF p.status # s.status THEN {"status"} ELSE {})
        \cup (IF p.headers # s.headers THEN {"headers"} ELSE {})
        \cup (IF cut THEN {"truncated"} ELSE {})
        \cup (IF ~cut /\ p.size # s.size THEN {"body"} ELSE {})
=============================================================================
