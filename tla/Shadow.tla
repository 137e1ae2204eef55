-------------------------------- MODULE Shadow --------------------------------
(***************************************************************************)
(* Shadow mode of thttpd-migrate: handle and handle_shadow (server.rs) for *)
(* every call of a client, the detached task of dispatch_shadow            *)
(* (shadow.rs), and the breakers of the primary and the shadow backend.    *)
(*                                                                         *)
(* A step of a handler ends at an await or where another thread may run in *)
(* between.  A frame that arrives while a body is captured is a step, so a *)
(* client may leave, a body may break off and the breakers may change      *)
(* between any two frames.  The health checker may change a backend's      *)
(* health between any two reads of it, so what a step reads of it (up) is  *)
(* an input of the step.                                                   *)
(***************************************************************************)
EXTENDS BreakerOps, Messages

CONSTANTS
    Calls,      \* the calls, each served once
    Asks,       \* the requests clients send
    Responses   \* the responses backends give

ASSUME ShadowConfig == Asks \subseteq Ask /\ Responses \subseteq Response

VARIABLES
    primary,    \* the breaker of the primary
    shadow,     \* the breaker of the shadow backend
    pc,         \* where the handler of a call is
    mirror,     \* whether decide found a shadow backend for the call
    ask, received, reply, given,    \* as in PlainProxy
    body,       \* the body being captured: the request's, then the response's
    copy,       \* the capped copy of the request body
    task,       \* where the detached task of a call is
    mirrored,   \* what the shadow backend was sent
    twin,       \* what it answered
    divergences,
    recorded    \* history: outcomes recorded for the primary

callVars == <<pc, ask, received, reply, given, body, copy, mirror, recorded>>
taskVars == <<task, mirrored, twin, divergences>>
shadowVars == <<primary, shadow, callVars, taskVars>>

Backends == {"primary", "shadow"}

NoAsk == [headers |-> {}, ids |-> <<>>, declared |-> 0, size |-> 0]

NoRequest == [headers |-> {}, declared |-> 0, size |-> 0]

NoReply == [status |-> "none", headers |-> {}, size |-> 0]

given0 == [status |-> "none", headers |-> {}, size |-> 0, whole |-> FALSE]

Places == {"idle", "reading", "ready", "waiting", "capturing", "relaying",
           "done", "gone"}

ShadowTypeOK ==
    /\ primary \in BreakerValue /\ shadow \in BreakerValue
    /\ pc \in [Calls -> Places]
    /\ mirror \in [Calls -> BOOLEAN]
    /\ body \in [Calls -> Body]
    /\ copy \in [Calls -> 0 .. Cap]
    /\ task \in [Calls -> {"none", "spawned", "claimed", "mirroring", "ended"}]
    /\ recorded \in [Calls -> 0 .. 1]

ShadowInit ==
    /\ primary = newBreaker /\ shadow = newBreaker
    /\ pc = [c \in Calls |-> "idle"]
    /\ mirror = [c \in Calls |-> FALSE]
    /\ ask = [c \in Calls |-> NoAsk]
    /\ received = [c \in Calls |-> NoRequest]
    /\ reply = [c \in Calls |-> NoReply]
    /\ given = [c \in Calls |-> given0]
    /\ body = [c \in Calls |-> unread(0)]
    /\ copy = [c \in Calls |-> 0]
    /\ task = [c \in Calls |-> "none"]
    /\ mirrored = [c \in Calls |-> NoRequest]
    /\ twin = [c \in Calls |-> NoReply]
    /\ divergences = [c \in Calls |-> {}]
    /\ recorded = [c \in Calls |-> 0]

-----------------------------------------------------------------------------

goto(c, place) == pc' = [pc EXCEPT ![c] = place]

failure(code) == [status |-> code, headers |-> {}, size |-> 0, whole |-> TRUE]

(* record_outcome on the primary.                                          *)
outcome(c, success) ==
    /\ primary' = record(primary, success)
    /\ recorded' = [recorded EXCEPT ![c] = @ + 1]

(* bad_gateway, on every path that has claimed the primary.                *)
BadGateway(c) ==
    /\ outcome(c, FALSE)
    /\ goto(c, "done")
    /\ given' = [given EXCEPT ![c] = failure("502")]
    /\ UNCHANGED <<shadow, ask, received, reply, body, copy, mirror, taskVars>>

(* decide: the primary has to be routable and to admit the call.           *)
Unavailable(c, up) ==
    /\ pc[c] = "idle"
    /\ ~("primary" \in up /\ can_route(primary) /\ admits(primary))
    /\ goto(c, "done")
    /\ given' = [given EXCEPT ![c] = failure("503")]
    /\ UNCHANGED <<primary, shadow, ask, received, reply, body, copy, mirror,
                   recorded, taskVars>>

(* The shadow backend is looked at but its breaker is not claimed yet.     *)
Arrive(c, a, up) ==
    /\ pc[c] = "idle"
    /\ "primary" \in up /\ can_route(primary) /\ admits(primary)
    /\ primary' = try_admit(primary)
    /\ mirror' = [mirror EXCEPT ![c] = "shadow" \in up /\ can_route(shadow)]
    /\ ask' = [ask EXCEPT ![c] = a]
    /\ body' = [body EXCEPT ![c] = unread(a.size)]
    /\ goto(c, IF mirror'[c] THEN "reading" ELSE "ready")
    /\ UNCHANGED <<shadow, received, reply, given, copy, recorded, taskVars>>

(* read_capped on the request body, a frame at a time.                     *)
ReadFrame(c, k) ==
    /\ pc[c] = "reading" /\ ~captured(body[c])
    /\ k <= body[c].left
    /\ body' = [body EXCEPT ![c] = takeFrame(@, k)]
    /\ UNCHANGED <<primary, shadow, pc, ask, received, reply, given, copy,
                   mirror, recorded, taskVars>>

ReadEnds(c) ==
    /\ pc[c] = "reading" /\ captured(body[c])
    /\ copy' = [copy EXCEPT ![c] = body[c].buf]
    /\ goto(c, "ready")
    /\ UNCHANGED <<primary, shadow, ask, received, reply, given, body, mirror,
                   recorded, taskVars>>

ReadFails(c) ==
    /\ pc[c] = "reading" /\ ~captured(body[c])
    /\ BadGateway(c)

(* forward to the primary.  Without a mirror the body streams through.     *)
Forward(c, up) ==
    /\ pc[c] = "ready" /\ "primary" \in up
    /\ received' = [received EXCEPT ![c] =
          [headers  |-> requestHeaders(ask[c]),
           declared |-> ask[c].declared,
           size     |-> IF mirror[c] THEN chained(body[c]) ELSE body[c].left]]
    /\ goto(c, "waiting")
    /\ UNCHANGED <<primary, shadow, ask, reply, given, body, copy, mirror,
                   recorded, taskVars>>

NotRoutable(c, up) ==
    /\ pc[c] = "ready" /\ "primary" \notin up
    /\ BadGateway(c)

ForwardFails(c) ==
    /\ pc[c] = "waiting"
    /\ BadGateway(c)

(* The head of the primary's response.  Without a mirror its outcome is    *)
(* recorded at once and the body streams through.                          *)
Answered(c, x) ==
    /\ pc[c] = "waiting"
    /\ reply' = [reply EXCEPT ![c] = x]
    /\ body' = [body EXCEPT ![c] = unread(x.size)]
    /\ IF mirror[c]
       THEN goto(c, "capturing") /\ UNCHANGED <<primary, recorded>>
       ELSE goto(c, "relaying") /\ outcome(c, x.status # "5xx")
    /\ UNCHANGED <<shadow, ask, received, given, copy, mirror, taskVars>>

CaptureFrame(c, k) ==
    /\ pc[c] = "capturing" /\ ~captured(body[c])
    /\ k <= body[c].left
    /\ body' = [body EXCEPT ![c] = takeFrame(@, k)]
    /\ UNCHANGED <<primary, shadow, pc, ask, received, reply, given, copy,
                   mirror, recorded, taskVars>>

CaptureFails(c) ==
    /\ pc[c] = "capturing" /\ ~captured(body[c])
    /\ BadGateway(c)

(* A slip: the outcome is left to the mirror's task.                       *)
CaptureEndsUnrecorded(c) ==
    /\ pc[c] = "capturing" /\ captured(body[c])
    /\ task' = [task EXCEPT ![c] = "spawned"]
    /\ goto(c, "relaying")
    /\ UNCHANGED <<primary, recorded, shadow, ask, received, reply, given,
                   body, copy, mirror, mirrored, twin, divergences>>

(* The mirror's task is spawned, the primary's outcome recorded, and the   *)
(* response returned.                                                      *)
CaptureEnds(c) ==
    /\ pc[c] = "capturing" /\ captured(body[c])
    /\ task' = [task EXCEPT ![c] = "spawned"]
    /\ outcome(c, reply[c].status # "5xx")
    /\ goto(c, "relaying")
    /\ UNCHANGED <<shadow, ask, received, reply, given, body, copy, mirror,
                   mirrored, twin, divergences>>

deliver(c, n, whole) ==
    given' = [given EXCEPT ![c] =
        [status  |-> reply[c].status,
         headers |-> IF mirror[c] THEN mirroredHeaders(ask[c], reply[c].headers)
                     ELSE userHeaders(ask[c], reply[c].headers),
         size    |-> n,
         whole   |-> whole]]

(* A slip: the client is made to wait for the mirror.                      *)
RelayAfterMirror(c) ==
    /\ pc[c] = "relaying" /\ task[c] \in {"none", "ended"}
    /\ deliver(c, IF mirror[c] THEN chained(body[c]) ELSE body[c].left, TRUE)
    /\ goto(c, "done")
    /\ UNCHANGED <<primary, shadow, ask, received, reply, body, copy, mirror,
                   recorded, taskVars>>

(* hyper sends the response: the whole body, or what came before an error. *)
Relay(c) ==
    /\ pc[c] = "relaying"
    /\ deliver(c, IF mirror[c] THEN chained(body[c]) ELSE body[c].left, TRUE)
    /\ goto(c, "done")
    /\ UNCHANGED <<primary, shadow, ask, received, reply, body, copy, mirror,
                   recorded, taskVars>>

RelayBreaks(c) ==
    /\ pc[c] = "relaying" /\ body[c].left > 0
    /\ \E n \in 0 .. body[c].left - 1 :
          deliver(c, body[c].buf + body[c].tail + n, FALSE)
    /\ goto(c, "done")
    /\ UNCHANGED <<primary, shadow, ask, received, reply, body, copy, mirror,
                   recorded, taskVars>>

(* The client leaves and its handler is dropped at its await.              *)
ClientLeaves(c) ==
    /\ pc[c] \in {"reading", "waiting", "capturing", "relaying"}
    /\ goto(c, "gone")
    /\ UNCHANGED <<primary, shadow, ask, received, reply, given, body, copy,
                   mirror, recorded, taskVars>>

-----------------------------------------------------------------------------

(* The detached task claims the shadow's breaker or gives up.              *)
MirrorRefused(c) ==
    /\ task[c] = "spawned" /\ ~admits(shadow)
    /\ task' = [task EXCEPT ![c] = "ended"]
    /\ UNCHANGED <<primary, shadow, callVars, mirrored, twin, divergences>>

MirrorClaims(c) ==
    /\ task[c] = "spawned" /\ admits(shadow)
    /\ shadow' = try_admit(shadow)
    /\ task' = [task EXCEPT ![c] = "claimed"]
    /\ UNCHANGED <<primary, callVars, mirrored, twin, divergences>>

(* shadow_headers_for_body, then forward, which looks at the primary.      *)
MirrorSends(c, up) ==
    /\ task[c] = "claimed" /\ "primary" \in up
    /\ mirrored' = [mirrored EXCEPT ![c] =
          [headers  |-> requestHeaders(ask[c]),
           declared |-> copy[c],
           size     |-> copy[c]]]
    /\ task' = [task EXCEPT ![c] = "mirroring"]
    /\ UNCHANGED <<primary, shadow, callVars, twin, divergences>>

endMirror(c, fields) ==
    /\ task' = [task EXCEPT ![c] = "ended"]
    /\ divergences' = [divergences EXCEPT ![c] = fields]

(* A slip: the claim is kept when the primary is not routable.             *)
MirrorUnroutedKeeps(c, up) ==
    /\ task[c] = "claimed" /\ "primary" \notin up
    /\ endMirror(c, {"connection_lifecycle"})
    /\ UNCHANGED <<primary, shadow, callVars, mirrored, twin>>

MirrorUnrouted(c, up) ==
    /\ task[c] = "claimed" /\ "primary" \notin up
    /\ shadow' = release_probe(shadow)
    /\ endMirror(c, {"connection_lifecycle"})
    /\ UNCHANGED <<primary, callVars, mirrored, twin>>

(* The request to the shadow backend, or the body of its response, fails.  *)
MirrorFails(c) ==
    /\ task[c] = "mirroring"
    /\ shadow' = record(shadow, FALSE)
    /\ endMirror(c, {"connection_lifecycle"})
    /\ UNCHANGED <<primary, callVars, mirrored, twin>>

(* The response is captured, recorded and compared.                        *)
MirrorEnds(c, x) ==
    /\ task[c] = "mirroring"
    /\ twin' = [twin EXCEPT ![c] = x]
    /\ shadow' = record(shadow, x.status # "5xx")
    /\ endMirror(c, diff_responses([reply[c] EXCEPT !.headers = text(endToEnd(@))],
                                   [x EXCEPT !.headers = text(@)]))
    /\ UNCHANGED <<primary, callVars, mirrored>>

-----------------------------------------------------------------------------

CoolsOff ==
    \/ /\ primary.opened_at = "fresh"
       /\ primary' = cool(primary)
       /\ UNCHANGED <<shadow, callVars, taskVars>>
    \/ /\ shadow.opened_at = "fresh"
       /\ shadow' = cool(shadow)
       /\ UNCHANGED <<primary, callVars, taskVars>>

Handler(c) ==
    \/ \E up \in SUBSET Backends :
          \/ Unavailable(c, up)
          \/ \E a \in Asks : Arrive(c, a, up)
          \/ Forward(c, up) \/ NotRoutable(c, up)
    \/ \E k \in 1 .. body[c].left : ReadFrame(c, k) \/ CaptureFrame(c, k)
    \/ ReadEnds(c) \/ ReadFails(c)
    \/ ForwardFails(c)
    \/ \E x \in Responses : Answered(c, x)
    \/ CaptureFails(c) \/ CaptureEnds(c)
    \/ Relay(c) \/ RelayBreaks(c)

Mirror(c) ==
    \/ MirrorRefused(c) \/ MirrorClaims(c)
    \/ \E up \in SUBSET Backends : MirrorSends(c, up) \/ MirrorUnrouted(c, up)
    \/ MirrorFails(c)
    \/ \E x \in Responses : MirrorEnds(c, x)

ShadowNext ==
    \/ \E c \in Calls : Handler(c) \/ ClientLeaves(c) \/ Mirror(c)
    \/ CoolsOff

ShadowSpec == ShadowInit /\ [][ShadowNext]_shadowVars

(* The handler of a call that has begun is polled.  That clients and the   *)
(* primary send what they began, or their connection breaks, is not the    *)
(* code's doing (the forwarder limits the time to connect only) but the    *)
(* premise of NeverWaitsForShadow; nothing is assumed of the mirror's task *)
(* or of the shadow backend.                                               *)
ShadowFairness ==
    \A c \in Calls : WF_shadowVars(pc[c] # "idle" /\ Handler(c))

-----------------------------------------------------------------------------

stageOf(place) ==
    IF place \in {"reading", "ready"} THEN "asked"
    ELSE IF place = "waiting" THEN "sent"
    ELSE IF place \in {"capturing", "relaying"} THEN "answered"
    ELSE place

P == INSTANCE PlainProxy WITH stage <- [c \in Calls |-> stageOf(pc[c])]

(* What the client and the primary see of shadow mode is what they would   *)
(* see of a proxy without it, but for header values that are not text: the *)
(* primary gets the whole request and the client its response, and neither *)
(* the cap, nor the mirror's task, nor anything the shadow backend does    *)
(* shows (handle_shadow, server.rs:215-223).                               *)
LooksLikePlainProxy == P!PlainSpec

(* The client is never made to wait for the shadow backend, or for the     *)
(* task that talks to it (diff.rs:8-9): a call for which the client and    *)
(* the primary do their part ends, even if no mirror ever moves.           *)
NeverWaitsForShadow ==
    \A c \in Calls : pc[c] # "idle" ~> pc[c] \in {"done", "gone"}

(* A half-open shadow breaker has a task that will resolve it, whatever    *)
(* happens to the clients and the primary: the claim is made inside the    *)
(* detached task, "so a claimed probe is always resolved"                  *)
(* (shadow.rs:138-142).                                                    *)
ShadowProbeIsHeld ==
    shadow.state = "HalfOpen" =>
        \E c \in Calls : task[c] \in {"claimed", "mirroring"}

(* Every call the primary admitted is recorded once, on each of the ways   *)
(* it may end, and at most once if its client leaves.                      *)
OneOutcomePerCall ==
    \A c \in Calls :
        /\ recorded[c] <= 1
        /\ pc[c] = "done" => recorded[c] = IF given[c].status = "503" THEN 0 ELSE 1

(* A comparison without divergences is one of equal responses: they agree  *)
(* in status, in what their headers say end to end as text and in the      *)
(* body, all of which was compared.                                        *)
SilenceMeansEqual ==
    \A c \in Calls :
        (task[c] = "ended" /\ twin[c] # NoReply /\ divergences[c] = {}) =>
            /\ twin[c].status = reply[c].status
            /\ text(endToEnd(twin[c].headers)) = text(endToEnd(reply[c].headers))
            /\ twin[c].size = reply[c].size

(* "Expected: zero divergences on identical binaries"                      *)
(* (docs/MIGRATION.md:101): a shadow backend that answers just as the      *)
(* primary did is reported as equal when the body fits the cap.            *)
EqualMeansSilence ==
    \A c \in Calls :
        (twin[c] # NoReply /\ twin[c] = reply[c] /\ reply[c].size <= Cap) =>
            divergences[c] = {}
=============================================================================
