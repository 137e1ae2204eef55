-------------------------------- MODULE Breaker --------------------------------
(***************************************************************************)
(* One circuit breaker shared by the requests of the proxy.  A request is  *)
(* admitted, is in flight while its handler awaits the backend, and then   *)
(* reports its outcome; any number of others run between the two.  The     *)
(* methods are atomic here; BreakerThreads.tla interleaves their accesses. *)
(*                                                                         *)
(* A request is "plain" when it was admitted by a Closed breaker and       *)
(* "probe" when its admission claimed the half-open slot.  The code keeps  *)
(* no such mark: record() cannot tell the two apart.                       *)
(***************************************************************************)
EXTENDS BreakerOps

CONSTANTS
    Requests,   \* the requests that may be in flight at once
    MaxTotal    \* bound: outcomes counted in one window

VARIABLES breaker, request

vars == <<breaker, request>>

TypeOK ==
    /\ breaker \in BreakerValue
    /\ request \in [Requests -> {"none", "plain", "probe"}]

Init ==
    /\ breaker = newBreaker
    /\ request = [r \in Requests |-> "none"]

-----------------------------------------------------------------------------

(* breaker_admit on the selected backend (router.rs, shadow.rs).  A        *)
(* refused caller changes nothing and is not in flight.                    *)
Admit(r) ==
    /\ request[r] = "none"
    /\ admits(breaker)
    /\ breaker' = try_admit(breaker)
    /\ request' = [request EXCEPT ![r] = IF breaker.state = "Closed"
                                         THEN "plain" ELSE "probe"]

(* The response, or the forwarding error, reaches record_outcome.          *)
Finish(r, success) ==
    /\ request[r] # "none"
    /\ breaker.window.expired \/ breaker.window.total < MaxTotal
    /\ breaker' = record(breaker, success)
    /\ request' = [request EXCEPT ![r] = "none"]

(* A mirrored request whose primary is no longer routable.                 *)
Unmirrored(r) ==
    /\ request[r] # "none"
    /\ breaker' = release_probe(breaker)
    /\ request' = [request EXCEPT ![r] = "none"]

(* The client goes away and hyper drops the handler's future while it      *)
(* awaits the backend: no outcome is ever recorded.                        *)
Cancel(r) ==
    /\ request[r] # "none"
    /\ request' = [request EXCEPT ![r] = "none"]
    /\ UNCHANGED breaker

CoolOff ==
    /\ breaker.opened_at = "fresh"
    /\ breaker' = cool(breaker)
    /\ UNCHANGED request

WindowExpires ==
    /\ ~breaker.window.expired
    /\ breaker' = expire(breaker)
    /\ UNCHANGED request

(* Every admitted request runs to its outcome.                             *)
Resolving ==
    \/ \E r \in Requests : \/ Admit(r)
                           \/ \E success \in BOOLEAN : Finish(r, success)
                           \/ Unmirrored(r)
    \/ CoolOff
    \/ WindowExpires

Next == Resolving \/ \E r \in Requests : Cancel(r)

(* The proxy as it is, and the proxy when no client gives up on a request. *)
Spec == Init /\ [][Next]_vars

PatientSpec == Init /\ [][Resolving]_vars

-----------------------------------------------------------------------------

(* The slot is claimed exactly while the breaker is half-open, and there   *)
(* is a trip time exactly while it is not closed: the four fields, which   *)
(* circuit.rs updates one by one, describe one and the same situation.     *)
FieldsAgree ==
    /\ breaker.probe_in_flight <=> breaker.state = "HalfOpen"
    /\ breaker.opened_at = "None" <=> breaker.state = "Closed"
    /\ breaker.state = "HalfOpen" => breaker.opened_at = "cooled"

(* The window that is kept never justifies a trip: the outcome that takes  *)
(* the error rate over the threshold opens the breaker at once, whatever   *)
(* the order in which late outcomes arrive (record, circuit.rs:96-114).    *)
KeptWindowIsBelowThreshold ==
    /\ breaker.window.errors <= breaker.window.total
    /\ ~overThreshold(breaker.window)

(* An open breaker nobody is using can be probed again once it has cooled  *)
(* off: no sequence of calls, cancelled requests included, leaves it Open  *)
(* for good (can_route, circuit.rs:132-138).                               *)
IdleOpenBreakerRecovers ==
    (/\ \A r \in Requests : request[r] = "none"
     /\ breaker.state = "Open"
     /\ breaker.opened_at # "fresh")
    => can_route(breaker)

(* A half-open breaker is waiting for a probe that is really in flight, so *)
(* "a success closes it, a failure re-opens it" (circuit.rs:6-7) and it    *)
(* does not stay half-open for ever.                                       *)
HalfOpenHasProbe ==
    breaker.state = "HalfOpen" => \E r \in Requests : request[r] = "probe"
=============================================================================
