------------------------------ MODULE PlainProxy ------------------------------
(***************************************************************************)
(* What a proxy in front of one backend promises, whatever it does on the  *)
(* side: the backend gets the whole request, and the client gets what that *)
(* backend answered, or an error, or, when the backend's connection breaks *)
(* on the way, a part of the body.                                         *)
(***************************************************************************)
EXTENDS Messages

CONSTANTS Calls, Asks, Responses

VARIABLES stage, ask, received, reply, given

plainVars == <<stage, ask, received, reply, given>>

NoAsk == [headers |-> {}, ids |-> <<>>, declared |-> 0, size |-> 0]

NoRequest == [headers |-> {}, declared |-> 0, size |-> 0]

NoReply == [status |-> "none", headers |-> {}, size |-> 0]

(* Nothing, the answer of a backend, or an error of the proxy's own.       *)
given0 == [status |-> "none", headers |-> {}, size |-> 0, whole |-> FALSE]

failure(code) == [status |-> code, headers |-> {}, size |-> 0, whole |-> TRUE]

(* The request as the backend is to get it.                                *)
forwarded(a) == [headers |-> requestHeaders(a), declared |-> a.declared,
                 size |-> a.size]

PlainInit ==
    /\ stage = [r \in Calls |-> "idle"]
    /\ ask = [r \in Calls |-> NoAsk]
    /\ received = [r \in Calls |-> NoRequest]
    /\ reply = [r \in Calls |-> NoReply]
    /\ given = [r \in Calls |-> given0]

Receive(r) ==
    /\ stage[r] = "idle"
    /\ stage' = [stage EXCEPT ![r] = "asked"]
    /\ \E a \in Asks : ask' = [ask EXCEPT ![r] = a]
    /\ UNCHANGED <<received, reply, given>>

Send(r) ==
    /\ stage[r] = "asked"
    /\ stage' = [stage EXCEPT ![r] = "sent"]
    /\ received' = [received EXCEPT ![r] = forwarded(ask[r])]
    /\ UNCHANGED <<ask, reply, given>>

Reply(r) ==
    /\ stage[r] = "sent"
    /\ stage' = [stage EXCEPT ![r] = "answered"]
    /\ \E x \in Responses : reply' = [reply EXCEPT ![r] = x]
    /\ UNCHANGED <<ask, received, given>>

(* The backend's answer: all of it, or less when it is not whole.  Of a    *)
(* header whose value is not text the client may get the name alone.       *)
Deliver(r) ==
    /\ stage[r] = "answered"
    /\ stage' = [stage EXCEPT ![r] = "done"]
    /\ \E n \in 0 .. reply[r].size, whole \in BOOLEAN,
          H \in {userHeaders(ask[r], reply[r].headers), mirroredHeaders(ask[r], reply[r].headers)} :
          /\ whole => n = reply[r].size
          /\ given' = [given EXCEPT ![r] =
                [status  |-> reply[r].status,
                 headers |-> H,
                 size    |-> n,
                 whole   |-> whole]]
    /\ UNCHANGED <<ask, received, reply>>

Fail(r) ==
    /\ stage[r] \in {"idle", "asked", "sent", "answered"}
    /\ stage' = [stage EXCEPT ![r] = "done"]
    /\ \E code \in {"502", "503"} : given' = [given EXCEPT ![r] = failure(code)]
    /\ UNCHANGED <<ask, received, reply>>

(* The client goes away.                                                   *)
Leave(r) ==
    /\ stage[r] \in {"asked", "sent", "answered"}
    /\ stage' = [stage EXCEPT ![r] = "gone"]
    /\ UNCHANGED <<ask, received, reply, given>>

PlainNext ==
    \E r \in Calls :
        Receive(r) \/ Send(r) \/ Reply(r) \/ Deliver(r) \/ Fail(r) \/ Leave(r)

PlainSpec == PlainInit /\ [][PlainNext]_plainVars
=============================================================================
