--------------------------------- MODULE MCProxy ---------------------------------
(***************************************************************************)
(* The parts of the proxy that are checked one at a time: the breaker      *)
(* under concurrent requests, shadow mode, the health checker and the      *)
(* comparison of headers.  part says which of them this behaviour is       *)
(* about; the others stand still.                                          *)
(***************************************************************************)
EXTENDS Breaker, Shadow, Health, Diff

CONSTANT ProxyParts     \* the parts that are checked

VARIABLES part, sample

proxyVars == <<part, sample, vars, shadowVars, healthVars>>

MCAsks ==
    {[headers |-> {"connection", "listed", "host", "opaque"}, ids |-> <<"noise", "id">>,
      declared |-> 2, size |-> 2],
     [headers |-> {}, ids |-> <<"id", "id2">>, declared |-> 0, size |-> 0]}

MCBlank == [opaque |-> "blank", noise |-> "no id"]

MCResponses ==
    {[status |-> "2xx", headers |-> {"blank", "id"}, size |-> 1],
     [status |-> "2xx", headers |-> {"opaque", "id"}, size |-> 3],
     [status |-> "5xx", headers |-> {"type", "connection", "listed"}, size |-> 0]}

(* Pairs of short lists of header lines.                                   *)
Lists == SeqOf([key : {"date", "etag"}, value : {1, 2} \union Stamps], 2)

TakeSample == \E e, a \in Lists : sample' = [of |-> "headers", expected |-> e, actual |-> a]

ProxyInit ==
    /\ part \in ProxyParts /\ sample = [of |-> "none"]
    /\ Init /\ ShadowInit /\ HealthInit

ProxyNext ==
    \/ part = "breaker" /\ Next /\ UNCHANGED <<part, sample, shadowVars, healthVars>>
    \/ part = "shadow" /\ ShadowNext /\ UNCHANGED <<part, sample, vars, healthVars>>
    \/ part = "health" /\ HealthNext /\ UNCHANGED <<part, sample, vars, shadowVars>>
    \/ /\ part = "headers" /\ sample.of = "none" /\ TakeSample
       /\ UNCHANGED <<part, vars, shadowVars, healthVars>>

ProxyFairness == \A c \in Calls : WF_shadowVars(part = "shadow" /\ pc[c] # "idle" /\ Handler(c))

ProxySpec == ProxyInit /\ [][ProxyNext]_proxyVars /\ ProxyFairness

-----------------------------------------------------------------------------

(* The shadow comparison reports a header exactly if its lines differ as a *)
(* bag: order and the time of a timestamp do not matter, repetition does   *)
(* (diff.rs: normalize_header_values).                                     *)
MismatchIsBagDifference ==
    sample.of = "headers" => mismatchIsBagDifference(sample.expected, sample.actual)

=============================================================================
