-------------------------------- MODULE Health --------------------------------
(***************************************************************************)
(* The active health checker of thttpd-migrate (health.rs): one task       *)
(* probes the backends one after the other, sleeps, and starts again.  A   *)
(* probe ends in a 2xx status, or in another status, an error or a         *)
(* timeout, which all count as failures.                                   *)
(***************************************************************************)
EXTENDS Integers, Sequences, FiniteSetsExt

CONSTANTS
    Members,            \* the backends of the pool
    failure_threshold,  \* HealthConfig
    success_threshold,
    MaxProbes           \* bound: probes of a backend

ASSUME HealthConfig ==
    /\ failure_threshold \in Nat \ {0} /\ success_threshold \in Nat \ {0}
    /\ MaxProbes \in Nat

VARIABLES
    health, consecutive_failures, consecutive_successes,
    turn,       \* the backends still to probe in this round
    probes      \* history: the outcomes of the probes of a backend

healthVars == <<health, consecutive_failures, consecutive_successes, turn, probes>>

HealthInit ==
    /\ health = [b \in Members |-> "Healthy"]
    /\ consecutive_failures = [b \in Members |-> 0]
    /\ consecutive_successes = [b \in Members |-> 0]
    /\ turn = Members
    /\ probes = [b \in Members |-> <<>>]

(* A slip: a success does not end a run of failures.                       *)
SucceedsKeepsCount(b) ==
    LET n == consecutive_successes[b] + 1
    IN  /\ consecutive_successes' = [consecutive_successes EXCEPT ![b] = n]
        /\ health' = IF n >= success_threshold
                     THEN [health EXCEPT ![b] = "Healthy"] ELSE health
        /\ UNCHANGED consecutive_failures

(* update_health after a success, and after a failure.                     *)
Succeeds(b) ==
    LET n == consecutive_successes[b] + 1
    IN  /\ consecutive_failures' = [consecutive_failures EXCEPT ![b] = 0]
        /\ consecutive_successes' = [consecutive_successes EXCEPT ![b] = n]
        /\ health' = IF n >= success_threshold
                     THEN [health EXCEPT ![b] = "Healthy"] ELSE health

Fails(b) ==
    LET n == consecutive_failures[b] + 1
    IN  /\ consecutive_successes' = [consecutive_successes EXCEPT ![b] = 0]
        /\ consecutive_failures' = [consecutive_failures EXCEPT ![b] = n]
        /\ health' = IF n >= failure_threshold
                     THEN [health EXCEPT ![b] = "Unhealthy"] ELSE health

Probe(b, success) ==
    /\ b \in turn /\ Len(probes[b]) < MaxProbes
    /\ IF success THEN Succeeds(b) ELSE Fails(b)
    /\ probes' = [probes EXCEPT ![b] = Append(@, success)]
    /\ turn' = turn \ {b}

(* The interval has passed.                                                *)
Round ==
    /\ turn = {}
    /\ turn' = Members
    /\ UNCHANGED <<health, consecutive_failures, consecutive_successes, probes>>

HealthNext == Round \/ \E b \in Members, success \in BOOLEAN : Probe(b, success)

HealthSpec == HealthInit /\ [][HealthNext]_healthVars

-----------------------------------------------------------------------------

threshold(success) == IF success THEN success_threshold ELSE failure_threshold

(* The probes of h that end a run of as many equal outcomes as it takes.   *)
decisive(h) ==
    {i \in 1 .. Len(h) :
        /\ i >= threshold(h[i])
        /\ \A j \in i - threshold(h[i]) + 1 .. i : h[j] = h[i]}

(* A backend is what the last uninterrupted run of enough equal outcomes   *)
(* said, and Healthy before there was one: single probes that differ never *)
(* change it and never add up (update_health, health.rs:55-78).            *)
HealthFollowsProbes ==
    \A b \in Members :
        LET h == probes[b]
        IN  health[b] = IF decisive(h) = {} \/ h[Max(decisive(h))]
                        THEN "Healthy" ELSE "Unhealthy"
=============================================================================
