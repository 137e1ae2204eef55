-------------------------------- MODULE Throttle --------------------------------
(***************************************************************************)
(* The bandwidth throttle table of thttpd-core (throttle.rs) as a value: a *)
(* function from rules to entries, and one operator per method.  Rules are *)
(* the table's indexes; what a pattern matches is the constant Match.      *)
(***************************************************************************)
EXTENDS Integers, FiniteSets, FiniteSetsExt

CONSTANTS
    Rules,              \* the indexes of the loaded rules, in file order
    Files,              \* the paths requests name; "" before one is known
    Match,              \* the rules whose pattern matches a path
    MaxLimit,           \* max_limit of each rule (bytes per second)
    MinLimit,           \* min_limit of each rule
    MAX_THROTTLE_NUMS,  \* rules that may apply to one connection
    CGI_BYTECOUNT       \* what a CGI response is charged

ASSUME ThrottleConfig ==
    /\ Rules \subseteq Nat
    /\ IsFiniteSet(Rules)
    /\ Match \in [Files -> SUBSET Rules]
    /\ MaxLimit \in [Rules -> Nat]
    /\ MinLimit \in [Rules -> Nat]
    /\ MAX_THROTTLE_NUMS \in Nat
    /\ CGI_BYTECOUNT \in Nat

THROTTLE_TIME == 2

THROTTLE_NOLIMIT == -1

Entry == [rate : Int, bytes_since_avg : Int, num_sending : Int]

newEntry == [rate |-> 0, bytes_since_avg |-> 0, num_sending |-> 0]

-----------------------------------------------------------------------------

(* The rules check_request looks at for a path: the matching ones, until   *)
(* MAX_THROTTLE_NUMS of them are taken.                                    *)
tnumsFor(f) ==
    {r \in Rules :
        r \in Match[f] /\ Cardinality({q \in Match[f] : q < r}) < MAX_THROTTLE_NUMS}

(* Way over the limit, or below the minimum: the transfer is not started.  *)
(* The increments made before the offending rule are rolled back.          *)
rejects(entries, f) ==
    \E r \in tnumsFor(f) : \/ entries[r].rate > MaxLimit[r] * 2
                           \/ entries[r].rate < MinLimit[r]

(* The admission itself: num_sending, clamped at 0 first, goes up by one.  *)
start(entries, tnums) ==
    [r \in Rules |->
        IF r \in tnums
        THEN [entries[r] EXCEPT !.num_sending = (IF @ < 0 THEN 0 ELSE @) + 1]
        ELSE entries[r]]

clear(entries, tnums) ==
    [r \in Rules |->
        IF r \in tnums
        THEN [entries[r] EXCEPT !.num_sending = @ - 1]
        ELSE entries[r]]

add_bytes(entries, tnums, n) ==
    [r \in Rules |->
        IF r \in tnums
        THEN [entries[r] EXCEPT !.bytes_since_avg = @ + n]
        ELSE entries[r]]

(* A connection's share of its rules: integer division among the senders.  *)
fair_share_for(entries, tnums) ==
    IF tnums = {}
    THEN THROTTLE_NOLIMIT
    ELSE Min({MaxLimit[r] \div Max({entries[r].num_sending, 1}) : r \in tnums})

update_averages(entries) ==
    [r \in Rules |->
        [entries[r] EXCEPT
            !.rate = (2 * @ + entries[r].bytes_since_avg \div THROTTLE_TIME) \div 3,
            !.bytes_since_avg = 0]]
=============================================================================
