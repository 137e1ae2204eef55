--------------------------------- MODULE Diff ---------------------------------
(***************************************************************************)
(* How the shadow comparison normalises header lines (diff.rs).  A line is *)
(* a key, the field's name in lower case, and a value.  Values are numbers,*)
(* ordered as sort orders them; those in Stamps are well-formed timestamps.*)
(***************************************************************************)
EXTENDS Integers, SequencesExt, BagsExt

Stamps == {8, 9}

StampKeys == {"date", "last-modified"}

(* "<timestamp>".                                                          *)
AnyStamp == 0

normalize_header_value(key, value) ==
    IF key \in StampKeys /\ value \in Stamps THEN AnyStamp ELSE value

(* A slip: the values stay in the order of their lines.                    *)
grouped_normalized_headersInOrder(headers) ==
    [key \in {line.key : line \in Range(headers)} |->
        LET lines == SelectSeq(headers, LAMBDA line : line.key = key)
        IN  [i \in DOMAIN lines |-> normalize_header_value(key, lines[i].value)]]

(* The values of each key, sorted.                                         *)
grouped_normalized_headers(headers) ==
    [key \in {line.key : line \in Range(headers)} |->
        LET lines == SelectSeq(headers, LAMBDA line : line.key = key)
        IN  SortSeq([i \in DOMAIN lines |-> normalize_header_value(key, lines[i].value)],
                    LAMBDA x, y : x < y)]

(* The keys that only one response has or whose values differ.             *)
normalize_header_values(expected, actual) ==
    LET exp == grouped_normalized_headers(expected)
        act == grouped_normalized_headers(actual)
    IN  {key \in DOMAIN exp \cup DOMAIN act :
            \/ key \notin DOMAIN exp \cap DOMAIN act
            \/ exp[key] # act[key]}

-----------------------------------------------------------------------------

(* The lines as a bag in which the time of a timestamp does not matter.    *)
linesOf(headers, key) ==
    FoldLeft(LAMBDA b, line :
                IF line.key # key THEN b
                ELSE b (+) SetToBag({IF key \in StampKeys /\ line.value \in Stamps
                                     THEN AnyStamp ELSE line.value}),
             EmptyBag, headers)

(* A header is reported exactly if its lines differ as a bag: neither the  *)
(* order of lines nor the time in a timestamp matters, and the number of   *)
(* equal lines does.                                                       *)
mismatchIsBagDifference(expected, actual) ==
    normalize_header_values(expected, actual) =
        {line.key : line \in {l \in Range(expected \o actual) :
                                linesOf(expected, l.key) # linesOf(actual, l.key)}}

=============================================================================
