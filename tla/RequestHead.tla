------------------------------- MODULE RequestHead -------------------------------
(***************************************************************************)
(* The machine that finds the end of a request head (thttpd-http parse.rs) *)
(* and how handle_read feeds it: a read brings any number of bytes, and    *)
(* the machine goes on from the index and the state of the last call.      *)
(*                                                                         *)
(* A byte is one of the classes the machine tells apart: white space, CR,  *)
(* LF, anything else.                                                      *)
(***************************************************************************)
EXTENDS Naturals, SequencesExt, FiniteSetsExt

CONSTANT Inputs     \* what a client may send: sequences of Class

VARIABLES
    input,          \* what this client sends
    read_idx,       \* how much of it is in read_buf
    checked_idx, parse_state,
    verdict         \* the result of the last call of got_request

headVars == <<input, read_idx, checked_idx, parse_state, verdict>>

Class == {"ws", "cr", "lf", "x"}

row(ws, cr, lf, x) == [ws |-> ws, cr |-> cr, lf |-> lf, x |-> x]

transition ==
    [FirstWord  |-> row("FirstWs",  "Bogus",      "Bogus",      "FirstWord"),
     FirstWs    |-> row("FirstWs",  "Bogus",      "Bogus",      "SecondWord"),
     SecondWord |-> row("SecondWs", "GotRequest", "GotRequest", "SecondWord"),
     SecondWs   |-> row("SecondWs", "Bogus",      "Bogus",      "ThirdWord"),
     ThirdWord  |-> row("ThirdWs",  "Cr",         "Lf",         "ThirdWord"),
     ThirdWs    |-> row("ThirdWs",  "Cr",         "Lf",         "Bogus"),
     Lf         |-> row("Line",     "Cr",         "GotRequest", "Line"),
     Cr         |-> row("Line",     "GotRequest", "Crlf",       "Line"),
     Crlf       |-> row("Line",     "Crlfcr",     "GotRequest", "Line"),
     Line       |-> row("Line",     "Cr",         "Lf",         "Line"),
     Crlfcr     |-> row("Line",     "GotRequest", "GotRequest", "Line")]

(* One byte: a malformed one is not consumed, and nothing is read after    *)
(* the end.                                                                *)
consume(r, c) ==
    IF r.state \in {"GotRequest", "Bogus"} THEN r
    ELSE LET s == transition[r.state][c]
         IN  [state |-> s,
              checked |-> IF s = "Bogus" THEN r.checked ELSE r.checked + 1,
              verdict |-> CASE s = "GotRequest" -> "GotRequest"
                            [] s = "Bogus" -> "BadRequest"
                            [] OTHER -> "NoRequest"]

got_request(buf, checked, end, state) ==
    FoldLeft(consume, [state |-> state, checked |-> checked, verdict |-> "NoRequest"],
             SubSeq(buf, checked + 1, end))

HeadInit ==
    /\ input \in Inputs
    /\ read_idx = 0 /\ checked_idx = 0 /\ parse_state = "FirstWord" /\ verdict = "NoRequest"

(* Slip: the state is not carried over from read to read.                  *)
FeedRestarts(n) ==
    LET r == got_request(input, checked_idx, read_idx + n, "FirstWord")
    IN  /\ verdict = "NoRequest" /\ read_idx + n <= Len(input)
        /\ read_idx' = read_idx + n
        /\ checked_idx' = r.checked /\ parse_state' = r.state /\ verdict' = r.verdict
        /\ UNCHANGED input

(* handle_read: n more bytes, then the machine.                            *)
Feed(n) ==
    LET r == got_request(input, checked_idx, read_idx + n, parse_state)
    IN  /\ verdict = "NoRequest" /\ read_idx + n <= Len(input)
        /\ read_idx' = read_idx + n
        /\ checked_idx' = r.checked /\ parse_state' = r.state /\ verdict' = r.verdict
        /\ UNCHANGED input

HeadNext == \E n \in 1..Len(input) : Feed(n)

HeadSpec == HeadInit /\ [][HeadNext]_headVars

-----------------------------------------------------------------------------

(* The reference: what a head is, without a machine.  The request line is  *)
(* what precedes the first CR or LF; runs of white space separate words.   *)
gaps(s) == Cardinality({i \in DOMAIN s : s[i] = "ws" /\ (i = 1 \/ s[i - 1] # "ws")})

endsInGap(s) == s # <<>> /\ Last(s) = "ws"

threeWords(s) == (gaps(s) = 2 /\ ~endsInGap(s)) \/ (gaps(s) = 3 /\ endsInGap(s))
twoWords(s)   == gaps(s) = 1 /\ ~endsInGap(s)

blankLine(s) ==
    \E e \in {<<"lf", "lf">>, <<"cr", "cr">>, <<"cr", "lf", "cr", "lf">>} : IsSuffix(e, s)

(* Positions after which a head in s may end.                              *)
headEnds(s) ==
    LET eol == {i \in DOMAIN s : s[i] \in {"cr", "lf"}}
        one == IF eol = {} THEN 0 ELSE Min(eol)
        line == SubSeq(s, 1, one - 1)
    IN  CASE one = 0 -> {}
          [] one > 0 /\ twoWords(line) -> {one}
          [] one > 0 /\ threeWords(line) ->
                {n \in (one + 1)..Len(s) : blankLine(SubSeq(s, one, n))}
          [] OTHER -> {}

(* A request is complete exactly when a head has arrived: two words on a   *)
(* line (HTTP/0.9), or three and an empty line after them; and it ends at  *)
(* the first place where one does.                                         *)
HeadFoundAtItsEnd ==
    LET ends == headEnds(SubSeq(input, 1, read_idx))
    IN  /\ verdict = "GotRequest" <=> ends # {}
        /\ verdict = "GotRequest" => checked_idx = Min(ends)
=============================================================================
