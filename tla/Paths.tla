--------------------------------- MODULE Paths ---------------------------------
(***************************************************************************)
(* What becomes of a URL's path: normalize_path (url.rs), and the patterns *)
(* of CGI and throttle rules it is matched with (thttpd-match).  A path to *)
(* be normalised is the sequence of its parts between slashes; patterns    *)
(* and file names are sequences of one-letter strings.                     *)
(***************************************************************************)
EXTENDS Integers, SequencesExt

NoPath == <<"none">>

isName(part) == part \notin {"", ".", ".."}

(* Two slashes in a row: an empty part between two others.                 *)
doubleSlash(parts) == \E i \in 2 .. Len(parts) - 1 : parts[i] = ""

(* A slip: .. at the root is ignored.                                      *)
pushPartClamped(components, part) ==
    IF components = NoPath
    THEN NoPath
    ELSE CASE isName(part) -> Append(components, part)
           [] part = ".."  -> IF components = <<>> THEN <<>> ELSE Front(components)
           [] OTHER        -> components

pushPart(components, part) ==
    IF components = NoPath
    THEN NoPath
    ELSE CASE isName(part) -> Append(components, part)
           [] part = ".."  -> IF components = <<>> THEN NoPath ELSE Front(components)
           [] OTHER        -> components

(* The components of the result, NoPath where the code returns None.       *)
normalize_path(parts) ==
    IF doubleSlash(parts) THEN NoPath ELSE FoldLeft(pushPart, <<>>, parts)

-----------------------------------------------------------------------------

(* A slip: a star at the end takes slashes as well.                        *)
trailingStarAll(filename) == TRUE

(* A star at the end matches what is left of one component.                *)
trailingStar(filename) == "/" \notin Range(filename)

(* match_single.                                                           *)
RECURSIVE match_single(_, _)
match_single(pattern, filename) ==
    LET rest(k) == SubSeq(filename, k, Len(filename))
    IN  IF pattern = <<>> THEN filename = <<>>
        ELSE IF pattern[1] = "*" /\ Len(pattern) > 1 /\ pattern[2] = "*"
        THEN LET p == Tail(Tail(pattern))
             IN  p = <<>> \/ \E k \in 1 .. Len(filename) + 1 : match_single(p, rest(k))
        ELSE IF pattern[1] = "*"
        THEN LET p == Tail(pattern)
             IN  IF p = <<>> THEN trailingStar(filename)
                 ELSE \E k \in 1 .. Len(filename) + 1 :
                        /\ \A j \in 1 .. k - 1 : filename[j] # "/"
                        /\ match_single(p, rest(k))
        ELSE /\ filename # <<>>
             /\ pattern[1] \in {"?", filename[1]}
             /\ match_single(Tail(pattern), Tail(filename))

(* pattern.split('|').                                                     *)
alternatives(pattern) ==
    LET bars == {i \in 1 .. Len(pattern) : pattern[i] = "|"} \union {0, Len(pattern) + 1}
    IN  {SubSeq(pattern, i + 1, Min({j \in bars : j > i}) - 1) : i \in bars \ {Len(pattern) + 1}}

match_pattern(pattern, filename) ==
    \E sub \in alternatives(pattern) : match_single(sub, filename)

-----------------------------------------------------------------------------

(* Reference for normalize_path: how deep a path is after its first n      *)
(* parts, and the names that no later .. takes back.                       *)
count(parts, n, P(_)) == Cardinality({i \in 1 .. n : P(parts[i])})

depth(parts, n) == count(parts, n, isName) - count(parts, n, LAMBDA p : p = "..")

kept(parts) ==
    LET I == {i \in 1 .. Len(parts) :
                /\ isName(parts[i])
                /\ \A n \in i .. Len(parts) : depth(parts, n) >= depth(parts, i)}
    IN  [k \in 1 .. Cardinality(I) |->
            parts[CHOOSE i \in I : Cardinality({j \in I : j <= i}) = k]]

(* normalize_path refuses the paths that at some point leave the root, and *)
(* answers with the names that remain.                                     *)
normalIsWalk(parts) ==
    normalize_path(parts) =
        IF doubleSlash(parts) \/ \E n \in 1 .. Len(parts) : depth(parts, n) < 0
        THEN NoPath
        ELSE kept(parts)

(* Reference for match_pattern: the tokens of an alternative, what each    *)
(* may match, and a way to cut the name into one piece per token.          *)
RECURSIVE tokens(_)
tokens(p) ==
    IF p = <<>> THEN <<>>
    ELSE IF Len(p) > 1 /\ p[1] = "*" /\ p[2] = "*" THEN <<"**">> \o tokens(SubSeq(p, 3, Len(p)))
    ELSE <<p[1]>> \o tokens(Tail(p))

takes(token, piece) ==
    CASE token = "**" -> TRUE
      [] token = "*"  -> "/" \notin Range(piece)
      [] token = "?"  -> Len(piece) = 1
      [] OTHER        -> piece = <<token>>

RECURSIVE language(_, _)
language(p, f) ==
    LET t == tokens(p)
    IN  IF \E i \in 1 .. Len(p) : p[i] = "|"
        THEN \E i \in 1 .. Len(p) :
                /\ p[i] = "|"
                /\ language(SubSeq(p, 1, i - 1), f) \/ language(SubSeq(p, i + 1, Len(p)), f)
        ELSE \E cut \in [0 .. Len(t) -> 0 .. Len(f)] :
                /\ cut[0] = 0 /\ cut[Len(t)] = Len(f)
                /\ \A i \in 1 .. Len(t) :
                      /\ cut[i - 1] <= cut[i]
                      /\ takes(t[i], SubSeq(f, cut[i - 1] + 1, cut[i]))

(* The search finds a match if there is one.                               *)
matchIsLanguage(pattern, filename) ==
    match_pattern(pattern, filename) <=> language(pattern, filename)

=============================================================================
