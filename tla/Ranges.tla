-------------------------------- MODULE Ranges --------------------------------
(***************************************************************************)
(* A byte range from the Range header to the answer: the header's parts    *)
(* (process_request), the last byte (serve_static), the slice of the file  *)
(* and the head that build_full_response puts before it.  -1 is a part     *)
(* that is missing or not a number.  A body is the half-open interval of   *)
(* the file's bytes that is sent, or Panic: the slice cannot be taken, and *)
(* the thread, which is the server, ends.                                  *)
(***************************************************************************)
EXTENDS Integers

Missing == -1

Panic == <<-1, -1>>

NoRange == [got |-> FALSE, first |-> 0, last |-> Missing]

(* One range with a first byte, or the header is ignored.                  *)
parseRange(header) ==
    IF header.several \/ header.first = Missing
    THEN NoRange
    ELSE [got |-> TRUE, first |-> header.first, last |-> header.last]

(* A slip: a last byte just past the end is not clipped.                   *)
fillLastLate(r, size) ==
    IF r.got /\ (r.last = Missing \/ r.last > size) THEN [r EXCEPT !.last = size - 1] ELSE r

fillLast(r, size) ==
    IF r.got /\ (r.last = Missing \/ r.last >= size) THEN [r EXCEPT !.last = size - 1] ELSE r

(* data[start..end], or all of it when the bounds do not fit.  end is      *)
(* (last as usize) + 1: of a last byte -1 that overflows, which panics in  *)
(* a build with overflow checks (checked) and wraps to 0 in one without.   *)
bodyOf(r, size, checked) ==
    IF ~r.got THEN <<0, size>>
    ELSE IF r.last < 0 /\ checked THEN Panic
    ELSE IF r.first >= size \/ r.last + 1 > size THEN <<0, size>>
    ELSE IF r.first > r.last + 1 THEN Panic
    ELSE <<r.first, r.last + 1>>

(* range_if is never set, so it does not stand in the way.                 *)
partial(r, size) ==
    r.got /\ r.last >= r.first /\ (r.last # size - 1 \/ r.first # 0)

(* Status, Content-Range and Content-Length.                               *)
build_full_response(r, size) ==
    IF partial(r, size)
    THEN [status |-> 206, range |-> <<r.first, r.last>>, length |-> (r.last - r.first) + 1]
    ELSE [status |-> 200, range |-> <<>>, length |-> size]

serve(header, size, checked) ==
    LET r == fillLast(parseRange(header), size)
    IN  [head |-> build_full_response(r, size), body |-> bodyOf(r, size, checked)]

-----------------------------------------------------------------------------

(* A range whose last byte is before its first.                            *)
reversed(header) ==
    ~header.several /\ header.first # Missing /\ header.last # Missing /\ header.last < header.first

(* Reference: the bytes of the file that a header asks for.                *)
asked(header, size) ==
    IF header.several \/ header.first = Missing \/ header.first >= size
    THEN 0 .. size - 1
    ELSE {i \in header.first .. size - 1 : header.last = Missing \/ i <= header.last}

(* No answer is made of a range of an empty file when overflow is checked, *)
(* and of some reversed ranges.  Otherwise, if the range is not reversed,  *)
(* the body is what was asked for, the head declares its length, and       *)
(* Content-Range, when there is one, its ends.                             *)
rangeIsExact(header, size, checked) ==
    LET a == serve(header, size, checked)
    IN  /\ a.body = Panic => reversed(header) \/ (checked /\ size = 0)
        /\ (a.body # Panic /\ ~reversed(header)) =>
              /\ a.body[1] .. a.body[2] - 1 = asked(header, size)
              /\ a.head.length = a.body[2] - a.body[1]
              /\ a.head.status = 206 => a.head.range = <<a.body[1], a.body[2] - 1>>

=============================================================================
