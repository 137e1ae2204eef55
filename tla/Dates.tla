--------------------------------- MODULE Dates ---------------------------------
(***************************************************************************)
(* thttpd-tdate: HTTP dates to and from seconds since 1970.  A date text   *)
(* is the record of its parts; the layout (which of the three forms, with  *)
(* or without GMT) is a field of it.  The name of the day, which no parser *)
(* reads, is left out.  Sums over years and days stay exact in TLC's       *)
(* integers when they count days, so epochDays is apart from the seconds.  *)
(***************************************************************************)
EXTENDS Integers, FiniteSetsExt

(* A slip: every fourth year is a leap year.                               *)
is_leap_yearJulian(y) == y % 4 = 0

is_leap_year(y) == (y % 4 = 0 /\ y % 100 # 0) \/ y % 400 = 0

days_in_year(y) == IF is_leap_year(y) THEN 366 ELSE 365

(* Months count from 0.                                                    *)
days_in_month(m, y) ==
    CASE m \in {0, 2, 4, 6, 7, 9, 11} -> 31
      [] m \in {3, 5, 8, 10}          -> 30
      [] m = 1                        -> IF is_leap_year(y) THEN 29 ELSE 28

(* The days part of date_to_epoch: whole years from or to 1970, whole      *)
(* months, then days.                                                      *)
epochDays(year, month, day) ==
    (IF year < 1970 THEN -MapThenSumSet(days_in_year, year .. 1969)
                    ELSE MapThenSumSet(days_in_year, 1970 .. year - 1))
    + MapThenSumSet(LAMBDA m : days_in_month(m, year), 0 .. month - 1)
    + (day - 1)

date_to_epoch(d) ==
    epochDays(d.year, d.month, d.day) * 86400 + d.hour * 3600 + d.min * 60 + d.sec

(* A slip: the window of two-digit years begins in 1930.                   *)
fullYearEarly(y) == IF y < 30 THEN y + 2000 ELSE IF y < 100 THEN y + 1900 ELSE y

(* Two-digit years of RFC 850.                                             *)
fullYear(y) == IF y < 70 THEN y + 2000 ELSE IF y < 100 THEN y + 1900 ELSE y

(* parse_http_date tries the forms in turn; their numbers of words differ, *)
(* so at most one of them takes the text.  No date: {}.                    *)
parse_http_date(text) ==
    CASE text.form = "integer" -> {text.value}
      [] text.form = "rfc1123" -> IF text.gmt THEN {date_to_epoch(text.date)} ELSE {}
      [] text.form = "rfc850"  ->
            IF text.gmt
            THEN {date_to_epoch([text.date EXCEPT !.year = fullYear(@)])}
            ELSE {}
      [] text.form = "asctime" -> {date_to_epoch(text.date)}
      [] OTHER                 -> {}

RECURSIVE yearAndRest(_, _)
yearAndRest(year, remaining) ==
    IF remaining < days_in_year(year)
    THEN <<year, remaining>>
    ELSE yearAndRest(year + 1, remaining - days_in_year(year))

RECURSIVE monthAndRest(_, _, _)
monthAndRest(month, year, remaining) ==
    IF remaining < days_in_month(month, year)
    THEN <<month, remaining>>
    ELSE monthAndRest(month + 1, year, remaining - days_in_month(month, year))

(* The parts of the date that format_http_date writes, for a timestamp     *)
(* that is not negative.                                                   *)
dateOf(timestamp) ==
    LET y    == yearAndRest(1970, timestamp \div 86400)
        m    == monthAndRest(0, y[1], y[2])
        rest == timestamp % 86400
    IN  [day |-> m[2] + 1, month |-> m[1], year |-> y[1],
         hour |-> rest \div 3600, min |-> (rest % 3600) \div 60, sec |-> rest % 60]

format_http_date(timestamp) ==
    [form |-> "rfc1123", gmt |-> TRUE, date |-> dateOf(timestamp)]

-----------------------------------------------------------------------------

(* Reference: the number of a day in the Gregorian calendar, with years    *)
(* that begin in March and no loop.                                        *)
gregorianDay(year, month, day) ==
    LET y  == IF month < 2 THEN year - 1 ELSE year
        m  == (month + 10) % 12
    IN  365 * y + y \div 4 - y \div 100 + y \div 400 + (153 * m + 2) \div 5 + day

(* The other two forms of the text format_http_date writes.                *)
rfc850(text) == [text EXCEPT !.form = "rfc850", !.date.year = @ % 100]

asctime(text) == [text EXCEPT !.form = "asctime", !.gmt = FALSE]

(* Whatever the form a client sends a date back in, it parses to the       *)
(* instant that format_http_date was given (If-Modified-Since carries back *)
(* Last-Modified).                                                         *)
roundTrips(timestamp) ==
    LET text == format_http_date(timestamp)
    IN  \A form \in {text, rfc850(text), asctime(text)} :
            parse_http_date(form) = {timestamp}

(* Days are counted as in the Gregorian calendar.                          *)
isGregorian(year, month, day) ==
    epochDays(year, month, day) = gregorianDay(year, month, day) - gregorianDay(1970, 0, 1)

=============================================================================
