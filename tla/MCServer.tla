-------------------------------- MODULE MCServer --------------------------------
(***************************************************************************)
(* The parts of the server that share no state with one another, checked   *)
(* together: part says which of them this behaviour is about, and the      *)
(* others stand still.  The algorithms are evaluated on samples.           *)
(***************************************************************************)
EXTENDS Timers, Cache, Cgi, Startup, RequestHead, Roots,
        Settings, Dates, Ranges, Paths

CONSTANT ServerParts    \* the parts that are checked

VARIABLES part, sample

serverVars == <<part, sample, timersVars, cacheVars, cgiVars, startupVars, headVars, rootsVars>>

-----------------------------------------------------------------------------

MCInputs ==
    [1..6 -> Class] \union {<<"x", "ws", "x", "ws", "x">> \o t : t \in [1..5 -> Class]}

MCConfigs == {[daemonize |-> TRUE, do_chroot |-> TRUE, user |-> TRUE],
              [daemonize |-> FALSE, do_chroot |-> TRUE, user |-> FALSE]}

absolute(names) == [abs |-> TRUE, names |-> names]
relative(names) == [abs |-> FALSE, names |-> names]

MCDirs     == {absolute(<<"srv">>), slash, dot, relative(<<"www">>)}
MCDataDirs == {NoDir, absolute(<<"data">>), relative(<<"data">>)}
MCLogs     == {absolute(<<"srv", "log">>), absolute(<<"var">>), relative(<<"log">>)}
MCHome     == <<"home">>

one(S) == CHOOSE x \in S : TRUE

-----------------------------------------------------------------------------

(* The samples: an input of one algorithm.                                 *)
Instants == {d * 86400 + s : d \in {29 * k : k \in 0..850} \union (365..1500), s \in {0, 86399}}

Years == {1899, 1900, 1904, 1969, 1970, 1972, 1999, 2000, 2001, 2100}

Options == {"value", "chroot", "nochroot", "symlinks", "nosymlinks", "vhost", "novhost"}

TakeSample ==
    \/ \E t \in Instants : sample' = [of |-> "instant", instant |-> t]
    \/ \E y \in Years, m \in 0..11, d \in {1, 28} :
            sample' = [of |-> "day", year |-> y, month |-> m, day |-> d]
    \/ \E h \in [several : BOOLEAN, first : -1..4, last : -1..4], n \in 0..3, b \in BOOLEAN :
            sample' = [of |-> "range", header |-> h, size |-> n, checked |-> b]
    \/ \E s \in SeqOf({"", ".", "..", "a", "b"}, 5) : sample' = [of |-> "url", url |-> s]
    \/ \E p \in SeqOf({"*", "?", "/", "a", "|"}, 4), f \in SeqOf({"/", "a", "b"}, 3) :
            sample' = [of |-> "glob", pattern |-> p, filename |-> f]
    \/ \E f \in SeqOf(Options, 2), a \in {s \in SeqOf(Options, 3) : IsInjective(s)} :
            sample' = [of |-> "options", options |-> f, args |-> a]

-----------------------------------------------------------------------------

ServerInit ==
    /\ part \in ServerParts
    /\ sample = [of |-> "none"]
    /\ TimersInit /\ CgiInit
    /\ IF part = "cache" THEN CacheInit ELSE file = one([Paths -> File]) /\ CacheInit
    /\ IF part = "startup" THEN StartupInit ELSE config = one(Configs) /\ StartupInit
    /\ IF part = "head" THEN HeadInit ELSE input = one(Inputs) /\ HeadInit
    /\ IF part = "roots" THEN RootsInit
       ELSE /\ dir = slash /\ data_dir = NoDir /\ do_chroot = FALSE
            /\ logPath = one(Logs) /\ RootsInit

(* A step of one part leaves the others alone.                             *)
within(p, others) == part = p /\ UNCHANGED <<part, others>>

inTimers  == within("timers", <<sample, cacheVars, cgiVars, startupVars, headVars, rootsVars>>)
inCache   == within("cache", <<sample, timersVars, cgiVars, startupVars, headVars, rootsVars>>)
inCgi     == within("cgi", <<sample, timersVars, cacheVars, startupVars, headVars, rootsVars>>)
inStartup == within("startup", <<sample, timersVars, cacheVars, cgiVars, headVars, rootsVars>>)
inHead    == within("head", <<sample, timersVars, cacheVars, cgiVars, startupVars, rootsVars>>)
inRoots   == within("roots", <<sample, timersVars, cacheVars, cgiVars, startupVars, headVars>>)
inSample  == within("algorithms", <<timersVars, cacheVars, cgiVars, startupVars, headVars, rootsVars>>)

ServerNext ==
    \/ inTimers /\ TimersNext
    \/ inCache /\ CacheNext
    \/ inCgi /\ CgiNext
    \/ inStartup /\ StartupNext
    \/ inHead /\ HeadNext
    \/ inRoots /\ RootsNext
    \/ inSample /\ sample.of = "none" /\ TakeSample

(* The fairness of each part, for the behaviours that are about it.        *)
ServerFairness ==
    /\ WF_cacheVars(part = "cache" /\ Cleanup) /\ WF_cacheVars(part = "cache" /\ Age)
    /\ WF_cgiVars(part = "cgi" /\ ServerStep) /\ WF_cgiVars(part = "cgi" /\ ScriptStep)
    /\ \A s \in Starts :
        WF_startupVars(part = "startup" /\ (StartStep(s) \/ \E r \in Role : ProcessStep(<<s, r>>)))

ServerSpec == ServerInit /\ [][ServerNext]_serverVars /\ ServerFairness

-----------------------------------------------------------------------------

(* A timestamp written by format_http_date, or the same date in the two    *)
(* older forms, is read back as itself (tdate: parse_http_date), across    *)
(* leap years, the ends of months and the window of two-digit years.       *)
DatesRoundTrip == sample.of = "instant" => roundTrips(sample.instant)

(* date_to_epoch counts the days of the Gregorian calendar, before and     *)
(* after 1970 and in centuries that are and are not leap years.            *)
DatesAreGregorian == sample.of = "day" => isGregorian(sample.year, sample.month, sample.day)

(* For every range, size of the file and kind of build: the slice panics   *)
(* only for a reversed range or, with overflow checks, an empty file; and  *)
(* otherwise, unless the range is reversed, the body, Content-Length and   *)
(* Content-Range are about the same bytes, the ones asked for              *)
(* (serve_static, eventloop.rs:1258-1428; build_full_response).            *)
RangesAreExact ==
    sample.of = "range" => rangeIsExact(sample.header, sample.size, sample.checked)

(* normalize_path refuses exactly the paths with an empty inner part or    *)
(* that climb above the root at some point, and keeps of the others the    *)
(* names that no ".." takes back.                                          *)
NormalPathIsTheWalk == sample.of = "url" => normalIsWalk(sample.url)

(* The search of match_pattern accepts exactly the language of the         *)
(* pattern, where "*" stops at a slash, "**" does not, and "|" separates   *)
(* alternatives.                                                           *)
MatchIsTheLanguage == sample.of = "glob" => matchIsLanguage(sample.pattern, sample.filename)

(* Whatever the order of toggles, each setting is decided by the last      *)
(* option that concerns it, the command line after the file (from_cli,     *)
(* apply_legacy_toggle_order).                                             *)
LastOptionWins == sample.of = "options" => lastOptionWins(sample.options, sample.args)

=============================================================================
