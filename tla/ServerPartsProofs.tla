------------------------- MODULE ServerPartsProofs -------------------------
(***************************************************************************)
(* Parts of the server on their own: the timers, the file cache, the CGI   *)
(* count and byte ranges.                                                  *)
(***************************************************************************)
EXTENDS Timers, Cache, Cgi, Ranges, TLAPS

(* The wheel implements Alarms, for any number of timers and any delays.   *)
(* The step to the abstract specification needs MarksHitTheirTimer: a mark *)
(* stands for one entry, so dropping it brings back no other one.          *)

TimersInv == TimersTypeOK /\ MarksHitTheirTimer

(* A pushed entry has the next id, which no entry and no mark has.         *)
LEMMA PushTyped ==
    ASSUME TimersInv, NEW delay \in Nat, NEW period \in Nat, NEW callback \in Nat,
           NEW kept \in SUBSET heap
    PROVE  /\ push(kept, delay, period, callback) \subseteq TimerEntry
           /\ \A e \in kept : e.id < next_id
  BY DEF TimersInv, TimersTypeOK, MarksHitTheirTimer, push, TimerEntry

(* The heap after a run holds kept of before, or ones that start over   *)
(* with their own id.                                                      *)
LEMMA RunKeepsIds ==
    ASSUME TimersInv, Run
    PROVE  /\ heap' \subseteq TimerEntry
           /\ \A e \in heap' : \E f \in heap :
                 /\ e.id = f.id
                 /\ \/ e = f /\ f.deadline > clock
                    \/ /\ f.deadline <= clock /\ ~is_cancelled(f)
                       /\ e = [f EXCEPT !.deadline = clock + f.period]
           /\ cancelled' \subseteq cancelled
  BY DEF TimersInv, TimersTypeOK, Run, TimerEntry, is_cancelled

LEMMA TimersInvHolds == TimersSpec => []TimersInv
<1>1. TimersInit => TimersInv
  BY DEF TimersInit, TimersInv, TimersTypeOK, MarksHitTheirTimer
<1>2. TimersInv /\ [TimersNext]_timersVars => TimersInv'
  <2> SUFFICES ASSUME TimersInv, [TimersNext]_timersVars PROVE TimersInv'
    OBVIOUS
  <2> USE TimersConfig DEF TimersInv
  <2>1. ASSUME NEW delay \in Delays, NEW period \in Delays \union {0}, Create(delay, period)
        PROVE  TimersInv'
    <3>1. TimersTypeOK'
      BY <2>1, PushTyped DEF Create, TimersTypeOK
    <3>2. MarksHitTheirTimer'
      BY <2>1 DEF Create, push, TimersTypeOK, MarksHitTheirTimer, TimerEntry
    <3> QED BY <3>1, <3>2
  <2>2. ASSUME NEW id \in 0..(next_id - 1), Cancel(id) PROVE TimersInv'
    BY <2>2 DEF Cancel, TimersTypeOK, MarksHitTheirTimer, TimerEntry
  <2>3. ASSUME NEW id \in 0..(next_id - 1), NEW delay \in Delays, Reset(id, delay)
        PROVE  TimersInv'
    <3>1. CASE \A e \in heap : e.id # id
      BY <2>3, <3>1 DEF Reset, TimersTypeOK, MarksHitTheirTimer
    <3>2. CASE \E e \in heap : e.id = id
      <4>1. PICK old \in heap :
               /\ heap' = push(heap \ {old}, delay, old.period, old.callback)
               /\ cancelled' = cancelled \ {id}
               /\ next_id' = next_id + 1
        BY <2>3, <3>2 DEF Reset
      <4>2. TimersTypeOK'
        <5>1. old.period \in Nat /\ old.callback \in Nat
          BY DEF TimersTypeOK, TimerEntry
        <5>2. heap' \subseteq TimerEntry
          BY <4>1, <5>1, PushTyped
        <5> QED BY <2>3, <4>1, <5>2 DEF Reset, TimersTypeOK
      <4>3. MarksHitTheirTimer'
        BY <4>1 DEF push, TimersTypeOK, MarksHitTheirTimer, TimerEntry
      <4> QED BY <4>2, <4>3
    <3> QED BY <3>1, <3>2
  <2>4. CASE Run
    <3>1. TimersTypeOK'
      <4>1. rang' \subseteq Nat
        BY <2>4 DEF Run, TimersTypeOK, TimerEntry
      <4> QED BY <2>4, <4>1, RunKeepsIds DEF Run, TimersTypeOK
    <3>2. ASSUME NEW e \in heap', NEW f \in heap', e.id = f.id PROVE e = f
      BY <2>4, <3>2, RunKeepsIds DEF TimersTypeOK, MarksHitTheirTimer, TimerEntry
    <3>3. \A e \in heap' : e.id < next_id
      BY <2>4, RunKeepsIds DEF MarksHitTheirTimer
    <3> QED BY <2>4, <3>1, <3>2, <3>3, RunKeepsIds DEF Run, MarksHitTheirTimer
  <2>5. CASE Tick
    BY <2>5 DEF Tick, TimersTypeOK, MarksHitTheirTimer
  <2>6. CASE UNCHANGED timersVars
    BY <2>6 DEF timersVars, TimersTypeOK, MarksHitTheirTimer
  <2> QED BY <2>1, <2>2, <2>3, <2>4, <2>5, <2>6 DEF TimersNext
<1> QED BY <1>1, <1>2, PTL DEF TimersSpec

(* A mark left by cancel never hits a timer made or reset later.           *)
THEOREM MarksAlwaysHitTheirTimer == TimersSpec => []MarksHitTheirTimer
  BY TimersInvHolds, PTL DEF TimersInv

(* A mark that is kept by a run belonged to an entry that goes with it. *)
LEMMA RunKeepsMarks ==
    ASSUME TimersInv, Run, NEW e \in heap', is_cancelled(e)
    PROVE  e.id \in cancelled'
<1> DEFINE due   == {d \in heap : d.deadline <= clock}
           fired == {d \in due : ~is_cancelled(d)}
           rest  == (heap \ due) \union
                    {[d EXCEPT !.deadline = clock + d.period] : d \in {f \in fired : f.period > 0}}
           swept == {d \in rest : is_cancelled(d)
                                  /\ \A f \in rest : ~is_cancelled(f) => before(d, f)}
<1>1. e \in rest \ swept
  BY DEF Run
<1>2. cancelled' = cancelled \ {d.id : d \in (due \ fired) \union swept}
  BY DEF Run
<1>3. ASSUME NEW d \in rest, is_cancelled(d) PROVE d \in heap \ due
  BY <1>3 DEF is_cancelled, TimersInv, TimersTypeOK, TimerEntry
<1>4. e \in heap \ due
  BY <1>1, <1>3
<1>5. ASSUME NEW d \in (due \ fired) \union swept PROVE d.id # e.id
  BY <1>1, <1>3, <1>4 DEF TimersInv, MarksHitTheirTimer
<1> QED BY <1>2, <1>5 DEF is_cancelled

(* Every call of the wheel is a step of the alarms, or a stutter.          *)
THEOREM WheelKeepsAlarmPromise == TimersSpec => KeepsAlarmPromise
<1>1. TimersInit => A!Start
  BY DEF TimersInit, A!Start, live
<1>2. TimersInv /\ [TimersNext]_timersVars => [A!Step]_<<live, heap \ live, clock, rang>>
  <2> SUFFICES ASSUME TimersInv, [TimersNext]_timersVars
               PROVE  A!Step \/ UNCHANGED <<live, heap \ live, clock, rang>>
    OBVIOUS
  <2> USE TimersConfig DEF TimersInv
  <2>1. ASSUME NEW delay \in Delays, NEW period \in Delays \union {0}, Create(delay, period)
        PROVE  A!Schedule
    <3> DEFINE new == [id |-> next_id, deadline |-> clock + delay, period |-> period,
                       callback |-> next_id]
    <3>1. heap' = heap \union {new} /\ cancelled' = cancelled
      BY <2>1 DEF Create, push
    <3>2. new.id \notin cancelled /\ \A b \in heap : b.id # new.id
      BY DEF MarksHitTheirTimer, TimersTypeOK, TimerEntry
    <3>4. new.callback = new.id
      OBVIOUS
    <3>3. live' = live \union {new} /\ heap' \ live' = heap \ live
      BY <3>1, <3>2 DEF live, is_cancelled
    <3> HIDE DEF new
    <3> QED BY <2>1, <3>2, <3>3, <3>4 DEF Create, A!Schedule, A!known, live
  <2>2. ASSUME NEW id \in 0..(next_id - 1), Cancel(id) PROVE A!Revoke \/ A!Refuse
    <3>1. CASE \E a \in live : a.id = id
      <4>1. PICK a \in live : a.id = id
        BY <3>1
      <4>2. live' = live \ {a}
        BY <2>2, <4>1 DEF Cancel, live, is_cancelled, MarksHitTheirTimer
      <4>3. (heap \ live)' = (heap \ live) \union {a}
        BY <2>2, <4>2 DEF Cancel, live
      <4> QED BY <2>2, <4>2, <4>3 DEF Cancel, A!Revoke
    <3>2. CASE \A a \in live : a.id # id
      BY <2>2, <3>2 DEF Cancel, live, is_cancelled, A!Refuse
    <3> QED BY <3>1, <3>2
  <2>3. ASSUME NEW id \in 0..(next_id - 1), NEW delay \in Delays, Reset(id, delay)
        PROVE  A!Postpone \/ A!Revive \/ A!Refuse
    <3>1. CASE \A e \in heap : e.id # id
      BY <2>3, <3>1 DEF Reset, live, is_cancelled, A!Refuse
    <3>2. CASE \E e \in heap : e.id = id
      <4>1. PICK old \in heap :
               /\ old.id = id
               /\ heap' = push(heap \ {old}, delay, old.period, old.callback)
               /\ cancelled' = cancelled \ {id}
        BY <2>3, <3>2 DEF Reset
      <4> DEFINE new == [id |-> next_id, deadline |-> clock + delay, period |-> old.period,
                         callback |-> old.callback]
      <4>2. heap' = (heap \ {old}) \union {new}
        BY <4>1 DEF push
      <4>3. /\ new.id \notin cancelled /\ \A b \in heap : b.id # new.id
            /\ new.callback = old.callback /\ new.period = old.period
        BY DEF MarksHitTheirTimer, TimersTypeOK, TimerEntry
      <4>4. \A b \in heap : b # old => b.id # id
        BY <4>1 DEF MarksHitTheirTimer
      <4> HIDE DEF new
      <4>5. live' = (live \ {old}) \union {new}
        BY <4>1, <4>2, <4>3, <4>4 DEF live, is_cancelled
      <4>6. (heap \ live)' = (heap \ live) \ {old}
        BY <4>2, <4>3, <4>5 DEF live, is_cancelled
      <4>7. A!renewed(old, new) /\ new \in live' /\ rang' = {} /\ clock' = clock
        BY <2>3, <4>3, <4>5 DEF Reset, A!renewed, A!known, live
      <4>8. CASE old \in live
        BY <4>5, <4>6, <4>7, <4>8 DEF A!Postpone
      <4>9. CASE old \notin live
        BY <4>5, <4>6, <4>7, <4>9 DEF A!Revive
      <4> QED BY <4>8, <4>9
    <3> QED BY <3>1, <3>2
  <2>4. CASE Run
    <3> DEFINE fired == {e \in heap : e.deadline <= clock /\ ~is_cancelled(e)}
               due   == {a \in live : a.deadline <= clock}
               fresh == {[e EXCEPT !.deadline = clock + e.period] : e \in {f \in due : f.period > 0}}
    <3>1. due = fired /\ rang' = {a.callback : a \in due}
      BY <2>4 DEF Run, live
    <3>2. ASSUME NEW e \in live' PROVE e \in (live \ due) \union fresh
      <4>1. ~is_cancelled(e)
        BY <2>4, RunKeepsMarks DEF live, is_cancelled
      <4> QED BY <2>4, <4>1 DEF Run, live
    <3>3. ASSUME NEW e \in (live \ due) \union fresh PROVE e \in live'
      <4>1. ~is_cancelled(e)
        BY DEF live, is_cancelled, TimersTypeOK, TimerEntry
      <4>2. e \in heap'
        BY <2>4, <4>1 DEF Run, live
      <4> QED BY <2>4, <4>1, <4>2, RunKeepsIds DEF live, is_cancelled
    <3>4. live' = (live \ due) \union fresh
      BY <3>2, <3>3
    <3>5. heap' \ live' \subseteq heap \ live
      <4> SUFFICES ASSUME NEW e \in heap', e \notin live' PROVE e \in heap \ live
        OBVIOUS
      <4>1. is_cancelled(e)
        BY <2>4, RunKeepsIds DEF live, is_cancelled
      <4> QED BY <2>4, <4>1, RunKeepsIds DEF live, is_cancelled
    <3> QED BY <2>4, <3>1, <3>4, <3>5 DEF Run, A!Step, A!Ring, A!again
  <2>5. CASE Tick
    BY <2>5 DEF Tick, A!Step, A!Pass, live, is_cancelled
  <2>6. CASE UNCHANGED timersVars
    BY <2>6 DEF timersVars, live, is_cancelled
  <2> QED BY <2>1, <2>2, <2>3, <2>4, <2>5, <2>6 DEF TimersNext, A!Step
<1> QED BY <1>1, <1>2, TimersInvHolds, PTL DEF TimersSpec, KeepsAlarmPromise, A!Promise

-----------------------------------------------------------------------------
(* The file cache, for any files, connections, default age and maximal     *)
(* size.                                                                   *)

CacheInv == CacheTypeOK /\ InUseStaysCached

(* The age is halved, or doubled from below the default: it never reaches  *)
(* twice the default.                                                      *)
THEOREM AgeAlwaysBounded == CacheSpec => [](expire_age \in Nat /\ AgeBounded)
<1> USE CacheConfig
<1>1. CacheInit => expire_age \in Nat /\ AgeBounded
  BY DEF CacheInit, AgeBounded
<1>2. /\ expire_age \in Nat /\ AgeBounded
      /\ [CacheNext]_cacheVars
      => (expire_age \in Nat /\ AgeBounded)'
  <2> SUFFICES ASSUME expire_age \in Nat, AgeBounded, [CacheNext]_cacheVars
               PROVE  (expire_age \in Nat /\ AgeBounded)'
    OBVIOUS
  <2>1. ASSUME NEW total PROVE adapted(total) \in Nat /\ adapted(total) < 2 * DefaultAge
    <3>1. expire_age \div 2 \in Nat /\ expire_age \div 2 <= expire_age
      OBVIOUS
    <3> QED BY <3>1 DEF adapted, AgeBounded
  <2>2. CASE Cleanup
    BY <2>1, <2>2 DEF Cleanup, AgeBounded
  <2>3. CASE UNCHANGED expire_age
    BY <2>3 DEF AgeBounded
  <2> QED BY <2>2, <2>3 DEF CacheNext, cacheVars, Release, Map, Age, Overwrite, Replace
<1> QED BY <1>1, <1>2, PTL DEF CacheSpec

(* Every step keeps the types.                                            *)
LEMMA CacheTyped ==
    ASSUME CacheTypeOK, CacheNext PROVE CacheTypeOK'
<1> USE CacheConfig
<1>1. ASSUME NEW c \in Conns, Release(c) PROVE CacheTypeOK'
  BY <1>1 DEF Release, CacheTypeOK
<1>2. ASSUME NEW c \in Conns, NEW p \in Paths, Map(c, p) PROVE CacheTypeOK'
  <2>1. file[p] \in File
    BY DEF CacheTypeOK
  <2>2. entries' \subseteq Entry
    <3> DEFINE hit == {e \in entries : e.key = FileKey(file[p])}
               new == [key |-> FileKey(file[p]), ino |-> file[p].ino, size |-> file[p].size,
                       idle |-> 0]
    <3>1. new \in Entry
      BY <2>1 DEF Entry, File
    <3>2. \A e \in hit : [e EXCEPT !.idle = 0] \in Entry
      BY DEF Entry, CacheTypeOK
    <3>3. \/ entries' = entries \union {new}
          \/ entries' = (entries \ hit) \union {[e EXCEPT !.idle = 0] : e \in hit}
      BY <1>2 DEF Map
    <3> HIDE DEF hit, new
    <3> QED BY <3>1, <3>2, <3>3 DEF CacheTypeOK
  <2> QED BY <1>2, <2>2 DEF Map, CacheTypeOK
<1>3. CASE Cleanup
  <2>1. adapted(totalSize({e \in entries : retained(e)})) \in Nat
    BY DEF adapted, CacheTypeOK
  <2> QED BY <1>3, <2>1 DEF Cleanup, CacheTypeOK
<1>4. CASE Age
  <2>1. ASSUME NEW e \in Entry
        PROVE  [e EXCEPT !.idle = IF @ < 2 * DefaultAge THEN @ + 1 ELSE @] \in Entry
    BY DEF Entry
  <2> QED BY <1>4, <2>1 DEF Age, CacheTypeOK
<1>5. ASSUME NEW p \in Paths, NEW size \in Sizes, NEW ctime \in Stamps, Overwrite(p, size, ctime)
      PROVE  CacheTypeOK'
  BY <1>5 DEF Overwrite, CacheTypeOK, File
<1>6. ASSUME NEW p \in Paths, NEW new \in File, Replace(p, new) PROVE CacheTypeOK'
  BY <1>6 DEF Replace, CacheTypeOK
<1> QED BY <1>1, <1>2, <1>3, <1>4, <1>5, <1>6 DEF CacheNext

(* The idle time is no part of a mapping.                                 *)
LEMMA MappingIgnoresIdle ==
    ASSUME NEW e \in Entry, NEW idle
    PROVE  mapping([e EXCEPT !.idle = idle]) = mapping(e)
  BY DEF mapping, Entry

(* What a response holds is in the cache: only cleanup removes entries,    *)
(* and it keeps those in use.                                              *)
THEOREM InUseAlwaysCached == CacheSpec => []InUseStaysCached
<1>1. CacheInit => CacheInv
  BY CacheConfig DEF CacheInit, CacheInv, CacheTypeOK, InUseStaysCached
<1>2. CacheInv /\ [CacheNext]_cacheVars => CacheInv'
  <2> SUFFICES ASSUME CacheInv, [CacheNext]_cacheVars PROVE InUseStaysCached'
    BY CacheTyped DEF CacheInv, CacheTypeOK, cacheVars
  <2> USE DEF CacheInv, CacheTypeOK
  <2>1. ASSUME NEW c \in Conns, Release(c) PROVE InUseStaysCached'
    BY <2>1 DEF Release, InUseStaysCached, mapping
  <2>2. ASSUME NEW c \in Conns, NEW p \in Paths, Map(c, p) PROVE InUseStaysCached'
    <3> DEFINE hit == {e \in entries : e.key = FileKey(file[p])}
               new == [key |-> FileKey(file[p]), ino |-> file[p].ino, size |-> file[p].size,
                       idle |-> 0]
    <3>1. CASE hit = {}
      <4>1. entries' = entries \union {new}
        BY <2>2, <3>1 DEF Map
      <4>2. file_address' = [file_address EXCEPT ![c] = {mapping(new)}]
        BY <2>2, <3>1 DEF Map
      <4> HIDE DEF new
      <4> QED BY <4>1, <4>2 DEF InUseStaysCached, mapping
    <3>2. CASE hit # {}
      <4>1. entries' = (entries \ hit) \union {[e EXCEPT !.idle = 0] : e \in hit}
        BY <2>2, <3>2 DEF Map
      <4>2. file_address' = [file_address EXCEPT ![c] = {mapping(e) : e \in hit}]
        BY <2>2, <3>2 DEF Map
      <4>3. ASSUME NEW e \in entries PROVE \E f \in entries' : mapping(f) = mapping(e)
        <5>1. CASE e \in hit
          <6>1. [e EXCEPT !.idle = 0] \in entries'
            BY <4>1, <5>1
          <6>2. mapping([e EXCEPT !.idle = 0]) = mapping(e)
            BY MappingIgnoresIdle
          <6> QED BY <6>1, <6>2
        <5>2. CASE e \notin hit
          BY <4>1, <5>2
        <5> QED BY <5>1, <5>2
      <4> QED BY <4>2, <4>3 DEF InUseStaysCached
    <3> QED BY <3>1, <3>2
  <2>3. CASE Cleanup
    BY <2>3 DEF Cleanup, retained, inUse, InUseStaysCached, mapping
  <2>4. CASE Age
    <3>1. ASSUME NEW e \in entries PROVE \E f \in entries' : mapping(f) = mapping(e)
      <4> DEFINE older == IF e.idle < 2 * DefaultAge THEN e.idle + 1 ELSE e.idle
      <4>1. [e EXCEPT !.idle = older] \in entries'
        BY <2>4 DEF Age
      <4>2. mapping([e EXCEPT !.idle = older]) = mapping(e)
        BY MappingIgnoresIdle
      <4> QED BY <4>1, <4>2
    <3>2. UNCHANGED file_address
      BY <2>4 DEF Age
    <3> QED BY <3>1, <3>2 DEF InUseStaysCached
  <2>5. CASE UNCHANGED <<entries, file_address>>
    BY <2>5 DEF InUseStaysCached, mapping
  <2> QED BY <2>1, <2>2, <2>3, <2>4, <2>5 DEF CacheNext, cacheVars, Overwrite, Replace
<1> QED BY <1>1, <1>2, PTL DEF CacheSpec, CacheInv

-----------------------------------------------------------------------------
(* CGI, ranges, and what a mapping shows.                                  *)

(* A dispatch is counted exactly while it runs.                            *)
CountInv == active_cgis = (IF at = "idle" THEN 0 ELSE 1)

(* Every way out of dispatch_cgi takes the request off again, so between   *)
(* two requests the count is 0 and the limit refuses nobody, for any       *)
(* limit, body and script (dispatch_cgi, eventloop.rs:1554-1897).          *)
THEOREM CountAlwaysReturns == CgiSpec => []CountReturns
<1>1. CgiInit => CountInv
  BY DEF CgiInit, CountInv
<1>2. CountInv /\ [CgiNext]_cgiVars => CountInv'
  <2> SUFFICES ASSUME CountInv, [CgiNext]_cgiVars PROVE CountInv'
    OBVIOUS
  <2>1. CASE Count
    BY <2>1 DEF Count, CountInv
  <2>3. CASE ServerStep
    <3>1. CASE NotFound \/ Rejected \/ SpawnFails \/ Respond
      BY <3>1 DEF NotFound, Rejected, SpawnFails, Respond, CountInv
    <3>4. ASSUME NEW body \in 0..ReadBuf, Spawn(body) PROVE CountInv'
      BY <3>4 DEF Spawn, CountInv
    <3>2. ASSUME NEW p \in {"stdout", "stderr"}, ReadUnit(p) PROVE CountInv'
      BY <3>2 DEF ReadUnit, CountInv
    <3>3. CASE WriteBody \/ CloseStdin \/ StdoutEnds \/ StderrEnds
      BY <3>3 DEF WriteBody, CloseStdin, StdoutEnds, StderrEnds, CountInv
    <3> QED BY <2>3, <3>1, <3>2, <3>3, <3>4 DEF ServerStep
  <2>4. CASE ScriptStep \/ UNCHANGED cgiVars
    <3>1. UNCHANGED <<at, active_cgis>>
      BY <2>4 DEF ScriptStep, Commit, ScriptReads, ScriptClosesStdout, ScriptWrites, cgiVars
    <3> QED BY <3>1 DEF CountInv
  <2> QED BY <2>1, <2>3, <2>4 DEF CgiNext
<1>3. CountInv => CountReturns
  BY CgiConfig DEF CountInv, CountReturns, refused
<1> QED BY <1>1, <1>2, <1>3, PTL DEF CgiSpec

-----------------------------------------------------------------------------

(* For every header, every file and both kinds of build, not only the      *)
(* small ones (serve_static, eventloop.rs:1258-1428, and                   *)
(* build_full_response).                                                   *)
THEOREM EveryRangeIsExact ==
    ASSUME NEW header \in [several : BOOLEAN, first : Nat \union {Missing}, last : Nat \union {Missing}],
           NEW size \in Nat, NEW checked \in BOOLEAN
    PROVE  rangeIsExact(header, size, checked)
<1> DEFINE r == fillLast(parseRange(header), size)
<1> SUFFICES ASSUME ~reversed(header), NEW b, b = bodyOf(r, size, checked)
             PROVE  /\ b = Panic => checked /\ size = 0
                    /\ b # Panic =>
                         /\ b[1] .. b[2] - 1 = asked(header, size)
                         /\ build_full_response(r, size).length = b[2] - b[1]
                         /\ build_full_response(r, size).status = 206 =>
                              build_full_response(r, size).range = <<b[1], b[2] - 1>>
  BY DEF rangeIsExact, serve
<1> DEFINE f == header.first
           l == IF header.last = Missing \/ header.last >= size THEN size - 1 ELSE header.last
<1>1. CASE header.several \/ f = Missing
  <2>1. r = NoRange
    BY <1>1 DEF parseRange, fillLast, NoRange
  <2> HIDE DEF r
  <2>2. ~r.got /\ ~partial(r, size)
    BY <2>1 DEF partial, NoRange
  <2>3. b = <<0, size>>
    BY <2>2 DEF bodyOf
  <2>4. b # Panic
    BY <2>3 DEF Panic
  <2> QED BY <1>1, <2>2, <2>3, <2>4 DEF build_full_response, asked
<1>2. CASE ~header.several /\ f # Missing
  <2>1. f \in Nat /\ l \in Int /\ l < size /\ (header.last = Missing \/ header.last >= f)
    BY <1>2 DEF reversed, Missing
  <2>2. r.got /\ r.first = f /\ r.last = l
    <3> DEFINE q == parseRange(header)
    <3>1. q = [got |-> TRUE, first |-> f, last |-> header.last]
      BY <1>2 DEF parseRange
    <3>2. CASE header.last = Missing \/ header.last >= size
      <4>1. r = [q EXCEPT !.last = size - 1]
        BY <3>1, <3>2 DEF fillLast
      <4> QED BY <3>1, <3>2, <4>1
    <3>3. CASE ~(header.last = Missing \/ header.last >= size)
      <4>1. r = q
        BY <3>1, <3>3 DEF fillLast
      <4> QED BY <3>1, <3>3, <4>1
    <3> QED BY <3>2, <3>3
  <2> HIDE DEF r
  <2>3. CASE f >= size
    <3>1. ~partial(r, size)
      BY <2>1, <2>2, <2>3 DEF partial
    <3>2. l < 0 => size = 0
      BY <1>2 DEF Missing
    <3>3. b = <<0, size>> \/ (b = Panic /\ checked /\ size = 0)
      BY <2>1, <2>2, <2>3, <3>2 DEF bodyOf
    <3> QED BY <2>3, <3>1, <3>3 DEF build_full_response, asked, Panic
  <2>4. CASE f < size
    <3>2. f <= l
      BY <2>1, <2>4 DEF Missing
    <3>1. b = <<f, l + 1>> /\ b # Panic
      BY <2>1, <2>2, <2>4, <3>2 DEF bodyOf, Panic
    <3>3. asked(header, size) = f .. l
      <4>1. asked(header, size) =
                {i \in f .. size - 1 : header.last = Missing \/ i <= header.last}
        BY <1>2, <2>1, <2>4 DEF asked
      <4>2. ASSUME NEW i \in Int
            PROVE  (f <= i /\ i <= size - 1 /\ (header.last = Missing \/ i <= header.last))
                      <=> (f <= i /\ i <= l)
        BY <2>1 DEF Missing
      <4> HIDE DEF l
      <4> QED BY <2>1, <4>1, <4>2
    <3>4. /\ build_full_response(r, size).length = (l - f) + 1
          /\ build_full_response(r, size).status = 206 =>
                build_full_response(r, size).range = <<f, l>>
      BY <2>1, <2>2, <3>2 DEF build_full_response, partial
    <3> HIDE DEF l
    <3> QED BY <2>1, <3>1, <3>3, <3>4
  <2> QED BY <2>1, <2>3, <2>4
<1> QED BY <1>1, <1>2

-----------------------------------------------------------------------------

(* An entry is about the file that had its key.                            *)
KeyInv ==
    /\ CacheTypeOK
    /\ \A e \in entries : e.key[1] = e.ino /\ e.key[2] = e.size

(* Mapping makes such entries only, and aging keeps them.                  *)
LEMMA KeyStep ==
    ASSUME KeyInv, [CacheNext]_cacheVars PROVE KeyInv'
<1> SUFFICES ASSUME NEW e \in entries' PROVE e.key[1] = e.ino /\ e.key[2] = e.size
  BY CacheTyped DEF KeyInv, CacheTypeOK, cacheVars
<1>1. CASE e \in entries
  BY <1>1 DEF KeyInv
<1>2. CASE \E f \in entries, idle \in Nat : e = [f EXCEPT !.idle = idle]
  BY <1>2 DEF KeyInv, CacheTypeOK, Entry
<1>3. CASE \E p \in Paths : e = [key |-> FileKey(file[p]), ino |-> file[p].ino,
                                 size |-> file[p].size, idle |-> 0]
  BY <1>3 DEF FileKey
<1>4. ASSUME NEW c \in Conns, NEW p \in Paths, Map(c, p)
      PROVE  e.key[1] = e.ino /\ e.key[2] = e.size
  BY <1>4, <1>1, <1>2, <1>3 DEF Map
<1>5. CASE Age
  <2>1. PICK f \in entries : e = [f EXCEPT !.idle = IF f.idle < 2 * DefaultAge THEN f.idle + 1 ELSE f.idle]
    BY <1>5 DEF Age
  <2>2. (IF f.idle < 2 * DefaultAge THEN f.idle + 1 ELSE f.idle) \in Nat
    BY DEF KeyInv, CacheTypeOK, Entry
  <2> QED BY <1>2, <2>1, <2>2
<1>6. CASE Cleanup \/ UNCHANGED entries
  BY <1>1, <1>6 DEF Cleanup
<1> QED BY <1>4, <1>5, <1>6 DEF CacheNext, cacheVars, Release, Overwrite, Replace

(* A connection that is given a mapping is given the bytes of the file as  *)
(* it is at that moment, although keys are compared and not contents (map, *)
(* mmc.rs).                                                                *)
THEOREM AlwaysServesCurrent == CacheSpec => ServedIsCurrent
<1>1. CacheInit => KeyInv
  BY CacheConfig DEF CacheInit, KeyInv, CacheTypeOK
<1>2. KeyInv /\ [CacheNext]_cacheVars =>
      [\A c \in Conns : file_address'[c] \notin {{}, file_address[c]} =>
          \A m \in file_address'[c] :
             \E p \in Paths : m.ino = file[p].ino /\ m.size = file[p].size]_cacheVars
  <2> SUFFICES ASSUME KeyInv, CacheNext, NEW c \in Conns,
                      file_address'[c] # {}, file_address'[c] # file_address[c],
                      NEW m \in file_address'[c]
               PROVE  \E p \in Paths : m.ino = file[p].ino /\ m.size = file[p].size
    OBVIOUS
  <2>1. PICK p \in Paths : Map(c, p)
    BY DEF CacheNext, Map, Release, Cleanup, Age, Overwrite, Replace, KeyInv, CacheTypeOK
  <2>2. PICK e : /\ m = mapping(e)
                 /\ e.key = FileKey(file[p])
                 /\ e.key[1] = e.ino /\ e.key[2] = e.size
    <3> DEFINE hit == {e \in entries : e.key = FileKey(file[p])}
               new == [key |-> FileKey(file[p]), ino |-> file[p].ino, size |-> file[p].size,
                       idle |-> 0]
    <3>1. file_address'[c] = {mapping(e) : e \in IF hit = {} THEN {new} ELSE hit}
      BY <2>1 DEF Map, KeyInv, CacheTypeOK
    <3>2. new.key = FileKey(file[p]) /\ new.key[1] = new.ino /\ new.key[2] = new.size
      BY DEF FileKey
    <3> QED BY <3>1, <3>2 DEF KeyInv
  <2> QED BY <2>2 DEF mapping, FileKey
<1>3. KeyInv /\ [CacheNext]_cacheVars => KeyInv'
  BY KeyStep
<1> QED BY <1>1, <1>2, <1>3, PTL DEF CacheSpec, ServedIsCurrent
=============================================================================
