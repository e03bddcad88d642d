-------------------------- MODULE WallClockProofs --------------------------
(***************************************************************************)
(* Proofs about the wall clock, for every number of sets and every table   *)
(* of timezones: what a reader combines, what setters leave behind, and    *)
(* which timezone is in use. The invariant says how far a set has come.    *)
(***************************************************************************)
EXTENDS WallClock, TLAPS

\* The place of each step in a set.
LibcAt(w)   == IF w = "sntp" THEN 1 ELSE 4
StoreAt(w)  == IF w = "sntp" THEN 2 ELSE 1
FlagAt(w)   == IF w = "sntp" THEN 3 ELSE 2
SourceAt(w) == IF w = "sntp" THEN 4 ELSE 3

\* Halves are left to store only up to the step that stores them.
TodoEarly == \A w \in Setters : todo[w] # {} => pc[w] \in 1..StoreAt(w)

\* Without an overlap there is one set at work, the last one begun, and what
\* it has passed is in place.
UnderWay ==
    ~overlapped =>
        /\ \A v, w \in Setters : pc[v] # 0 /\ pc[w] # 0 => v = w
        /\ \A w \in Setters : pc[w] # 0 =>
              /\ mine[w] = sets
              /\ \A h \in Halves \ todo[w] : s_boot_epoch_offset_us[h] = sets
              /\ pc[w] > FlagAt(w)   => s_time_synced
              /\ pc[w] > SourceAt(w) => s_time_source = w
              /\ pc[w] > LibcAt(w)   => libc = sets

\* The first set overlaps nothing, and shows only when it is stored.
FirstSet ==
    /\ sets = 0 => ~s_time_synced /\ \A w \in Setters : pc[w] = 0
    /\ sets <= 1 => ~overlapped
    /\ sets <= 1 /\ s_time_synced => \A w \in Setters : todo[w] = {}

\* An undisturbed read finds an offset at rest.
ReadAtRest ==
    /\ read.at = "load" /\ ~disturbed =>
          /\ sets # 0
          /\ \A w \in Setters : todo[w] = {}
          /\ \A h \in Halves : s_boot_epoch_offset_us[h] = sets
          /\ \A h \in Halves \ read.left : read.got[h] = sets
    /\ DatedByOneSet

ClockInv == ClockTypeOK /\ TodoEarly /\ UnderWay /\ ClockAgrees /\ FirstSet /\ ReadAtRest

\* A timezone being stored is not yet promised.
ZoneInv == TimezoneKept /\ (tzStep => promised = None)

-----------------------------------------------------------------------------
\* Where a set stands, by number; the six steps of one are kept apart.
LEMMA Standing ==
    ASSUME ClockTypeOK, NEW w \in Setters
    PROVE  /\ At(w, "libc")   <=> pc[w] = LibcAt(w)
           /\ At(w, "store")  <=> pc[w] = StoreAt(w)
           /\ At(w, "flag")   <=> pc[w] = FlagAt(w)
           /\ At(w, "source") <=> pc[w] = SourceAt(w)
           /\ Advance(w) <=> pc' = [pc EXCEPT ![w] = IF @ = 4 THEN 0 ELSE @ + 1]
  <1>1. pc[w] \in 0..4
    BY DEF ClockTypeOK
  <1>2. CASE w = "sntp"
    BY <1>1, <1>2 DEF At, Steps, LibcAt, StoreAt, FlagAt, SourceAt, Advance
  <1>3. CASE w = "manual"
    BY <1>1, <1>3 DEF At, Steps, LibcAt, StoreAt, FlagAt, SourceAt, Advance
  <1>. QED
    BY <1>2, <1>3 DEF Setters

\* The state a restart leaves, and the one the first boot finds.
LEMMA ClockStarts ==
    ASSUME ClockInit
    PROVE  ClockInv /\ ZoneInv
  <1>. USE ClockAssumption DEF ClockInit
  <1>1. ClockTypeOK
    <2>1. tz_idx \in 0..TzCount \cup {None} /\ s_timezone_index \in Timezones
      BY DEF ClockAssumption, Timezones, TimezoneFrom
    <2>2. read \in [at : {"idle", "load", "done"}, left : SUBSET Halves,
                   got : [Halves -> 0..MaxSets]]
      BY DEF ClockAssumption, NoRead
    <2>3. /\ s_boot_epoch_offset_us \in [Halves -> 0..MaxSets]
          /\ libc \in 0..MaxSets /\ mine \in [Setters -> 0..MaxSets]
          /\ pc \in [Setters -> 0..4] /\ todo \in [Setters -> SUBSET Halves]
          /\ sets \in 0..MaxSets
      BY DEF ClockAssumption
    <2>4. promised \in Timezones \cup {None}
      BY DEF ClockTypeOK
    <2>. QED
      BY <2>1, <2>2, <2>3, <2>4 DEF ClockTypeOK, Setters
  <1>2. TodoEarly /\ UnderWay /\ ClockAgrees /\ FirstSet
    BY DEF TodoEarly, UnderWay, ClockAgrees, FirstSet
  <1>3. ReadAtRest /\ ZoneInv
    BY DEF ReadAtRest, DatedByOneSet, NoRead, ZoneInv, TimezoneKept
  <1>. QED
    BY <1>1, <1>2, <1>3 DEF ClockInv

LEMMA SetBeginsKeeps ==
    ASSUME ClockInv, NEW w \in Setters, SetBegins(w)
    PROVE  ClockInv'
  <1>. USE ClockAssumption DEF ClockInv, SetBegins, clockVars, tzVars
  <1>1. ClockTypeOK'
    BY DEF ClockTypeOK
  <1>2. TodoEarly'
    BY DEF TodoEarly, ClockTypeOK, LibcAt, StoreAt, FlagAt, SourceAt, Setters
  <1>3. UnderWay'
    BY DEF UnderWay, ClockTypeOK, LibcAt, StoreAt, FlagAt, SourceAt, Setters
  <1>4. ClockAgrees' /\ FirstSet'
    BY DEF ClockAgrees, FirstSet, ClockTypeOK
  <1>5. ReadAtRest'
    BY DEF ReadAtRest, DatedByOneSet, ClockTypeOK
  <1>. QED
    BY <1>1, <1>2, <1>3, <1>4, <1>5

LEMMA StoreHalfKeeps ==
    ASSUME ClockInv, NEW w \in Setters, NEW h \in Halves, StoreHalf(w, h)
    PROVE  ClockInv'
  <1>. USE DEF ClockInv, StoreHalf, readVars, tzVars
  <1>0. pc[w] = StoreAt(w)
    BY Standing
  <1>1. pc' = IF todo[w] = {h} THEN [pc EXCEPT ![w] = IF @ = 4 THEN 0 ELSE @ + 1] ELSE pc
    BY Standing
  <1>2. ClockTypeOK'
    BY <1>1 DEF ClockTypeOK
  <1>3. TodoEarly'
    BY <1>0, <1>1 DEF TodoEarly, ClockTypeOK, LibcAt, StoreAt, FlagAt, SourceAt, Setters
  <1>4. UnderWay'
    BY <1>0, <1>1 DEF UnderWay, ClockTypeOK, LibcAt, StoreAt, FlagAt, SourceAt, Setters
  <1>5. ClockAgrees' /\ FirstSet'
    BY <1>0, <1>1 DEF ClockAgrees, FirstSet, ClockTypeOK, StoreAt, Setters
  <1>6. ReadAtRest'
    BY DEF ReadAtRest, DatedByOneSet, ClockTypeOK
  <1>. QED
    BY <1>2, <1>3, <1>4, <1>5, <1>6

LEMMA RaiseFlagKeeps ==
    ASSUME ClockInv, NEW w \in Setters, RaiseFlag(w)
    PROVE  ClockInv'
  <1>. USE DEF ClockInv, RaiseFlag, readVars, tzVars
  <1>0. pc[w] = FlagAt(w) /\ pc' = [pc EXCEPT ![w] = IF @ = 4 THEN 0 ELSE @ + 1]
    BY Standing
  <1>1. ClockTypeOK' /\ TodoEarly'
    BY <1>0 DEF ClockTypeOK, TodoEarly, StoreAt, FlagAt, Setters
  <1>2. UnderWay'
    BY <1>0 DEF UnderWay, ClockTypeOK, LibcAt, FlagAt, SourceAt, Setters
  <1>3. ClockAgrees'
    BY <1>0 DEF ClockAgrees, ClockTypeOK, FlagAt, Setters
  <1>4. todo' = todo /\ (todo[w] = {} \/ pc[w] \in 1..StoreAt(w))
    BY DEF TodoEarly
  <1>5. FirstSet'
    <2>1. sets # 0
      BY <1>0 DEF FirstSet, FlagAt
    <2>2. ASSUME sets <= 1, NEW v \in Setters PROVE todo[v] = {}
      <3>1. CASE v = w
        BY <1>0, <1>4, <3>1 DEF StoreAt, FlagAt
      <3>2. CASE v # w
        BY <1>0, <2>2, <3>2 DEF FirstSet, UnderWay, TodoEarly, FlagAt, StoreAt, Setters
      <3>. QED
        BY <3>1, <3>2
    <2>. QED
      BY <2>1, <2>2 DEF FirstSet
  <1>6. ReadAtRest'
    BY DEF ReadAtRest, DatedByOneSet
  <1>. QED
    BY <1>1, <1>2, <1>3, <1>5, <1>6

LEMMA NameSourceKeeps ==
    ASSUME ClockInv, NEW w \in Setters, NameSource(w)
    PROVE  ClockInv'
  <1>. USE DEF ClockInv, NameSource, readVars, tzVars
  <1>0. pc[w] = SourceAt(w) /\ pc' = [pc EXCEPT ![w] = IF @ = 4 THEN 0 ELSE @ + 1]
    BY Standing
  <1>1. ClockTypeOK' /\ TodoEarly'
    BY <1>0 DEF ClockTypeOK, TodoEarly, StoreAt, SourceAt, Setters
  <1>2. UnderWay'
    BY <1>0 DEF UnderWay, ClockTypeOK, LibcAt, FlagAt, SourceAt, Setters
  <1>3. ClockAgrees'
    BY <1>0 DEF ClockAgrees, UnderWay, TodoEarly, ClockTypeOK, LibcAt, StoreAt, FlagAt,
                SourceAt, Setters
  <1>4. FirstSet' /\ ReadAtRest'
    BY <1>0 DEF FirstSet, ReadAtRest, DatedByOneSet, ClockTypeOK, SourceAt
  <1>. QED
    BY <1>1, <1>2, <1>3, <1>4

LEMMA SetTimeOfDayKeeps ==
    ASSUME ClockInv, NEW w \in Setters, SetTimeOfDay(w)
    PROVE  ClockInv'
  <1>. USE DEF ClockInv, SetTimeOfDay, readVars, tzVars
  <1>0. pc[w] = LibcAt(w) /\ pc' = [pc EXCEPT ![w] = IF @ = 4 THEN 0 ELSE @ + 1]
    BY Standing
  <1>1. ClockTypeOK' /\ TodoEarly'
    BY <1>0 DEF ClockTypeOK, TodoEarly, StoreAt, LibcAt, Setters
  <1>2. UnderWay'
    BY <1>0 DEF UnderWay, ClockTypeOK, LibcAt, FlagAt, SourceAt, Setters
  <1>3. ClockAgrees'
    BY <1>0 DEF ClockAgrees, UnderWay, TodoEarly, ClockTypeOK, LibcAt, StoreAt, FlagAt,
                SourceAt, Setters
  <1>4. FirstSet' /\ ReadAtRest'
    BY <1>0 DEF FirstSet, ReadAtRest, DatedByOneSet, ClockTypeOK, LibcAt
  <1>. QED
    BY <1>1, <1>2, <1>3, <1>4

\* A read that finds the flag, and nobody at work but the first set, finds the
\* offset at rest.
LEMMA ReadBeginsKeeps ==
    ASSUME ClockInv, ReadBegins
    PROVE  ClockInv'
  <1>. USE DEF ClockInv, ReadBegins, clockVars, setVars, tzVars
  <1>1. ClockTypeOK'
    <2>0. [h \in Halves |-> 0] \in [Halves -> 0..MaxSets]
      BY ClockAssumption DEF ClockAssumption
    <2>3. /\ read'.at \in {"idle", "load", "done"} /\ read'.left \in SUBSET Halves
          /\ read' = [at |-> read'.at, left |-> read'.left, got |-> [h \in Halves |-> 0]]
      <3>1. CASE s_time_synced
        BY <3>1 DEF NoRead
      <3>2. CASE ~s_time_synced
        BY <3>2 DEF NoRead
      <3>. QED
        BY <3>1, <3>2
    <2>1. read' \in [at : {"idle", "load", "done"}, left : SUBSET Halves,
                    got : [Halves -> 0..MaxSets]]
      BY <2>0, <2>3
    <2>2. disturbed' \in BOOLEAN
      BY DEF ClockTypeOK
    <2>. QED
      BY <2>1, <2>2 DEF ClockTypeOK
  <1>2. TodoEarly' /\ UnderWay' /\ ClockAgrees' /\ FirstSet'
    BY DEF TodoEarly, UnderWay, ClockAgrees, FirstSet
  <1>3. ASSUME s_time_synced, ~disturbed'
        PROVE  /\ sets # 0 /\ \A w \in Setters : todo[w] = {}
               /\ \A h \in Halves : s_boot_epoch_offset_us[h] = sets
    <2>1. ~overlapped /\ (sets <= 1 \/ \A w \in Setters : pc[w] = 0)
      <3>1. ~overlapped /\ ~(sets > 1 /\ \E w \in Setters : pc[w] # 0)
        BY <1>3, Zenon
      <3>. QED
        BY <3>1 DEF ClockTypeOK
    <2>2. sets # 0 /\ \A w \in Setters : todo[w] = {}
      BY <1>3, <2>1 DEF FirstSet, TodoEarly, ClockTypeOK, Setters, StoreAt
    <2>. QED
      BY <2>1, <2>2 DEF UnderWay, ClockAgrees
  <1>4. ReadAtRest'
    <2>1. CASE s_time_synced
      <3>1. read'.at = "load" /\ read'.left = Halves
        BY <2>1 DEF NoRead
      <3>. QED
        BY <1>3, <2>1, <3>1 DEF ReadAtRest, DatedByOneSet
    <2>2. CASE ~s_time_synced
      BY <2>2 DEF ReadAtRest, DatedByOneSet, NoRead
    <2>. QED
      BY <2>1, <2>2
  <1>. QED
    BY <1>1, <1>2, <1>4

LEMMA ReadHalfKeeps ==
    ASSUME ClockInv, NEW h \in Halves, ReadHalf(h)
    PROVE  ClockInv'
  <1>. USE DEF ClockInv, ReadHalf, clockVars, setVars, tzVars
  <1>1. ClockTypeOK'
    BY DEF ClockTypeOK
  <1>2. TodoEarly' /\ UnderWay' /\ ClockAgrees' /\ FirstSet'
    BY DEF TodoEarly, UnderWay, ClockAgrees, FirstSet
  <1>3. ReadAtRest'
    BY DEF ReadAtRest, DatedByOneSet, ClockTypeOK, Halves
  <1>. QED
    BY <1>1, <1>2, <1>3

\* The timezone is the clock's only neighbour in the state.
LEMMA ZoneStepKeeps ==
    ASSUME ClockInv, ZoneInv, (\E i \in Timezones : ApplyTimezone(i)) \/ StoreTimezone
    PROVE  ClockInv' /\ ZoneInv'
  <1>. USE DEF ClockInv, ApplyTimezone, StoreTimezone, clockVars, setVars, readVars
  <1>1. ClockTypeOK'
    <2>1. /\ s_timezone_index' \in Timezones /\ tz_idx' \in 0..TzCount \cup {None}
          /\ promised' \in Timezones \cup {None} /\ tzStep' \in BOOLEAN
      <3>1. \A i \in Timezones : i \in 0..TzCount
        BY ClockAssumption DEF ClockAssumption, Timezones
      <3>. QED
        BY <3>1 DEF ClockTypeOK
    <2>. QED
      BY <2>1 DEF ClockTypeOK
  <1>2. TodoEarly' /\ UnderWay' /\ ClockAgrees' /\ FirstSet' /\ ReadAtRest'
    BY DEF TodoEarly, UnderWay, ClockAgrees, FirstSet, ReadAtRest, DatedByOneSet
  <1>3. ZoneInv'
    BY ClockAssumption DEF ZoneInv, TimezoneKept, ClockTypeOK, ClockAssumption
  <1>. QED
    BY <1>1, <1>2, <1>3

LEMMA RestartKeeps ==
    ASSUME ClockInv, ZoneInv, Restart
    PROVE  ClockInv' /\ ZoneInv'
  <1>. USE ClockAssumption DEF Restart, ClockInv
  <1>1. ClockTypeOK'
    <2>1. s_timezone_index' \in Timezones /\ tz_idx' \in 0..TzCount \cup {None}
      BY DEF ClockAssumption, Timezones, TimezoneFrom, ClockTypeOK
    <2>2. read' \in [at : {"idle", "load", "done"}, left : SUBSET Halves,
                    got : [Halves -> 0..MaxSets]]
      BY DEF ClockAssumption, NoRead
    <2>3. /\ s_boot_epoch_offset_us' \in [Halves -> 0..MaxSets]
          /\ libc' \in 0..MaxSets /\ mine' \in [Setters -> 0..MaxSets]
          /\ pc' \in [Setters -> 0..4] /\ todo' \in [Setters -> SUBSET Halves]
          /\ sets' \in 0..MaxSets
      BY DEF ClockAssumption
    <2>4. promised' \in Timezones \cup {None}
      BY DEF ClockTypeOK
    <2>. QED
      BY <2>1, <2>2, <2>3, <2>4 DEF ClockTypeOK, Setters
  <1>2. TodoEarly' /\ UnderWay' /\ ClockAgrees' /\ FirstSet'
    BY DEF TodoEarly, UnderWay, ClockAgrees, FirstSet
  <1>3. ReadAtRest'
    BY DEF ReadAtRest, DatedByOneSet, NoRead
  <1>4. ZoneInv'
    BY DEF ZoneInv, TimezoneKept, TimezoneFrom, ClockTypeOK
  <1>. QED
    BY <1>1, <1>2, <1>3, <1>4

\* The timezone does not change with the clock.
LEMMA ZoneAsBefore ==
    ASSUME ZoneInv, UNCHANGED tzVars
    PROVE  ZoneInv'
  BY DEF ZoneInv, TimezoneKept, tzVars

LEMMA ClockStep == ClockInv /\ ZoneInv /\ [Next]_vars => ClockInv' /\ ZoneInv'
<1>. SUFFICES ASSUME ClockInv, ZoneInv, [Next]_vars PROVE ClockInv' /\ ZoneInv'
  OBVIOUS
<1>1. ASSUME NEW w \in Setters, SetBegins(w) PROVE ClockInv' /\ ZoneInv'
  BY <1>1, SetBeginsKeeps, ZoneAsBefore DEF SetBegins
<1>2. ASSUME NEW w \in Setters, NEW h \in Halves, StoreHalf(w, h)
      PROVE  ClockInv' /\ ZoneInv'
  BY <1>2, StoreHalfKeeps, ZoneAsBefore DEF StoreHalf
<1>3. ASSUME NEW w \in Setters, RaiseFlag(w) PROVE ClockInv' /\ ZoneInv'
  BY <1>3, RaiseFlagKeeps, ZoneAsBefore DEF RaiseFlag
<1>4. ASSUME NEW w \in Setters, NameSource(w) PROVE ClockInv' /\ ZoneInv'
  BY <1>4, NameSourceKeeps, ZoneAsBefore DEF NameSource
<1>5. ASSUME NEW w \in Setters, SetTimeOfDay(w) PROVE ClockInv' /\ ZoneInv'
  BY <1>5, SetTimeOfDayKeeps, ZoneAsBefore DEF SetTimeOfDay
<1>6. CASE ReadBegins
  BY <1>6, ReadBeginsKeeps, ZoneAsBefore DEF ReadBegins
<1>7. ASSUME NEW h \in Halves, ReadHalf(h) PROVE ClockInv' /\ ZoneInv'
  BY <1>7, ReadHalfKeeps, ZoneAsBefore DEF ReadHalf
<1>8. CASE (\E i \in Timezones : ApplyTimezone(i)) \/ StoreTimezone
  BY <1>8, ZoneStepKeeps
<1>9. CASE Restart
  BY <1>9, RestartKeeps
<1>10. CASE UNCHANGED vars
  <2>1. ClockInv'
    BY <1>10 DEF vars, clockVars, setVars, readVars, tzVars, ClockInv, ClockTypeOK,
                 TodoEarly, UnderWay, ClockAgrees, FirstSet, ReadAtRest, DatedByOneSet
  <2>. QED
    BY <2>1, <1>10, ZoneAsBefore DEF vars
<1>. QED
  BY <1>1, <1>2, <1>3, <1>4, <1>5, <1>6, <1>7, <1>8, <1>9, <1>10 DEF Next, SetStep

THEOREM ClockInvariant == Spec => [](ClockInv /\ ZoneInv)
<1>1. ClockInit => ClockInv /\ ZoneInv
  BY ClockStarts
<1>. QED
  BY <1>1, ClockStep, PTL DEF Spec

\* The flag follows the offset it vouches for: a reader without a lock gets an
\* offset one set wrote in full, however many sets there are, unless it reads
\* across a set or after two at once (sntp_sync_cb, web_server_set_wall_clock,
\* web_server_convert_boot_time_us).
THEOREM ClockDatedByOneSet == Spec => []DatedByOneSet
<1>1. ClockInv => DatedByOneSet
  BY DEF ClockInv, ReadAtRest
<1>. QED
  BY <1>1, ClockInvariant, PTL

\* At rest the clock of rows, that of files and the source agree (the comment
\* of web_server_set_wall_clock), unless two sets overlapped.
THEOREM ClockAgreement == Spec => []ClockAgrees
<1>1. ClockInv => ClockAgrees
  BY DEF ClockInv
<1>. QED
  BY <1>1, ClockInvariant, PTL

\* A timezone reported as saved stays in use, also over restarts, for a table
\* of any length (web_server_set_timezone, load_timezone_from_nvs).
THEOREM TimezoneIsKept == Spec => []TimezoneKept
<1>1. ZoneInv => TimezoneKept
  BY DEF ZoneInv
<1>. QED
  BY <1>1, ClockInvariant, PTL
=============================================================================
