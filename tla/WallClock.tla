----------------------------- MODULE WallClock -----------------------------
(***************************************************************************)
(* The wall clock and the timezone of web_server.c. Two tasks set the      *)
(* clock -- SNTP's, and LVGL's for the "Set time" screen -- and others read *)
(* it, without a lock: the 64-bit offset is two 32-bit halves on this CPU. *)
(*                                                                         *)
(* A time is the number of the set it was computed by; 0 is no time.       *)
(***************************************************************************)
EXTENDS Naturals, Sequences

CONSTANTS MaxSets,   \* bound on how often the clock is set between restarts
          TzCount,   \* web_server_timezone_count
          None

ASSUME ClockAssumption == MaxSets \in Nat /\ TzCount \in Nat \ {0} /\ None \notin Nat

Setters == {"sntp", "manual"}
Timezones == 0..TzCount - 1   \* positions in web_server_timezones
Halves  == {"hi", "lo"}

VARIABLES
    s_boot_epoch_offset_us,      \* [hi, lo]: the set that wrote each half
    s_time_synced, s_time_source,
    libc,                        \* what time() counts from
    pc, mine, todo,              \* per setter: its step, its time, halves to store
    read,                        \* a read of the clock by another task
    sets, overlapped, disturbed, \* history, for the properties
    s_timezone_index, tzStep,    \* the timezone in RAM, and its store under way
    tz_idx, promised             \* in NVS; the last index reported "Saved"

clockVars == <<s_boot_epoch_offset_us, s_time_synced, s_time_source, libc>>
setVars   == <<pc, mine, todo, sets, overlapped>>
readVars  == <<read, disturbed>>
tzVars    == <<s_timezone_index, tzStep, tz_idx, promised>>
vars      == <<clockVars, setVars, readVars, tzVars>>

NoRead == [at |-> "idle", left |-> {}, got |-> [h \in Halves |-> 0]]

\* Mutants: the flag is raised before the offset is there; the manual set
\* leaves libc alone.
Steps_FlagFirst(w) == <<"flag", "store", "source", "libc">>
Steps_NoLibc(w) == IF w = "sntp" THEN <<"libc", "store", "flag", "source">>
                                 ELSE <<"store", "flag", "source">>

\* What a set does, in order: sntp_sync_cb runs after SNTP itself has set
\* libc's time, web_server_set_wall_clock sets it last.
Steps(w) == IF w = "sntp" THEN <<"libc", "store", "flag", "source">>
                          ELSE <<"store", "flag", "source", "libc">>

At(w, step) == pc[w] # 0 /\ Steps(w)[pc[w]] = step
Advance(w)  == pc' = [pc EXCEPT ![w] = IF @ = Len(Steps(w)) THEN 0 ELSE @ + 1]

\* load_timezone_from_nvs: the first entry unless a valid one is stored.
TimezoneFrom(stored) == IF stored \in Timezones THEN stored ELSE 0

ClockInit ==
    /\ s_boot_epoch_offset_us = [h \in Halves |-> 0]
    /\ s_time_synced = FALSE /\ s_time_source = "unset" /\ libc = 0
    /\ pc = [w \in Setters |-> 0] /\ mine = [w \in Setters |-> 0]
    /\ todo = [w \in Setters |-> {}]
    /\ read = NoRead /\ sets = 0 /\ overlapped = FALSE /\ disturbed = FALSE
    /\ tz_idx \in {None, TzCount - 1, TzCount}   \* also from a longer table
    /\ s_timezone_index = TimezoneFrom(tz_idx)
    /\ tzStep = FALSE /\ promised = None

-----------------------------------------------------------------------------
\* An SNTP reply, or "Set time". The new offset is computed before any of it
\* is stored; LVGL's task does one thing at a time.
SetBegins(w) ==
    /\ pc[w] = 0 /\ sets < MaxSets
    /\ w = "manual" => ~tzStep
    /\ sets' = sets + 1
    /\ pc' = [pc EXCEPT ![w] = 1]
    /\ mine' = [mine EXCEPT ![w] = sets + 1]
    /\ todo' = [todo EXCEPT ![w] = Halves]
    /\ overlapped' = (\E v \in Setters \ {w} : pc[v] # 0)
    /\ disturbed' = (disturbed \/ read.at = "load")
    /\ UNCHANGED <<clockVars, read, tzVars>>

\* One half of the offset; the compiler chooses which comes first.
StoreHalf(w, h) ==
    /\ At(w, "store") /\ h \in todo[w]
    /\ s_boot_epoch_offset_us' = [s_boot_epoch_offset_us EXCEPT ![h] = mine[w]]
    /\ todo' = [todo EXCEPT ![w] = @ \ {h}]
    /\ IF todo[w] = {h} THEN Advance(w) ELSE UNCHANGED pc
    /\ UNCHANGED <<s_time_synced, s_time_source, libc, mine, sets, overlapped,
                   readVars, tzVars>>

RaiseFlag(w) ==
    /\ At(w, "flag") /\ Advance(w)
    /\ s_time_synced' = TRUE
    /\ UNCHANGED <<s_boot_epoch_offset_us, s_time_source, libc, mine, todo, sets,
                   overlapped, readVars, tzVars>>

NameSource(w) ==
    /\ At(w, "source") /\ Advance(w)
    /\ s_time_source' = w
    /\ UNCHANGED <<s_boot_epoch_offset_us, s_time_synced, libc, mine, todo, sets,
                   overlapped, readVars, tzVars>>

SetTimeOfDay(w) ==
    /\ At(w, "libc") /\ Advance(w)
    /\ libc' = mine[w]
    /\ UNCHANGED <<s_boot_epoch_offset_us, s_time_synced, s_time_source, mine, todo,
                   sets, overlapped, readVars, tzVars>>

SetStep(w) == \/ \E h \in Halves : StoreHalf(w, h)
              \/ RaiseFlag(w) \/ NameSource(w) \/ SetTimeOfDay(w)

-----------------------------------------------------------------------------
\* web_server_get_wall_clock and web_server_convert_boot_time_us, by a task
\* that is not LVGL's: the flag, then the offset half by half.
ReadBegins ==
    /\ read.at # "load"
    /\ IF s_time_synced
       THEN read' = [NoRead EXCEPT !.at = "load", !.left = Halves]
       ELSE read' = NoRead
    /\ disturbed' = (overlapped \/ (sets > 1 /\ \E w \in Setters : pc[w] # 0))
    /\ UNCHANGED <<clockVars, setVars, tzVars>>

ReadHalf(h) ==
    /\ read.at = "load" /\ h \in read.left
    /\ read' = [at   |-> IF read.left = {h} THEN "done" ELSE "load",
                left |-> read.left \ {h},
                got  |-> [read.got EXCEPT ![h] = s_boot_epoch_offset_us[h]]]
    /\ UNCHANGED <<clockVars, setVars, disturbed, tzVars>>

-----------------------------------------------------------------------------
\* web_server_set_timezone, from LVGL's task: it is in use before it is kept.
ApplyTimezone(i) ==
    /\ ~tzStep /\ pc["manual"] = 0
    /\ s_timezone_index' = i
    /\ tzStep' = TRUE /\ promised' = None
    /\ UNCHANGED <<clockVars, setVars, readVars, tz_idx>>

\* Mutant: a refused write is reported as saved.
StoreTimezone_Ignored ==
    /\ tzStep /\ tzStep' = FALSE
    /\ tz_idx' \in {tz_idx, s_timezone_index} /\ promised' = s_timezone_index
    /\ UNCHANGED <<clockVars, setVars, readVars, s_timezone_index>>

\* It is stored and reported as saved; or refused, by the write or only by
\* the commit, and reported as failed.
StoreTimezone ==
    /\ tzStep /\ tzStep' = FALSE
    /\ \/ tz_idx' = s_timezone_index /\ promised' = s_timezone_index
       \/ tz_idx' \in {tz_idx, s_timezone_index} /\ UNCHANGED promised
    /\ UNCHANGED <<clockVars, setVars, readVars, s_timezone_index>>

\* Restart or power cut: no clock, the timezone from NVS.
Restart ==
    /\ s_boot_epoch_offset_us' = [h \in Halves |-> 0]
    /\ s_time_synced' = FALSE /\ s_time_source' = "unset" /\ libc' = 0
    /\ pc' = [w \in Setters |-> 0] /\ mine' = [w \in Setters |-> 0]
    /\ todo' = [w \in Setters |-> {}]
    /\ read' = NoRead /\ sets' = 0 /\ overlapped' = FALSE /\ disturbed' = FALSE
    /\ s_timezone_index' = TimezoneFrom(tz_idx) /\ tzStep' = FALSE
    /\ UNCHANGED <<tz_idx, promised>>

Next == \/ \E w \in Setters : SetBegins(w) \/ SetStep(w)
        \/ ReadBegins \/ \E h \in Halves : ReadHalf(h)
        \/ \E i \in Timezones : ApplyTimezone(i)
        \/ StoreTimezone \/ Restart

Spec == ClockInit /\ [][Next]_vars

-----------------------------------------------------------------------------
\* The values the variables take; the timezone in use is one of the table's,
\* whatever an earlier firmware left in NVS.
ClockTypeOK ==
    /\ s_boot_epoch_offset_us \in [Halves -> 0..MaxSets]
    /\ s_time_synced \in BOOLEAN /\ s_time_source \in Setters \cup {"unset"}
    /\ libc \in 0..MaxSets /\ mine \in [Setters -> 0..MaxSets]
    /\ pc \in [Setters -> 0..4] /\ todo \in [Setters -> SUBSET Halves]
    /\ read \in [at : {"idle", "load", "done"}, left : SUBSET Halves,
                 got : [Halves -> 0..MaxSets]]
    /\ sets \in 0..MaxSets
    /\ overlapped \in BOOLEAN /\ disturbed \in BOOLEAN /\ tzStep \in BOOLEAN
    /\ s_timezone_index \in Timezones
    /\ tz_idx \in 0..TzCount \cup {None} /\ promised \in Timezones \cup {None}

\* Whoever sees the flag reads an offset that one set wrote in full, without a
\* lock: the flag follows the offset. It does not cover a read across a later
\* set of a clock that already runs, nor one after two sets at once; there the
\* halves of two sets can be combined.
DatedByOneSet ==
    read.at = "done" /\ ~disturbed =>
        read.got["hi"] = read.got["lo"] /\ read.got["hi"] # 0

\* Between sets the clock that dates rows, the one libc stamps files with and
\* the source the screens name all come from the same set (the comment of
\* web_server_set_wall_clock) -- unless SNTP's task and LVGL's set it at once.
ClockAgrees ==
    /\ \A w \in Setters : pc[w] = 0
    /\ ~overlapped /\ sets # 0
    => /\ s_time_synced
       /\ \A h \in Halves : s_boot_epoch_offset_us[h] = sets
       /\ libc = sets
       /\ mine[s_time_source] = sets

\* A timezone reported as saved is the one in use from then on, over restarts,
\* until another is applied.
TimezoneKept == promised # None => s_timezone_index = promised /\ tz_idx = promised
=============================================================================
