---------------------------- MODULE LoggerProofs ----------------------------
(***************************************************************************)
(* Proofs about Logger and Download, for any names, files, sizes, callers, *)
(* faults and numbers of calls and restarts, except where a theorem says   *)
(* what it assumes:                                                        *)
(*   - the state has its type (LoggerTyped);                               *)
(*   - bookmarks stay behind what was stored (BookmarksBacked);            *)
(*   - nothing but an old backup is removed or overwritten                 *)
(*     (LoggerKeepsRows), the current file has all it should               *)
(*     (FileComplete), every file is well formed (FilesWellFormed, from    *)
(*     HeadersFirst and RowsOrdered), and within its cap (CapHolds);       *)
(*   - a download is the file it began with (DownloadsWhole).              *)
(*                                                                         *)
(* Each rests on LoggerTyped and an inductive invariant of its own, kept   *)
(* by every action of Next; what flush_channel gathers from the ring comes *)
(* from KeepIs (FiltersProofs) and the theorems about DataHub.             *)
(***************************************************************************)
EXTENDS Download, DataHubProofs, SequenceTheorems

-----------------------------------------------------------------------------
(* What the logger sees of the hub *)

\* The samples in the ring of each channel.
Rings == [n \in Names |-> RowSet(GetHistory(n, HistoryLen))]

HubOK == HubTypeOK /\ TableShape /\ WindowsOrdered

LEMMA RingsOfWin == Rings = [n \in Names |-> RowSet(Win[n])]
  BY DEF Rings, Win

\* The ring holds the past.
LEMMA RingsPast == HubOK => now \in Nat /\ Rings \in [Names -> SUBSET (1 .. now)]
  <1> SUFFICES ASSUME HubOK
               PROVE  now \in Nat /\ Rings \in [Names -> SUBSET (1 .. now)]
    OBVIOUS
  <1>1. now \in Nat
    BY DEF HubOK, HubTypeOK
  <1>2. ASSUME NEW n \in Names PROVE RowSet(Win[n]) \subseteq 1 .. now
    <2>1. Win[n] \in Seq(1 .. now)
      BY DEF HubOK, WindowsOrdered
    <2> QED
      BY <2>1, SeqElement DEF RowSet
  <1> QED
    BY <1>1, <1>2, RingsOfWin

\* A ring is no longer than it is.
LEMMA HistoryFits ==
    ASSUME HubOK, NEW n \in Names
    PROVE  Len(GetHistory(n, HistoryLen)) \in 0 .. HistoryLen
  <1> USE HubAssumption DEF HubAssumption
  <1>1. CASE ~Known(n)
    BY <1>1 DEF GetHistory
  <1>2. CASE Known(n)
    <2>1. PICK i \in Slots : Holds(i, n)
      BY <1>2 DEF Known
    <2>2. GetHistory(n, HistoryLen) = Seen(channels[i])
      BY <2>1, LookupUnique DEF LookupsExact, HubOK
    <2>3. channels[i].count > 0 /\ Ring(channels[i])
      BY <2>1, RingOfEntry DEF TableShape, Holds, HubOK
    <2>4. Len(Seen(channels[i])) = channels[i].count
      BY <2>3, NewestIsLast
    <2> QED
      BY <2>2, <2>3, <2>4 DEF Ring
  <1> QED
    BY <1>1, <1>2

LEMMA SlideAdds ==
    ASSUME NEW T, NEW s \in Seq(T), NEW t \in T
    PROVE  RowSet(Window!Slide(s, t)) \subseteq RowSet(s) \cup {t}
  <1> USE HubAssumption DEF HubAssumption
  <1>1. ASSUME NEW u \in Seq(T)
        PROVE  RowSet(Append(u, t)) \subseteq RowSet(u) \cup {t}
    BY DEF RowSet
  <1>2. CASE Len(s) < HistoryLen
    BY <1>1, <1>2 DEF Window!Slide
  <1>3. CASE ~(Len(s) < HistoryLen)
    <2>1. Len(s) \in Nat /\ Len(s) > 0
      BY <1>3
    <2>2. /\ Tail(s) \in Seq(T)
          /\ Len(Tail(s)) = Len(s) - 1
          /\ \A j \in 1 .. Len(s) - 1 : Tail(s)[j] = s[j + 1]
      BY <2>1, TailIndexed
    <2>3. RowSet(Tail(s)) \subseteq RowSet(s)
      BY <2>1, <2>2 DEF RowSet
    <2> QED
      BY <1>1, <1>3, <2>2, <2>3 DEF Window!Slide
  <1> QED
    BY <1>2, <1>3

\* A publish is later than every sample, and a ring gains nothing else by it.
LEMMA HubStepRings ==
    ASSUME HubOK, HubNext
    PROVE  /\ HubOK'
           /\ now \in Nat /\ now' = now + 1
           /\ \A n \in Names : Rings'[n] \subseteq Rings[n] \cup {now'}
  <1>1. PICK m \in Names : Publish(m)
    BY DEF HubNext
  <1>2. HubOK'
    BY <1>1, TableStep, WindowsOrderedStep DEF HubOK
  <1>3. now \in Nat /\ now' = now + 1
    BY <1>1, PublishEffect DEF HubOK, HubTypeOK
  <1>4. ASSUME NEW n \in Names
        PROVE  RowSet(Win'[n]) \subseteq RowSet(Win[n]) \cup {now'}
    <2>1. CASE Win' = Win
      BY <2>1
    <2>2. CASE Win' = [Win EXCEPT ![m] = Window!Slide(Win[m], now')]
      <3>1. Win'[n] = IF n = m THEN Window!Slide(Win[m], now') ELSE Win[n]
        BY <2>2 DEF Win
      <3>2. Win[m] \in Seq(1 .. now + 1) /\ now' \in 1 .. now + 1
        BY <1>3 DEF HubOK, WindowsOrdered
      <3>3. RowSet(Window!Slide(Win[m], now')) \subseteq RowSet(Win[m]) \cup {now'}
        BY <3>2, SlideAdds
      <3> QED
        BY <3>1, <3>3
    <2> QED
      BY <1>1, <2>1, <2>2, WindowStep DEF HubOK
  <1>5. \A n \in Names : Rings[n] = RowSet(Win[n]) /\ Rings'[n] = RowSet(Win'[n])
    BY DEF Rings, Win, RowSet
  <1> QED
    BY <1>2, <1>3, <1>4, <1>5

LEMMA HubSame ==
    ASSUME UNCHANGED <<channels, now>>
    PROVE  /\ Rings' = Rings
           /\ HubOK => HubOK'
  <1>1. Win' = Win /\ now' = now
    BY DEF Win, Known, Holds, GetHistory, ChannelOf, IsChannel
  <1>2. Rings' = Rings
    BY DEF Rings, RowSet, Known, Holds, GetHistory, ChannelOf, IsChannel
  <1>3. HubTypeOK /\ TableShape => HubTypeOK' /\ TableShape'
    BY DEF HubTypeOK, TableShape
  <1>4. WindowsOrdered => WindowsOrdered'
    BY <1>1 DEF WindowsOrdered
  <1> QED
    BY <1>2, <1>3, <1>4 DEF HubOK

\* A restart empties the table.
LEMMA HubRestart ==
    ASSUME HubOK, channels' = [i \in Slots |-> FreeChannel], now' = now
    PROVE  /\ HubOK'
           /\ Rings' = [n \in Names |-> {}]
  <1> USE HubAssumption DEF HubAssumption
  <1>1. FreeChannel \in Channel /\ FreeChannel.in_use = FALSE
    BY DEF FreeChannel, EmptyRing, Channel, Cells
  <1>2. \A i \in Slots : channels'[i] = FreeChannel
    OBVIOUS
  <1>3. HubTypeOK' /\ TableShape'
    BY <1>1, <1>2 DEF HubOK, HubTypeOK, TableShape
  <1>4. \A n \in Names : GetHistory(n, HistoryLen)' = << >>
    BY <1>1, <1>2 DEF Known, Holds, GetHistory
  <1>5. WindowsOrdered'
    <2>1. \A n \in Names : Win'[n] = << >>
      BY <1>4 DEF Win
    <2>2. << >> \in Seq(1 .. now') /\ Increasing(<< >>)
      BY DEF Increasing
    <2> QED
      BY <2>1, <2>2, Zenon DEF WindowsOrdered
  <1>6. Rings' = [n \in Names |-> {}]
    BY <1>4 DEF Rings, RowSet
  <1> QED
    BY <1>3, <1>5, <1>6 DEF HubOK

LEMMA HubAtInit ==
    ASSUME HubInit
    PROVE  HubOK /\ Rings = [n \in Names |-> {}] /\ now = 0
  <1> USE HubAssumption DEF HubAssumption
  <1>1. \A n \in Names : GetHistory(n, HistoryLen) = << >>
    BY DEF HubInit, FreeChannel, EmptyRing, Known, Holds, GetHistory
  <1>2. WindowsOrdered
    <2>1. \A n \in Names : Win[n] = << >>
      BY <1>1 DEF Win
    <2>2. << >> \in Seq(1 .. now) /\ Increasing(<< >>)
      BY DEF Increasing
    <2> QED
      BY <2>1, <2>2, Zenon DEF WindowsOrdered
  <1> QED
    BY <1>1, <1>2, TableInit DEF HubOK, HubInit, Rings, RowSet

\* flush_channel, up to the write: the samples after the bookmark, in order, or
\* the next channel.
Fresh(n, last) == {t \in Rings[n] : t > last}

LEMMA GatherIs ==
    ASSUME HubOK, NEW n \in Names, NEW last \in 0 .. now, Gather(n, last)
    PROVE  \/ /\ pc' = "write" /\ todo' = todo
              /\ batch' \in Seq(1 .. now) /\ batch' # << >>
              /\ Len(batch') <= HistoryLen
              /\ Increasing(batch')
              /\ RowSet(batch') = Fresh(n, last)
           \/ pc' = "flush" /\ todo' = Tail(todo) /\ batch' = batch
  <1> USE HubAssumption DEF HubAssumption
  <1> DEFINE s == GetHistory(n, HistoryLen)
             wanted == last + 1 .. now
             new == Keep(s, wanted)
  <1>0. now \in Nat /\ Rings[n] \subseteq 1 .. now /\ Rings[n] = RowSet(s)
    BY RingsPast DEF Rings
  <1>1. s \in Seq(1 .. now) /\ Increasing(s) /\ Len(s) \in 0 .. HistoryLen
    BY HistoryFits DEF HubOK, WindowsOrdered, Win
  <1> HIDE DEF s
  <1>2. Copied(new, 1 .. now, s, wanted, Len(s))
    BY <1>1, KeepIs
  <1>3. new \in Seq(1 .. now) /\ DOMAIN new = 1 .. Len(new) /\ Len(new) \in Nat /\ Len(new) <= HistoryLen
    BY <1>1, <1>2 DEF Copied
  <1>4. Increasing(new)
    <2> HIDE DEF new
    <2> SUFFICES ASSUME NEW j \in DOMAIN new, NEW k \in DOMAIN new, j < k
                 PROVE  new[j] < new[k]
      BY DEF Increasing
    <2>1. PICK a \in 1 .. Len(s), b \in 1 .. Len(s) : a < b /\ new[j] = s[a] /\ new[k] = s[b]
      BY <1>2, Zenon DEF Copied
    <2> QED
      BY <1>1, <2>1 DEF Increasing
  <1>5. RowSet(new) = Fresh(n, last)
    <2> HIDE DEF new
    <2>1. \A j \in DOMAIN new : new[j] \in wanted /\ \E a \in DOMAIN s : new[j] = s[a]
      BY <1>1, <1>2 DEF Copied
    <2>2. \A a \in DOMAIN s : s[a] \in wanted => \E j \in DOMAIN new : new[j] = s[a]
      BY <1>1, <1>2 DEF Copied
    <2>3. \A t \in Rings[n] : t \in wanted <=> t > last
      BY <1>0
    <2>4. RowSet(new) \subseteq Fresh(n, last)
      BY <1>0, <2>1, <2>3 DEF Fresh, RowSet
    <2>5. Fresh(n, last) \subseteq RowSet(new)
      BY <1>0, <2>2, <2>3 DEF Fresh, RowSet
    <2> QED
      BY <2>4, <2>5
  <1>6. \/ batch' = new /\ new # << >> /\ pc' = "write" /\ todo' = todo
        \/ pc' = "flush" /\ todo' = Tail(todo) /\ batch' = batch
    BY DEF Gather, s
  <1> HIDE DEF new
  <1> QED
    BY <1>3, <1>4, <1>5, <1>6

-----------------------------------------------------------------------------
(* What every reachable state has in common *)

RowType == [name : Names \cup {NoName}, ts : Nat]

LogPaths == {p \in [name : LogNames \cup {DefaultName, TornName, NoName},
                    gen : 0 .. 1, len : 0 .. LogPathLen + 1] : p.name = NoName <=> p.len = 0}

\* What s_log_path holds: no backup, and it fits.
MainPaths == {p \in LogPaths : p.gen = 0 /\ p.len < LogPathLen}

Marks == UNION {[D -> 0 .. now] : D \in SUBSET Names}

CardOK == /\ files \in [DOMAIN files -> Seq(RowType)]
          /\ DOMAIN files \subseteq LogPaths
          /\ faults \in Nat

MarksOK == s_state \in Marks /\ found \in Marks

TaskOK ==
    /\ pc \in {"boot", "delay", "flush", "add", "write", "rename", "header"}
    /\ todo \in Seq(Names)
    /\ batch \in Seq(1 .. now)
    /\ pc \in {"add", "write"} => todo # << >>
    /\ pc = "write" => batch # << >> /\ Len(batch) <= HistoryLen /\ Increasing(batch)

CallsOK ==
    /\ s_log_path \in MainPaths /\ s_backup_path \in LogPaths
    /\ call \in [Callers -> [at : {"idle", "copy", "backup", "exists", "header",
                                   "erase", "format"},
                             path : LogPaths]]
    /\ \A c \in Callers : call[c].at = "idle" => call[c] = Idle
    /\ \A c \in Callers : call[c].at \in {"copy", "backup"} =>
           call[c].path \in MainPaths \ {NoPath} /\ s_log_path # NoPath

FlagsOK == s_running \in BOOLEAN /\ synced \in BOOLEAN /\ boots \in Nat

Typed == HubOK /\ CardOK /\ MarksOK /\ TaskOK /\ CallsOK /\ FlagsOK

-----------------------------------------------------------------------------
(* Who changes what *)

ChangesCard(c) == StartHeader(c) \/ DeleteErase(c) \/ ClearFormat(c)

\* Only these steps write to the card.
LEMMA CardFrame ==
    ASSUME [Next]_vars
    PROVE  \/ WriteBatch \/ RotateRename \/ RotateHeader \/ PowerLoss
           \/ \E c \in Callers : ChangesCard(c)
           \/ UNCHANGED card
  BY DEF Next, vars, card, LoggerInit, LoggerTask, Wake, FlushKnown, FlushNew, AddState,
         RotateCheck, Call, Continue, Begin, ChangesCard, StartResume, StartSwitch, StartCopy,
         StartBackup, StartExists, Stop, DeleteCheck, ClearStop, HubStep, ClockSet

\* Only these steps touch the bookmarks.
LEMMA MarksFrame ==
    ASSUME [Next]_vars
    PROVE  \/ LoggerInit \/ FlushNew \/ AddState \/ WriteBatch \/ RotateHeader \/ PowerLoss
           \/ \E c \in Callers : StartBackup(c)
           \/ UNCHANGED <<s_state, found>>
  BY DEF Next, vars, logVars, taskVars, LoggerTask, Wake, FlushKnown,
         RotateCheck, RotateRename, Call, Continue, Begin, StartResume, StartSwitch, StartCopy,
         StartExists, StartHeader, Stop, DeleteCheck, ClearStop, DeleteErase, ClearFormat,
         HubStep, ClockSet

\* Only these steps move the logger task.
LEMMA TaskFrame ==
    ASSUME [Next]_vars
    PROVE  \/ LoggerInit \/ LoggerTask \/ PowerLoss
           \/ UNCHANGED taskVars
  BY DEF Next, vars, taskVars, Call, Continue, Begin, StartResume, StartSwitch, StartCopy,
         StartBackup, StartExists, StartHeader, Stop, DeleteCheck, ClearStop, DeleteErase,
         ClearFormat, HubStep, ClockSet

\* Only these steps move a caller, or the path of the log.
LEMMA CallFrame ==
    ASSUME [Next]_vars
    PROVE  \/ LoggerInit \/ PowerLoss
           \/ \E c \in Callers : Call(c) \/ Continue(c)
           \/ UNCHANGED <<call, s_log_path, s_backup_path>>
  BY DEF Next, vars, logVars, LoggerTask, Wake, FlushKnown, FlushNew, AddState, WriteBatch,
         RotateCheck, RotateRename, RotateHeader, HubStep, ClockSet

\* Only these steps touch the hub.
LEMMA HubFrame ==
    ASSUME [Next]_vars
    PROVE  HubStep \/ PowerLoss \/ UNCHANGED <<channels, now>>
  BY DEF Next, vars, LoggerInit, LoggerTask, Wake, FlushKnown, FlushNew, AddState, WriteBatch,
         RotateCheck, RotateRename, RotateHeader, Call, Continue, Begin, StartResume,
         StartSwitch, StartCopy, StartBackup, StartExists, StartHeader, Stop, DeleteCheck,
         ClearStop, DeleteErase, ClearFormat, ClockSet

LEMMA FlagsStep == FlagsOK /\ [Next]_vars => FlagsOK'
  <1> SUFFICES ASSUME FlagsOK, [Next]_vars PROVE FlagsOK'
    OBVIOUS
  <1> USE DEF FlagsOK
  <1>1. CASE LoggerInit \/ LoggerTask
    BY <1>1 DEF logVars, boundVars, LoggerInit, LoggerTask, Wake, FlushKnown, FlushNew,
         AddState, WriteBatch, RotateCheck, RotateRename, RotateHeader
  <1>2. ASSUME NEW c \in Callers, Call(c) PROVE FlagsOK'
    BY <1>2 DEF logVars, Call, Begin, StartResume, StartSwitch, Stop, DeleteCheck, ClearStop
  <1>3. ASSUME NEW c \in Callers, Continue(c) PROVE FlagsOK'
    BY <1>3 DEF logVars, boundVars, Continue, StartCopy, StartBackup, StartExists, StartHeader,
         DeleteErase, ClearFormat
  <1>4. CASE HubStep \/ ClockSet \/ UNCHANGED vars
    BY <1>4 DEF vars, logVars, boundVars, HubStep, ClockSet
  <1>5. CASE PowerLoss
    <2>1. boots' \in Nat
      BY <1>5 DEF PowerLoss
    <2>2. s_running' = FALSE /\ synced' = FALSE
      BY <1>5 DEF PowerLoss
    <2> QED
      BY <2>1, <2>2
  <1> QED
    BY <1>1, <1>2, <1>3, <1>4, <1>5 DEF Next

LEMMA HubPart == HubOK /\ [Next]_vars => HubOK'
  <1> SUFFICES ASSUME HubOK, [Next]_vars PROVE HubOK'
    OBVIOUS
  <1>1. CASE HubStep
    BY <1>1, HubStepRings DEF HubStep
  <1>2. CASE PowerLoss
    BY <1>2, HubRestart DEF PowerLoss
  <1>3. CASE UNCHANGED <<channels, now>>
    BY <1>3, HubSame
  <1> QED
    BY <1>1, <1>2, <1>3, HubFrame

\* Time does not run backwards.
LEMMA Later ==
    ASSUME HubOK, [Next]_vars
    PROVE  now \in Nat /\ now' \in Nat /\ now <= now'
  <1>0. now \in Nat
    BY RingsPast
  <1>1. CASE HubStep
    BY <1>0, <1>1, HubStepRings DEF HubStep
  <1>2. CASE PowerLoss \/ UNCHANGED <<channels, now>>
    BY <1>0, <1>2 DEF PowerLoss
  <1> QED
    BY <1>1, <1>2, HubFrame

LEMMA MarksLater ==
    ASSUME NEW m \in Marks, now \in Nat, now' \in Nat, now <= now'
    PROVE  m \in Marks'
  <1>1. PICK D \in SUBSET Names : m \in [D -> 0 .. now]
    BY DEF Marks
  <1>2. m \in [D -> 0 .. now']
    BY <1>1
  <1> QED
    BY <1>2 DEF Marks

LEMMA MarkIs ==
    ASSUME NEW m \in Marks
    PROVE  /\ m = [n \in DOMAIN m |-> m[n]]
           /\ DOMAIN m \subseteq Names
           /\ \A n \in DOMAIN m : m[n] \in 0 .. now
  BY DEF Marks

LEMMA NoMarks == now \in Nat => NoBookmarks \in Marks
  <1>1. NoBookmarks \in [{} -> 0 .. now]
    BY DEF NoBookmarks
  <1> QED
    BY <1>1 DEF Marks

\* The channel a cycle is at, and the next one.
LEMMA AtHead ==
    ASSUME todo \in Seq(Names), todo # << >>
    PROVE  Head(todo) \in Names /\ Tail(todo) \in Seq(Names) /\ Len(Tail(todo)) = Len(todo) - 1
  OBVIOUS

\* Both ways to the write gather the samples after the bookmark they leave.
LEMMA Gathers ==
    ASSUME Typed, FlushKnown \/ AddState
    PROVE  /\ Head(todo) \in Names
           /\ Tail(todo) \in Seq(Names)
           /\ s_state' \in Marks /\ Head(todo) \in DOMAIN s_state'
           /\ UNCHANGED <<channels, now, card, s_running, s_log_path, s_backup_path, call, stored,
                          excused, boots>>
           /\ \/ /\ pc' = "write" /\ todo' = todo
                 /\ batch' \in Seq(1 .. now) /\ batch' # << >>
                 /\ Len(batch') <= HistoryLen
                 /\ Increasing(batch')
                 /\ RowSet(batch') = Fresh(Head(todo), s_state'[Head(todo)])
              \/ pc' = "flush" /\ todo' = Tail(todo) /\ batch' = batch
  <1> DEFINE n == Head(todo)
  <1>1. HubOK /\ now \in Nat /\ n \in Names /\ Tail(todo) \in Seq(Names)
    <2>1. todo \in Seq(Names) /\ todo # << >>
      BY DEF FlushKnown, AddState, Typed, TaskOK
    <2> QED
      BY <2>1, AtHead, RingsPast DEF Typed
  <1>2. CASE FlushKnown
    <2>1. n \in DOMAIN s_state /\ Gather(n, s_state[n]) /\ s_state' = s_state
      BY <1>2 DEF FlushKnown, logVars
    <2>2. s_state[n] \in 0 .. now /\ s_state \in Marks
      BY <2>1, MarkIs DEF Typed, MarksOK
    <2>3. UNCHANGED <<channels, now, card, s_running, s_log_path, s_backup_path, call, stored,
                      excused, boots>>
      BY <1>2 DEF FlushKnown, logVars, boundVars
    <2> HIDE DEF n
    <2> QED
      BY <1>1, <2>1, <2>2, <2>3, GatherIs DEF n
  <1>3. CASE AddState
    <2>1. /\ Gather(n, 0)
          /\ s_state' = [m \in DOMAIN found \cup {n} |-> IF m = n THEN 0 ELSE found[m]]
      BY <1>3 DEF AddState
    <2>2. s_state' \in Marks /\ n \in DOMAIN s_state' /\ s_state'[n] = 0
      <3>1. /\ DOMAIN found \subseteq Names
            /\ \A m \in DOMAIN found : found[m] \in 0 .. now
        BY MarkIs DEF Typed, MarksOK
      <3>2. s_state' \in [DOMAIN found \cup {n} -> 0 .. now]
        BY <1>1, <2>1, <3>1
      <3> QED
        BY <1>1, <2>1, <3>1, <3>2 DEF Marks
    <2>3. UNCHANGED <<channels, now, card, s_running, s_log_path, s_backup_path, call, stored,
                      excused, boots>>
      BY <1>3 DEF AddState, boundVars
    <2>4. 0 \in 0 .. now
      BY <1>1
    <2> HIDE DEF n
    <2> QED
      BY <1>1, <2>1, <2>2, <2>3, <2>4, GatherIs DEF n
  <1> QED
    BY <1>2, <1>3

LEMMA MarksPart == Typed /\ [Next]_vars => MarksOK'
  <1> SUFFICES ASSUME Typed, [Next]_vars PROVE MarksOK'
    OBVIOUS
  <1>0. now \in Nat /\ now' \in Nat /\ now <= now'
    BY Later DEF Typed
  <1>1. s_state \in Marks' /\ found \in Marks' /\ NoBookmarks \in Marks'
    BY <1>0, MarksLater, NoMarks DEF Typed, MarksOK
  <1>2. CASE LoggerInit \/ RotateHeader \/ PowerLoss \/ \E c \in Callers : StartBackup(c)
    BY <1>1, <1>2 DEF MarksOK, LoggerInit, RotateHeader, PowerLoss, StartBackup, taskVars
  <1>3. CASE FlushNew
    BY <1>1, <1>3 DEF MarksOK, FlushNew, logVars
  <1>4. CASE AddState
    <2>1. found' = NoBookmarks /\ now' = now
      BY <1>4 DEF AddState
    <2>2. s_state' \in Marks /\ Marks' = Marks
      BY <1>4, <2>1, Gathers DEF Marks
    <2> QED
      BY <1>1, <2>1, <2>2 DEF MarksOK
  <1>5. CASE WriteBatch
    <2>1. found' = found /\ now' = now
      BY <1>5 DEF WriteBatch
    <2>2. batch[Len(batch)] \in 0 .. now
      <3>1. batch \in Seq(1 .. now) /\ batch # << >>
        BY <1>5 DEF Typed, TaskOK, WriteBatch
      <3> QED
        BY <1>0, <3>1
    <2>3. \/ s_state' = s_state
          \/ s_state' = [s_state EXCEPT ![Head(todo)] = batch[Len(batch)]]
      BY <1>5 DEF WriteBatch
    <2>4. s_state' \in Marks
      <3>1. PICK D \in SUBSET Names : s_state \in [D -> 0 .. now]
        BY DEF Typed, MarksOK, Marks
      <3>2. s_state' \in [D -> 0 .. now]
        BY <2>2, <2>3, <3>1
      <3> QED
        BY <3>2 DEF Marks
    <2> QED
      BY <1>1, <2>1, <2>4 DEF MarksOK, Marks
  <1>6. CASE UNCHANGED <<s_state, found>>
    BY <1>1, <1>6 DEF MarksOK
  <1> QED
    BY <1>2, <1>3, <1>4, <1>5, <1>6, MarksFrame

-----------------------------------------------------------------------------
(* The card *)

\* Rows appended to a file that may not exist yet.
Extends(p, rows) == files' = CardWith(p, Rows(p) \o rows)

LEMMA CardSame ==
    ASSUME CardOK, files' \in {files, << >>}, faults' \in Nat
    PROVE  CardOK'
  <1>1. CASE files' = files
    BY <1>1 DEF CardOK
  <1>2. CASE files' = << >>
    <2>1. DOMAIN files' = {}
      BY <1>2
    <2>2. files' \in [{} -> Seq(RowType)]
      BY <1>2
    <2> QED
      BY <2>1, <2>2 DEF CardOK
  <1> QED
    BY <1>1, <1>2

LEMMA RowsType ==
    ASSUME CardOK, NEW p
    PROVE  Rows(p) \in Seq(RowType)
  BY DEF CardOK, Rows

LEMMA WithRows ==
    ASSUME CardOK, NEW p \in LogPaths, NEW rows \in Seq(RowType),
           files' = CardWith(p, rows), faults' \in Nat
    PROVE  /\ CardOK'
           /\ DOMAIN files' = DOMAIN files \cup {p}
           /\ files'[p] = rows
           /\ \A q \in DOMAIN files : q # p => files'[q] = files[q]
           /\ \A q : q # p => Rows(q)' = Rows(q)
           /\ Rows(p)' = rows
  <1>1. /\ DOMAIN files' = DOMAIN files \cup {p}
        /\ files'[p] = rows
        /\ \A q \in DOMAIN files : q # p => files'[q] = files[q]
    BY DEF CardWith
  <1>2. files' \in [DOMAIN files' -> Seq(RowType)]
    BY DEF CardWith, CardOK
  <1> QED
    BY <1>1, <1>2 DEF CardOK, Rows

LEMMA WithoutRows ==
    ASSUME CardOK, NEW p, files' = CardWithout(p), faults' \in Nat
    PROVE  /\ CardOK'
           /\ DOMAIN files' = DOMAIN files \ {p}
           /\ \A q \in DOMAIN files' : files'[q] = files[q]
           /\ \A q : q # p => Rows(q)' = Rows(q)
           /\ Rows(p)' = << >>
  <1>1. /\ DOMAIN files' = DOMAIN files \ {p}
        /\ \A q \in DOMAIN files' : files'[q] = files[q]
    BY DEF CardWithout
  <1>2. files' \in [DOMAIN files' -> Seq(RowType)]
    BY DEF CardWithout, CardOK
  <1> QED
    BY <1>1, <1>2 DEF CardOK, Rows

\* The first k rows of the batch.
Added(k) == [j \in 1 .. k |-> Row(Head(todo), batch[j])]

LEMMA AddedIs ==
    ASSUME Typed, pc = "write", NEW k \in 0 .. Len(batch)
    PROVE  /\ Added(k) \in Seq(RowType)
           /\ Len(Added(k)) = k
           /\ \A j \in 1 .. k : Added(k)[j] = Row(Head(todo), batch[j])
           /\ Rows(s_log_path) \o Added(k) \in Seq(RowType)
           /\ RowSet(Rows(s_log_path) \o Added(k)) =
                  RowSet(Rows(s_log_path)) \cup {Row(Head(todo), batch[j]) : j \in 1 .. k}
  <1>1. Head(todo) \in Names
    BY AtHead DEF Typed, TaskOK
  <1>2. batch \in Seq(Nat) /\ Len(batch) \in Nat
    <2>1. batch \in Seq(1 .. now) /\ now \in Nat
      BY RingsPast DEF Typed, TaskOK
    <2> QED
      BY <2>1
  <1>3. \A j \in 1 .. k : Row(Head(todo), batch[j]) \in RowType
    BY <1>1, <1>2 DEF Row, RowType
  <1>4. /\ Added(k) \in Seq(RowType)
        /\ Len(Added(k)) = k
        /\ \A j \in 1 .. k : Added(k)[j] = Row(Head(todo), batch[j])
    BY <1>3 DEF Added
  <1> DEFINE a == Added(k)
             r == Rows(s_log_path)
  <1>5. r \in Seq(RowType)
    BY RowsType DEF Typed
  <1> HIDE DEF a, r
  <1>6. a \in Seq(RowType) /\ Len(a) = k
    BY <1>4 DEF a
  <1>7. /\ r \o a \in Seq(RowType)
        /\ Len(r \o a) = Len(r) + k
        /\ \A j \in 1 .. Len(r) : (r \o a)[j] = r[j]
        /\ \A j \in 1 .. k : (r \o a)[Len(r) + j] = a[j]
        /\ \A j \in 1 .. Len(r) + k : j \in 1 .. Len(r) \/ j - Len(r) \in 1 .. k
    BY <1>5, <1>6
  <1>8. RowSet(r \o a) = RowSet(r) \cup RowSet(a)
    <2>1. DOMAIN r = 1 .. Len(r) /\ DOMAIN a = 1 .. k /\ DOMAIN (r \o a) = 1 .. Len(r) + k
      BY <1>5, <1>6, <1>7
    <2>2. ASSUME NEW j \in 1 .. Len(r) + k
          PROVE  (r \o a)[j] \in RowSet(r) \cup RowSet(a)
      <3>1. CASE j \in 1 .. Len(r)
        BY <3>1, <1>7, <2>1 DEF RowSet
      <3>2. CASE j - Len(r) \in 1 .. k
        <4>1. Len(r) + (j - Len(r)) = j
          BY <1>5
        <4>2. (r \o a)[j] = a[j - Len(r)]
          BY <3>2, <4>1, <1>7
        <4> QED
          BY <3>2, <4>2, <2>1 DEF RowSet
      <3> QED
        BY <3>1, <3>2, <1>7
    <2>3. ASSUME NEW j \in 1 .. Len(r) PROVE r[j] \in RowSet(r \o a)
      <3>1. j \in 1 .. Len(r) + k
        BY <1>5
      <3> QED
        BY <3>1, <1>7, <2>1 DEF RowSet
    <2>4. ASSUME NEW j \in 1 .. k PROVE a[j] \in RowSet(r \o a)
      <3>1. Len(r) + j \in 1 .. Len(r) + k
        BY <1>5
      <3> QED
        BY <3>1, <1>7, <2>1 DEF RowSet
    <2> QED
      BY <2>1, <2>2, <2>3, <2>4 DEF RowSet
  <1>9. RowSet(a) = {Row(Head(todo), batch[j]) : j \in 1 .. k}
    BY <1>4 DEF RowSet, a
  <1> QED
    BY <1>4, <1>7, <1>8, <1>9 DEF a, r

\* What an append does to the card, to the bookmark and to the row counts.
LEMMA WriteEffect ==
    ASSUME Typed, WriteBatch
    PROVE  /\ pc = "write" /\ pc' = "flush" /\ todo # << >> /\ todo' = Tail(todo)
           /\ faults' \in {faults, faults + 1}
           /\ \/ UNCHANGED <<files, s_state>>
              \/ /\ Addressable(s_log_path)
                 /\ \E k \in 0 .. Len(batch) :
                       /\ Extends(s_log_path, Added(k))
                       /\ \/ /\ k = Len(batch) \/ "close" \in Faults
                             /\ s_state' = IF Head(todo) \in DOMAIN s_state
                                    THEN [s_state EXCEPT ![Head(todo)] = batch[Len(batch)]]
                                    ELSE s_state
                          \/ s_state' = s_state /\ "short" \in Faults
  <1> DEFINE rows == [j \in DOMAIN batch |-> Row(Head(todo), batch[j])]
             marked == IF Head(todo) \in DOMAIN s_state
                         THEN [s_state EXCEPT ![Head(todo)] = batch[Len(batch)]]
                         ELSE s_state
  <1>1. PICK err \in Results :
           /\ Write(s_log_path, rows, TRUE, err)
           /\ s_state' = IF err = "ESP_OK" /\ Head(todo) \in DOMAIN s_state
                           THEN [s_state EXCEPT ![Head(todo)] = batch[Len(batch)]]
                           ELSE s_state
    BY DEF WriteBatch, BatchRows
  <1>2. Len(batch) \in Nat /\ DOMAIN batch = 1 .. Len(batch) /\ faults \in Nat
    BY DEF Typed, TaskOK, CardOK
  <1>3. rows \in Seq(RowType) /\ Len(rows) = Len(batch)
        /\ \A k \in 0 .. Len(batch) : SubSeq(rows, 1, k) = Added(k)
    <2>1. pc = "write"
      BY DEF WriteBatch
    <2>2. rows = Added(Len(batch))
      BY <1>2 DEF Added
    <2>3. rows \in Seq(RowType) /\ Len(rows) = Len(batch)
      BY <1>2, <2>1, <2>2, AddedIs
    <2>4. \A k \in 0 .. Len(batch) : SubSeq(rows, 1, k) = [j \in 1 .. k |-> rows[j]]
      BY <1>2, <2>3
    <2> QED
      BY <1>2, <2>3, <2>4 DEF Added
  <1>4. pc = "write" /\ pc' = "flush" /\ todo # << >> /\ todo' = Tail(todo)
    BY DEF WriteBatch, Typed, TaskOK
  <1> HIDE DEF rows
  <1>5. CASE UNCHANGED files /\ err = "ESP_FAIL"
    <2>1. s_state' = s_state
      BY <1>1, <1>5
    <2>2. faults' \in {faults, faults + 1}
      BY <1>1 DEF Write, card, NoFault, Fault
    <2> QED
      BY <1>4, <1>5, <2>1, <2>2
  <1>6. ASSUME NEW k \in 0 .. Len(rows), Addressable(s_log_path),
               files' = CardWith(s_log_path, Rows(s_log_path) \o SubSeq(rows, 1, k)),
               \/ err = "ESP_OK" /\ (k = Len(rows) \/ "close" \in Faults)
               \/ err = "ESP_FAIL" /\ "short" \in Faults,
               faults' \in {faults, faults + 1}
        PROVE  \E i \in 0 .. Len(batch) :
                   /\ Extends(s_log_path, Added(i))
                   /\ \/ (i = Len(batch) \/ "close" \in Faults) /\ s_state' = marked
                      \/ s_state' = s_state /\ "short" \in Faults
    <2>1. Extends(s_log_path, Added(k))
      BY <1>3, <1>6 DEF Extends
    <2> QED
      BY <1>1, <1>3, <1>6, <2>1
  <1>7. \/ UNCHANGED files /\ err = "ESP_FAIL"
        \/ /\ Addressable(s_log_path) /\ faults' \in {faults, faults + 1}
           /\ \E k \in 0 .. Len(rows) :
                /\ files' = CardWith(s_log_path, Rows(s_log_path) \o SubSeq(rows, 1, k))
                /\ \/ err = "ESP_OK" /\ (k = Len(rows) \/ "close" \in Faults)
                   \/ err = "ESP_FAIL" /\ "short" \in Faults
    <2>1. Len(rows) \in 0 .. Len(rows) /\ \A k \in 0 .. Len(rows) - 1 : k \in 0 .. Len(rows)
      BY <1>2, <1>3
    <2> QED
      BY <1>1, <2>1 DEF Write, NoFault, Fault, card
  <1> QED
    BY <1>4, <1>5, <1>6, <1>7

\* A file written anew with the header row.
LEMMA HeaderEffect ==
    ASSUME CardOK, NEW p \in LogPaths, NEW err \in Results,
           Write(p, <<Header>>, FALSE, err)
    PROVE  /\ CardOK'
           /\ faults' \in {faults, faults + 1}
           /\ \/ /\ UNCHANGED files /\ err = "ESP_FAIL"
                 /\ ~Addressable(p) \/ "create" \in Faults
              \/ Addressable(p) /\ files' = CardWith(p, <<Header>>) /\ err = "ESP_OK"
              \/ /\ Addressable(p) /\ files' = CardWith(p, << >>)
                 /\ \/ err = "ESP_FAIL" /\ "short" \in Faults
                    \/ err = "ESP_OK" /\ "close" \in Faults
  <1>1. faults' \in {faults, faults + 1} /\ faults' \in Nat
    BY DEF Write, NoFault, Fault, CardOK, card
  <1>2. Header \in RowType
    BY DEF Header, Row, RowType
  <1>3. ASSUME NEW h \in RowType
        PROVE  /\ <<h>> \in Seq(RowType) /\ << >> \in Seq(RowType)
               /\ Len(<<h>>) = 1
               /\ << >> \o SubSeq(<<h>>, 1, 1) = <<h>>
               /\ << >> \o SubSeq(<<h>>, 1, 0) = << >>
    <2>1. /\ <<h>> \in Seq(RowType) /\ Len(<<h>>) = 1 /\ << >> \in Seq(RowType)
      OBVIOUS
    <2> DEFINE s == <<h>>
    <2>2. /\ s \in Seq(RowType) /\ Len(s) = 1
          /\ s = [j \in 1 .. 1 |-> s[j]] /\ << >> = [j \in 1 .. 0 |-> s[j]]
      OBVIOUS
    <2> HIDE DEF s
    <2>3. /\ SubSeq(s, 1, 1) = [j \in 1 .. 1 |-> s[j]]
          /\ SubSeq(s, 1, 0) = [j \in 1 .. 0 |-> s[j]]
      BY <2>2
    <2>4. SubSeq(s, 1, 1) = s /\ SubSeq(s, 1, 0) = << >>
      BY <2>2, <2>3, Zenon
    <2>5. << >> \o s = s
      BY <2>2
    <2> QED
      BY <2>1, <2>4, <2>5 DEF s
  <1>4. \A k \in 0 .. Len(<<Header>>) - 1 : k = 0
    BY <1>2, <1>3
  <1>5. \/ /\ UNCHANGED files /\ err = "ESP_FAIL"
           /\ ~Addressable(p) \/ "create" \in Faults
        \/ Addressable(p) /\ files' = CardWith(p, <<Header>>) /\ err = "ESP_OK"
        \/ /\ Addressable(p) /\ files' = CardWith(p, << >>)
           /\ \/ err = "ESP_FAIL" /\ "short" \in Faults
              \/ err = "ESP_OK" /\ "close" \in Faults
    BY <1>2, <1>3, <1>4 DEF Write, NoFault, Fault, card
  <1>6. CardOK'
    <2>1. CASE UNCHANGED files
      BY <2>1, <1>1, CardSame
    <2>2. ASSUME NEW rows \in Seq(RowType), files' = CardWith(p, rows) PROVE CardOK'
      BY <1>1, <2>2, WithRows
    <2>3. <<Header>> \in Seq(RowType) /\ << >> \in Seq(RowType)
      BY <1>2, <1>3
    <2> QED
      BY <1>5, <2>1, <2>2, <2>3
  <1> QED
    BY <1>1, <1>5, <1>6

\* The card after the file old took the place of new.
Moved(old, new) == [q \in (DOMAIN files \ {old}) \cup {new} |->
                       IF q = new THEN files[old] ELSE files[q]]

\* The rename of the log to the backup.
LEMMA RenameEffect ==
    ASSUME CardOK, NEW old \in LogPaths, NEW new \in LogPaths, NEW err, Rename(old, new, err)
    PROVE  /\ CardOK'
           /\ \/ UNCHANGED card /\ err = "ESP_FAIL" /\ (~Addressable(old) \/ ~Addressable(new))
              \/ /\ Addressable(old) /\ Addressable(new) /\ old \in DOMAIN files
                 /\ files' = Moved(old, new) /\ err = "ESP_OK" /\ faults' = faults
              \/ /\ Addressable(old) /\ Addressable(new)
                 /\ files' \in {files, CardWithout(new)} /\ err = "ESP_FAIL"
                 /\ faults' = faults => old \notin DOMAIN files
                 /\ faults' \in {faults, faults + 1}
  <1>1. faults \in Nat
    BY DEF CardOK
  <1>2. \/ UNCHANGED card /\ err = "ESP_FAIL" /\ (~Addressable(old) \/ ~Addressable(new))
        \/ /\ Addressable(old) /\ Addressable(new) /\ old \in DOMAIN files
           /\ files' = Moved(old, new) /\ err = "ESP_OK" /\ faults' = faults
        \/ /\ Addressable(old) /\ Addressable(new)
           /\ files' \in {files, CardWithout(new)} /\ err = "ESP_FAIL"
           /\ faults' = faults => old \notin DOMAIN files
           /\ faults' \in {faults, faults + 1}
    BY <1>1 DEF Rename, Moved, Fault, NoFault, card
  <1>3. ASSUME UNCHANGED card PROVE CardOK'
    BY <1>1, <1>3, CardSame DEF card
  <1>4. ASSUME old \in DOMAIN files, files' = Moved(old, new), faults' = faults
        PROVE  CardOK'
    <2>1. files' \in [DOMAIN files' -> Seq(RowType)]
      BY <1>4 DEF Moved, CardOK
    <2>2. DOMAIN files' \subseteq LogPaths
      BY <1>4 DEF Moved, CardOK
    <2> QED
      BY <2>1, <2>2, <1>1, <1>4 DEF CardOK
  <1>5. ASSUME files' = CardWithout(new), faults' \in Nat PROVE CardOK'
    BY <1>5, WithoutRows
  <1>6. ASSUME UNCHANGED files, faults' \in Nat PROVE CardOK'
    BY <1>6, CardSame
  <1> QED
    BY <1>1, <1>2, <1>3, <1>4, <1>5, <1>6

LEMMA CardPart == Typed /\ [Next]_vars => CardOK'
  <1> SUFFICES ASSUME Typed, [Next]_vars PROVE CardOK'
    OBVIOUS
  <1>1. CardOK /\ s_log_path \in LogPaths /\ s_backup_path \in LogPaths /\ faults \in Nat
    BY DEF Typed, CardOK, CallsOK, MainPaths
  <1>2. CASE WriteBatch
    <2>1. CASE UNCHANGED files
      <3>1. faults' \in Nat
        BY <1>1, <1>2, WriteEffect
      <3> QED
        BY <1>1, <2>1, <3>1, CardSame
    <2>2. CASE \E k \in 0 .. Len(batch) : Extends(s_log_path, Added(k))
      <3>1. PICK k \in 0 .. Len(batch) : Extends(s_log_path, Added(k))
        BY <2>2
      <3>2. Rows(s_log_path) \o Added(k) \in Seq(RowType) /\ faults' \in Nat
        BY <1>1, <1>2, AddedIs, WriteEffect
      <3> QED
        BY <1>1, <3>1, <3>2, WithRows DEF Extends
    <2> QED
      BY <1>2, <2>1, <2>2, WriteEffect
  <1>3. CASE RotateRename
    BY <1>1, <1>3, RenameEffect DEF RotateRename
  <1>4. CASE RotateHeader \/ \E c \in Callers : StartHeader(c)
    BY <1>1, <1>4, HeaderEffect DEF RotateHeader, StartHeader
  <1>5. ASSUME NEW c \in Callers, DeleteErase(c) PROVE CardOK'
    <2>1. faults' \in Nat /\ (files' = files \/ files' = CardWithout(call[c].path))
      BY <1>1, <1>5 DEF DeleteErase, Erase, Fault, NoFault, card
    <2> QED
      BY <1>1, <2>1, CardSame, WithoutRows
  <1>6. ASSUME NEW c \in Callers, ClearFormat(c) PROVE CardOK'
    <2>1. faults' \in Nat /\ (files' = << >> \/ files' = files)
      BY <1>1, <1>6 DEF ClearFormat, Format, Fault, NoFault
    <2> QED
      BY <1>1, <2>1, CardSame
  <1>7. CASE PowerLoss
    <2>1. faults' \in Nat
      BY <1>1, <1>7 DEF PowerLoss
    <2>2. CASE UNCHANGED files
      BY <1>1, <2>1, <2>2, CardSame
    <2>3. ASSUME NEW k \in 0 .. Len(batch), pc = "write", Extends(s_log_path, Added(k))
          PROVE  CardOK'
      <3>1. Rows(s_log_path) \o Added(k) \in Seq(RowType)
        BY <2>3, AddedIs
      <3> QED
        BY <1>1, <2>1, <2>3, <3>1, WithRows DEF Extends
    <2>4. CASE files' = CardWithout(s_backup_path)
      BY <1>1, <2>1, <2>4, WithoutRows
    <2>5. CASE files' = CardWith(s_log_path, << >>)
      <3>1. << >> \in Seq(RowType)
        OBVIOUS
      <3> QED
        BY <1>1, <2>1, <2>5, <3>1, WithRows
    <2> QED
      BY <1>7, <2>2, <2>3, <2>4, <2>5 DEF PowerLoss, Interrupted, Extends, Added
  <1>8. CASE UNCHANGED card
    BY <1>1, <1>8, CardSame DEF card
  <1> QED
    BY <1>2, <1>3, <1>4, <1>5, <1>6, <1>7, <1>8, CardFrame DEF ChangesCard

LEMMA TaskPart == Typed /\ [Next]_vars => TaskOK'
  <1> SUFFICES ASSUME Typed, [Next]_vars PROVE TaskOK'
    OBVIOUS
  <1>1. now \in Nat /\ now' \in Nat /\ now <= now'
    BY Later DEF Typed
  <1>2. TaskOK /\ batch \in Seq(1 .. now')
    <2>1. TaskOK /\ batch \in Seq(1 .. now)
      BY DEF Typed, TaskOK
    <2> QED
      BY <1>1, <2>1
  <1>3. CASE LoggerInit \/ FlushNew \/ RotateCheck \/ RotateRename \/ RotateHeader
    BY <1>2, <1>3 DEF TaskOK, LoggerInit, FlushNew, RotateCheck, RotateRename, RotateHeader
  <1>4. CASE Wake
    <2> DEFINE l == ListChannels(MaxChannels)
    <2>1. l \in Seq([name : Names, latest : 0 .. MaxTime])
      BY Listing DEF Lists, Typed, HubOK
    <2> HIDE DEF l
    <2>2. [j \in DOMAIN l |-> l[j].name] \in Seq(Names)
      <3>1. DOMAIN l = 1 .. Len(l) /\ Len(l) \in Nat
            /\ \A j \in 1 .. Len(l) : l[j].name \in Names
        <4> HIDE DEF l
        <4>1. \A j \in DOMAIN l : l[j] \in [name : Names, latest : 0 .. MaxTime]
          BY <2>1, SeqElement
        <4> QED
          BY <2>1, <4>1
      <3> QED
        BY <3>1
    <2> QED
      BY <1>2, <1>4, <2>2 DEF TaskOK, Wake, l
  <1>5. CASE FlushKnown \/ AddState
    <2>1. todo # << >> /\ now' = now
      BY <1>5 DEF FlushKnown, AddState, Typed, TaskOK
    <2> QED
      BY <1>2, <1>5, <2>1, Gathers DEF TaskOK
  <1>6. CASE WriteBatch
    <2>1. Tail(todo) \in Seq(Names) /\ << >> \in Seq(1 .. now')
      BY <1>2, <1>6, AtHead DEF TaskOK, WriteBatch
    <2> QED
      BY <1>6, <2>1 DEF TaskOK, WriteBatch
  <1>7. CASE PowerLoss
    <2>1. << >> \in Seq(1 .. now') /\ << >> \in Seq(Names)
      OBVIOUS
    <2> QED
      BY <1>7, <2>1 DEF TaskOK, PowerLoss
  <1>8. CASE UNCHANGED taskVars
    BY <1>2, <1>8 DEF TaskOK, taskVars
  <1> QED
    BY <1>3, <1>4, <1>5, <1>6, <1>7, <1>8, TaskFrame DEF LoggerTask

-----------------------------------------------------------------------------
(* The callers *)

Ats == {"idle", "copy", "backup", "exists", "header", "erase", "format"}

LEMMA BackupIs ==
    ASSUME NEW name, NEW gen \in Int, NEW len \in Int
    PROVE  Backup([name |-> name, gen |-> gen, len |-> len]) =
               [name |-> name, gen |-> gen + 1, len |-> len + 2]
  <1> DEFINE p == [name |-> name, gen |-> gen, len |-> len]
  <1>1. Backup(p) = [[p EXCEPT !.gen = p.gen + 1] EXCEPT !.len = p.len + 2]
    BY DEF Backup
  <1>2. [p EXCEPT !.gen = p.gen + 1] = [name |-> name, gen |-> gen + 1, len |-> len]
    OBVIOUS
  <1> QED
    BY <1>1, <1>2

LEMMA PathsType ==
    /\ NoPath \in LogPaths /\ NoPath \in MainPaths
    /\ \A n \in LogNames \cup {DefaultName, TornName} :
           PathOf(n).len < LogPathLen => PathOf(n) \in MainPaths \ {NoPath}
    /\ PathOf(DefaultName).len < LogPathLen /\ PathOf(TornName).len < LogPathLen
    /\ \A p \in MainPaths : p \in LogPaths /\ Backup(p) # p
    /\ \A p \in MainPaths \ {NoPath} : Backup(p) \in LogPaths
  <1> USE LoggerAssumption DEF LoggerAssumption, LogPathLen
  <1>1. NoPath \in LogPaths /\ NoPath \in MainPaths
    BY DEF NoPath, LogPaths, MainPaths
  <1>2. ASSUME NEW n \in LogNames \cup {DefaultName, TornName}, NameLen[n] < LogPathLen
        PROVE  PathOf(n) \in MainPaths \ {NoPath}
    BY <1>2 DEF PathOf, LogPaths, MainPaths, NoPath
  <1>3. NameLen[DefaultName] < LogPathLen
    OBVIOUS
  <1>4. ASSUME NEW p \in MainPaths
        PROVE  /\ p \in LogPaths /\ Backup(p) # p
               /\ p # NoPath => Backup(p) \in LogPaths
    <2>1. /\ p = [name |-> p.name, gen |-> 0, len |-> p.len]
          /\ p.name \in LogNames \cup {DefaultName, TornName, NoName}
          /\ p.len \in 0 .. 63 /\ (p.name = NoName <=> p.len = 0)
      BY DEF MainPaths, LogPaths
    <2>2. Backup(p) = [name |-> p.name, gen |-> 1, len |-> p.len + 2]
      <3>1. Backup([name |-> p.name, gen |-> 0, len |-> p.len]) =
                [name |-> p.name, gen |-> 0 + 1, len |-> p.len + 2]
        BY <2>1, BackupIs
      <3> QED
        BY <2>1, <3>1
    <2>3. p # NoPath => p.len # 0
      BY <2>1 DEF NoPath
    <2>4. p # NoPath => Backup(p) \in LogPaths
      BY <2>1, <2>2, <2>3 DEF LogPaths
    <2>5. Backup(p) # p
      BY <2>1, <2>2
    <2> QED
      BY <2>4, <2>5 DEF MainPaths
  <1> QED
    BY <1>1, <1>2, <1>3, <1>4 DEF PathOf

\* A caller moves: to another point of its call, with a path of the right kind.
LEMMA CallMoves ==
    ASSUME CallsOK, NEW c \in Callers, NEW at \in Ats, NEW path \in LogPaths,
           call' = [call EXCEPT ![c] = [at |-> at, path |-> path]],
           s_log_path' \in MainPaths, s_backup_path' \in LogPaths,
           s_log_path' # NoPath \/ s_log_path' = s_log_path,
           at \in {"copy", "backup"} => path \in MainPaths \ {NoPath} /\ s_log_path' # NoPath,
           at = "idle" => path = NoPath
    PROVE  CallsOK'
  BY DEF CallsOK, Ats, Idle

LEMMA CallsPart == Typed /\ [Next]_vars => CallsOK'
  <1> SUFFICES ASSUME Typed, [Next]_vars PROVE CallsOK'
    OBVIOUS
  <1> USE PathsType
  <1>0. CallsOK /\ s_log_path \in MainPaths /\ s_backup_path \in LogPaths
        /\ Idle = [at |-> "idle", path |-> NoPath]
    BY DEF Typed, CallsOK, Idle
  <1>1. CASE LoggerInit
    <2>1. s_log_path' \in MainPaths \ {NoPath} /\ s_backup_path' \in LogPaths
      BY <1>1 DEF LoggerInit
    <2> QED
      BY <1>0, <1>1, <2>1 DEF LoggerInit, CallsOK
  <1>2. ASSUME NEW c \in Callers, StartResume(c) \/ Stop(c) \/ ClearStop(c)
        PROVE  CallsOK'
    BY <1>0, <1>2, CallMoves DEF StartResume, Stop, ClearStop, Goes, logVars, Ats, CallsOK
  <1>3. ASSUME NEW c \in Callers, NEW n \in LogNames, StartSwitch(c, n)
        PROVE  CallsOK'
    <2>1. CASE PathOf(n).len >= LogPathLen
      BY <1>0, <1>3, <2>1 DEF StartSwitch, CallsOK
    <2>2. CASE ~(PathOf(n).len >= LogPathLen)
      <3>1. PathOf(n) \in MainPaths \ {NoPath}
        BY <2>2, LoggerAssumption DEF LoggerAssumption, PathOf, LogPathLen
      <3>2. PathOf(TornName) \in MainPaths \ {NoPath}
        OBVIOUS
      <3>3. /\ call' = [call EXCEPT ![c] = [at |-> "copy", path |-> PathOf(n)]]
            /\ s_log_path' = PathOf(TornName) /\ s_backup_path' = s_backup_path
        BY <1>3, <2>2 DEF StartSwitch, Goes
      <3> QED
        BY <1>0, <3>1, <3>2, <3>3, CallMoves DEF Ats
    <2> QED
      BY <2>1, <2>2
  <1>4. ASSUME NEW c \in Callers, StartCopy(c) \/ StartBackup(c)
        PROVE  CallsOK'
    <2>1. call[c].path \in MainPaths \ {NoPath} /\ s_log_path # NoPath
      BY <1>0, <1>4 DEF StartCopy, StartBackup, CallsOK
    <2>2. CASE StartCopy(c)
      BY <1>0, <2>1, <2>2, CallMoves DEF StartCopy, Goes, Ats
    <2>3. CASE StartBackup(c)
      <3>1. s_log_path' = s_log_path /\ s_backup_path' \in LogPaths
        BY <1>0, <2>1, <2>3 DEF StartBackup
      <3>2. \/ call' = [call EXCEPT ![c] = [at |-> "exists", path |-> call[c].path]]
            \/ call' = [call EXCEPT ![c] = [at |-> "idle", path |-> NoPath]]
        BY <1>0, <2>3 DEF StartBackup, Goes, Returns
      <3> QED
        BY <1>0, <2>1, <3>1, <3>2, CallMoves DEF Ats
    <2> QED
      BY <1>4, <2>2, <2>3
  <1>5. ASSUME NEW c \in Callers, StartExists(c) \/ StartHeader(c)
        PROVE  CallsOK'
    <2>1. call[c].path \in LogPaths
      BY <1>0, <1>5 DEF CallsOK
    <2>2. UNCHANGED <<s_log_path, s_backup_path>>
      BY <1>5 DEF StartExists, StartHeader
    <2>3. \/ call' = [call EXCEPT ![c] = [at |-> "header", path |-> call[c].path]]
          \/ call' = [call EXCEPT ![c] = [at |-> "idle", path |-> NoPath]]
      BY <1>0, <1>5 DEF StartExists, StartHeader, Goes, Returns
    <2> QED
      BY <1>0, <2>1, <2>2, <2>3, CallMoves DEF Ats
  <1>6. ASSUME NEW c \in Callers, DeleteErase(c) \/ ClearFormat(c)
        PROVE  CallsOK'
    BY <1>0, <1>6, CallMoves DEF DeleteErase, ClearFormat, Returns, Ats, logVars
  <1>7. ASSUME NEW c \in Callers, DeleteCheck(c)
        PROVE  CallsOK'
    <2>1. PICK p \in DOMAIN files : Goes(c, "erase", p)
      BY <1>7 DEF DeleteCheck
    <2>2. p \in LogPaths
      BY DEF Typed, CardOK
    <2> QED
      BY <1>0, <1>7, <2>1, <2>2, CallMoves DEF DeleteCheck, Goes, Ats, logVars
  <1>8. CASE PowerLoss
    BY <1>0, <1>8 DEF PowerLoss, CallsOK, Idle
  <1>9. CASE UNCHANGED <<call, s_log_path, s_backup_path>>
    BY <1>0, <1>9 DEF CallsOK
  <1> QED
    BY <1>1, <1>2, <1>3, <1>4, <1>5, <1>6, <1>7, <1>8, <1>9, CallFrame DEF Call, Continue

\* What a state of the program looks like, whatever the tasks interleave.
LEMMA TypedStep == Typed /\ [Next]_vars => Typed'
  BY HubPart, CardPart, MarksPart, TaskPart, CallsPart, FlagsStep DEF Typed

LEMMA TypedInit == Init => Typed
  <1> SUFFICES ASSUME Init PROVE Typed
    OBVIOUS
  <1>1. HubOK /\ now = 0
    BY HubAtInit DEF Init
  <1>2. CardOK
    <2>1. DOMAIN files = {} /\ files \in [{} -> Seq(RowType)] /\ faults = 0
      BY DEF Init
    <2> QED
      BY <2>1 DEF CardOK
  <1>3. MarksOK
    BY <1>1, NoMarks DEF Init, MarksOK
  <1>4. TaskOK
    <2>1. << >> \in Seq(Names) /\ << >> \in Seq(1 .. now)
      OBVIOUS
    <2> QED
      BY <2>1 DEF Init, TaskOK
  <1>5. CallsOK
    BY PathsType DEF Init, CallsOK, Idle
  <1>6. FlagsOK
    BY DEF Init, FlagsOK
  <1> QED
    BY <1>1, <1>2, <1>3, <1>4, <1>5, <1>6 DEF Typed

LEMMA TypedAlways == Spec => []Typed
  BY TypedInit, TypedStep, PTL DEF Spec

\* Every variable of the logger and its callers has its type, and every path is
\* one the buffers hold, whatever the interleaving and the faults (logger.c).
THEOREM LoggerTyped == Spec => []LoggerTypeOK
  <1>1. Typed => LoggerTypeOK
    <2> SUFFICES ASSUME Typed PROVE LoggerTypeOK
      OBVIOUS
    <2>1. RowSet(todo) \subseteq Names
      <3>1. todo \in Seq(Names)
        BY DEF Typed, TaskOK
      <3> QED
        BY <3>1, SeqElement DEF RowSet
    <2>2. DOMAIN s_state \subseteq Names /\ \A n \in DOMAIN s_state : s_state[n] \in 0 .. now
      BY MarkIs DEF Typed, MarksOK
    <2> QED
      BY <2>1, <2>2 DEF Typed, LoggerTypeOK, HubOK, CardOK, TaskOK, CallsOK, FlagsOK, LogPaths,
                        MainPaths
  <1> QED
    BY <1>1, TypedAlways, PTL

-----------------------------------------------------------------------------
(* The bookmarks *)

\* What is in a ring after a step was there before, or is later than all that was.
LEMMA RingsGrow ==
    ASSUME HubOK, [Next]_vars, NEW n \in Names, NEW t \in Rings'[n]
    PROVE  t \in Nat /\ t > 0 /\ (t \in Rings[n] \/ t > now)
  <1>0. HubOK'
    BY HubPart
  <1>1. t \in Nat /\ t > 0 /\ now \in Nat
    <2>1. (now \in Nat /\ Rings \in [Names -> SUBSET (1 .. now)])'
      BY <1>0, RingsPast, PTL
    <2>2. t \in 1 .. now' /\ now' \in Nat /\ now \in Nat
      BY <2>1, Later
    <2> QED
      BY <2>2
  <1>2. CASE HubStep
    <2>1. now' = now + 1 /\ Rings'[n] \subseteq Rings[n] \cup {now'}
      BY <1>2, HubStepRings DEF HubStep
    <2> QED
      BY <1>1, <2>1
  <1>3. CASE PowerLoss
    BY <1>3, HubRestart DEF PowerLoss
  <1>4. CASE UNCHANGED <<channels, now>>
    BY <1>1, <1>4, HubSame
  <1> QED
    BY <1>2, <1>3, <1>4, HubFrame

LEMMA StoredGrows ==
    ASSUME [Next]_vars
    PROVE  stored \subseteq stored'
  BY DEF Next, vars, LoggerInit, LoggerTask, Wake, FlushKnown, FlushNew, AddState, WriteBatch,
         RotateCheck, RotateRename, RotateHeader, Call, Continue, Begin, StartResume,
         StartSwitch, StartCopy, StartBackup, StartExists, StartHeader, Stop, DeleteCheck,
         ClearStop, DeleteErase, ClearFormat, ClockSet, HubStep, PowerLoss

\* What lies at or below a mark in a ring is in a set of rows.
Below(marks, rows) ==
    \A n \in DOMAIN marks : \A t \in Rings[n] : t <= marks[n] => Row(n, t) \in rows

\* ... and it is what the batch holds, when the batch is written.
BatchBelow(rows) ==
    \A t \in Rings[Head(todo)] :
        t <= batch[Len(batch)] => t \in RowSet(batch) \/ Row(Head(todo), t) \in rows

LEMMA BelowKept ==
    ASSUME HubOK, [Next]_vars, NEW marks \in Marks, NEW rows, Below(marks, rows),
           NEW more, rows \subseteq more
    PROVE  \A n \in DOMAIN marks : \A t \in Rings'[n] : t <= marks[n] => Row(n, t) \in more
  <1> SUFFICES ASSUME NEW n \in DOMAIN marks, NEW t \in Rings'[n], t <= marks[n]
               PROVE  Row(n, t) \in more
    OBVIOUS
  <1>1. n \in Names /\ marks[n] \in 0 .. now /\ now \in Nat
    BY MarkIs, RingsPast
  <1>2. t \in Nat /\ (t \in Rings[n] \/ t > now)
    BY <1>1, RingsGrow
  <1>3. t \in Rings[n]
    BY <1>1, <1>2
  <1> QED
    BY <1>3 DEF Below

\* The last sample of a batch is the latest.
LEMMA LastOfBatch ==
    ASSUME HubOK, TaskOK, pc = "write"
    PROVE  /\ batch[Len(batch)] \in 1 .. now
           /\ batch[Len(batch)] \in RowSet(batch)
           /\ \A t \in RowSet(batch) : t \in 1 .. now /\ t <= batch[Len(batch)]
  <1>1. /\ batch \in Seq(1 .. now) /\ batch # << >> /\ Increasing(batch)
        /\ now \in Nat
    BY RingsPast DEF TaskOK
  <1>2. /\ Len(batch) \in Nat /\ Len(batch) \in 1 .. Len(batch) /\ DOMAIN batch = 1 .. Len(batch)
        /\ \A j \in 1 .. Len(batch) : batch[j] \in 1 .. now
    BY <1>1
  <1>3. \A j \in DOMAIN batch : batch[j] <= batch[Len(batch)]
    BY <1>1, <1>2 DEF Increasing
  <1> QED
    BY <1>2, <1>3 DEF RowSet

\* The table that find_or_add_state leaves covers no more than the one it read.
LEMMA GatheredMark ==
    ASSUME Typed, FlushKnown \/ AddState, NEW rows,
           FlushKnown => Below(s_state, rows), AddState => Below(found, rows)
    PROVE  Below(s_state', rows)
  <1>0. HubOK /\ now \in Nat
    BY RingsPast DEF Typed
  <1>1. CASE FlushKnown
    BY <1>1 DEF FlushKnown, logVars
  <1>2. CASE AddState
    <2>0. s_state' = [n \in DOMAIN found \cup {Head(todo)} |->
                                   IF n = Head(todo) THEN 0 ELSE found[n]]
      BY <1>2 DEF AddState
    <2> SUFFICES ASSUME NEW n \in DOMAIN s_state', NEW t \in Rings[n], t <= s_state'[n]
                 PROVE  Row(n, t) \in rows
      BY DEF Below
    <2>1. CASE n = Head(todo)
      <3>1. n \in Names
        BY <2>1, Gathers
      <3>2. t \in 1 .. now
        BY <1>0, <3>1, RingsPast
      <3> QED
        BY <1>0, <2>0, <2>1, <3>2
    <2>2. CASE n # Head(todo)
      BY <1>2, <2>0, <2>2 DEF Below
    <2> QED
      BY <2>1, <2>2
  <1> QED
    BY <1>1, <1>2

\* After the gathering the batch holds what the mark it left does not cover.
LEMMA GatheredBelow ==
    ASSUME Typed, FlushKnown \/ AddState, pc' = "write", NEW rows, Below(s_state', rows)
    PROVE  \A t \in Rings[Head(todo)] : t \in RowSet(batch') \/ Row(Head(todo), t) \in rows
  <1> DEFINE n == Head(todo)
  <1>1. /\ n \in DOMAIN s_state' /\ s_state'[n] \in 0 .. now /\ n \in Names
        /\ RowSet(batch') = Fresh(n, s_state'[n])
    BY Gathers, MarkIs
  <1>2. now \in Nat /\ Rings[n] \subseteq 1 .. now
    BY <1>1, RingsPast DEF Typed
  <1> HIDE DEF n
  <1>3. ASSUME NEW t \in Rings[n] PROVE t \in RowSet(batch') \/ Row(n, t) \in rows
    BY <1>1, <1>2 DEF Fresh, Below
  <1> QED
    BY <1>3 DEF n

\* The write of the whole batch covers what the mark moves past.
LEMMA WrittenBelow ==
    ASSUME Typed, WriteBatch, Extends(s_log_path, Added(Len(batch))), NEW rows,
           BatchBelow(rows)
    PROVE  \A t \in Rings[Head(todo)] :
               t <= batch[Len(batch)] => Row(Head(todo), t) \in rows \cup RowSet(Rows(s_log_path)')
  <1>1. pc = "write" /\ s_log_path \in LogPaths /\ CardOK /\ faults' \in Nat
        /\ Len(batch) \in 0 .. Len(batch) /\ DOMAIN batch = 1 .. Len(batch)
    <2>1. faults \in Nat /\ batch \in Seq(1 .. now)
      BY DEF Typed, CardOK, TaskOK
    <2> QED
      BY <2>1, WriteEffect DEF Typed, CallsOK, MainPaths
  <1>2. Rows(s_log_path)' = Rows(s_log_path) \o Added(Len(batch))
    <2>1. Rows(s_log_path) \o Added(Len(batch)) \in Seq(RowType)
      BY <1>1, AddedIs
    <2>2. s_log_path' = s_log_path
      BY DEF WriteBatch
    <2> QED
      BY <1>1, <2>1, <2>2, WithRows DEF Extends, Rows
  <1>3. \A j \in DOMAIN batch : Row(Head(todo), batch[j]) \in RowSet(Rows(s_log_path)')
    BY <1>1, <1>2, AddedIs
  <1> QED
    BY <1>3 DEF BatchBelow, RowSet

\* What keeps the bookmarks backed: the table find_or_add_state works on and the
\* batch between the gathering and the write are, too.
Backed ==
    /\ Below(s_state, stored) /\ Below(found, stored)
    /\ pc = "write" => BatchBelow(stored)

LEMMA BackedStep ==
    ASSUME "close" \notin Faults
    PROVE  Typed /\ Backed /\ [Next]_vars => Backed'
  <1> SUFFICES ASSUME Typed, Backed, [Next]_vars PROVE Backed'
    OBVIOUS
  <1>0. /\ HubOK /\ s_state \in Marks /\ found \in Marks /\ now \in Nat
        /\ Below(s_state, stored) /\ Below(found, stored)
        /\ stored \subseteq stored' /\ \A n : ~(n \in DOMAIN NoBookmarks)
    BY StoredGrows, RingsPast DEF Typed, MarksOK, Backed, NoBookmarks
  <1>1. ASSUME NEW marks \in Marks, Below(marks, stored)
        PROVE  \A n \in DOMAIN marks : \A t \in Rings'[n] : t <= marks[n] => Row(n, t) \in stored'
    BY <1>0, <1>1, BelowKept
  <1>2. ASSUME s_state' \in {s_state, NoBookmarks} PROVE Below(s_state, stored)'
    BY <1>0, <1>1, <1>2 DEF Below
  <1>3. ASSUME found' \in {s_state, found, NoBookmarks} PROVE Below(found, stored)'
    BY <1>0, <1>1, <1>3 DEF Below
  <1>4. ASSUME UNCHANGED taskVars PROVE pc' = "write" => BatchBelow(stored)'
    <2> SUFFICES ASSUME pc = "write", NEW t \in Rings'[Head(todo)], t <= batch[Len(batch)]
                 PROVE  t \in RowSet(batch) \/ Row(Head(todo), t) \in stored'
      BY <1>4 DEF taskVars, BatchBelow, RowSet
    <2>1. Head(todo) \in Names
      BY AtHead DEF Typed, TaskOK
    <2>2. t \in Nat /\ (t \in Rings[Head(todo)] \/ t > now)
      BY <1>0, <2>1, RingsGrow
    <2>3. batch[Len(batch)] \in 1 .. now
      BY LastOfBatch DEF Typed
    <2>4. t \in Rings[Head(todo)]
      BY <1>0, <2>2, <2>3
    <2> QED
      BY <1>0, <2>4 DEF Backed, BatchBelow
  <1>5. CASE LoggerInit
    BY <1>2, <1>3, <1>5 DEF LoggerInit, Backed
  <1>6. CASE Wake \/ RotateCheck \/ RotateRename
    BY <1>2, <1>3, <1>6 DEF Wake, RotateCheck, RotateRename, Backed, logVars
  <1>7. CASE FlushNew
    BY <1>2, <1>3, <1>7 DEF FlushNew, Backed, logVars
  <1>8. CASE RotateHeader
    BY <1>2, <1>3, <1>8 DEF RotateHeader, Backed
  <1>9. CASE PowerLoss
    BY <1>2, <1>3, <1>9 DEF PowerLoss, Backed
  <1>10. CASE FlushKnown \/ AddState
    <2>1. UNCHANGED <<channels, now, stored>> /\ found' \in {found, NoBookmarks}
      BY <1>10, Gathers DEF FlushKnown, AddState
    <2>2. Rings' = Rings
      BY <2>1, HubSame
    <2>3. Below(s_state', stored)
      BY <1>0, <1>10, GatheredMark
    <2>4. pc' = "write" => BatchBelow(stored)'
      <3> SUFFICES ASSUME pc' = "write" PROVE BatchBelow(stored)'
        OBVIOUS
      <3>1. todo' = todo
        BY <1>10, Gathers
      <3>2. \A t \in Rings[Head(todo)] : t \in RowSet(batch') \/ Row(Head(todo), t) \in stored
        BY <1>10, <2>3, GatheredBelow
      <3> QED
        BY <2>1, <2>2, <3>1, <3>2 DEF BatchBelow, RowSet
    <2>5. Below(s_state, stored)'
      BY <2>1, <2>2, <2>3 DEF Below
    <2> QED
      BY <1>3, <2>1, <2>4, <2>5 DEF Backed
  <1>11. CASE WriteBatch
    <2>1. /\ pc = "write" /\ pc' = "flush" /\ found' = found /\ UNCHANGED <<channels, now>>
          /\ CardRows' \subseteq stored'
      BY <1>11 DEF WriteBatch
    <2>2. Rings' = Rings
      BY <2>1, HubSame
    <2>3. CASE s_state' = s_state
      BY <1>2, <1>3, <2>1, <2>3 DEF Backed
    <2>4. CASE /\ Extends(s_log_path, Added(Len(batch))) /\ Head(todo) \in DOMAIN s_state
               /\ s_state' = [s_state EXCEPT ![Head(todo)] = batch[Len(batch)]]
      <3>1. BatchBelow(stored)
        BY <2>1 DEF Backed
      <3>2. \A t \in Rings[Head(todo)] :
               t <= batch[Len(batch)] => Row(Head(todo), t) \in stored \cup RowSet(Rows(s_log_path)')
        BY <1>11, <2>4, <3>1, WrittenBelow
      <3>3. RowSet(Rows(s_log_path)') \subseteq stored'
        BY <2>1 DEF CardRows, Rows, RowSet
      <3>4. \A n \in DOMAIN s_state' : \A t \in Rings[n] :
               t <= s_state'[n] => Row(n, t) \in stored'
        BY <1>0, <2>4, <3>2, <3>3 DEF Below
      <3>5. Below(s_state, stored)'
        BY <2>2, <3>4 DEF Below
      <3> QED
        BY <1>3, <2>1, <3>5 DEF Backed
    <2>5. s_state' = s_state \/ (/\ Extends(s_log_path, Added(Len(batch)))
               /\ Head(todo) \in DOMAIN s_state
               /\ s_state' = [s_state EXCEPT ![Head(todo)] = batch[Len(batch)]])
      BY <1>11, WriteEffect
    <2> QED
      BY <2>3, <2>4, <2>5
  <1>12. ASSUME NEW c \in Callers, Call(c) \/ Continue(c) PROVE Backed'
    <2>1. UNCHANGED taskVars
      BY <1>12 DEF Call, Continue, Begin, StartResume, StartSwitch, StartCopy, StartBackup,
         StartExists, StartHeader, Stop, DeleteCheck, ClearStop, DeleteErase, ClearFormat
    <2>2. s_state' \in {s_state, NoBookmarks}
      BY <1>12 DEF logVars, Call, Continue, Begin, StartResume, StartSwitch, StartCopy,
         StartBackup, StartExists, StartHeader, Stop, DeleteCheck, ClearStop, DeleteErase,
         ClearFormat
    <2> QED
      BY <1>2, <1>3, <1>4, <2>1, <2>2 DEF Backed, taskVars
  <1>13. CASE HubStep \/ ClockSet \/ UNCHANGED vars
    BY <1>2, <1>3, <1>4, <1>13 DEF HubStep, ClockSet, vars, logVars, taskVars, Backed
  <1> QED
    BY <1>5, <1>6, <1>7, <1>8, <1>9, <1>10, <1>11, <1>12, <1>13 DEF Next, LoggerTask

\* A bookmark only moves past samples that have been on the card (the comment in
\* flush_channel), while the tasks interleave as they like and writes fail; it
\* needs that fclose loses nothing of what fwrite took.
THEOREM BookmarksBacked ==
    ASSUME "close" \notin Faults
    PROVE  Spec => []BookmarkBacked
  <1>1. Init => Backed
    BY DEF Init, Backed, Below, NoBookmarks
  <1>2. Typed /\ Backed /\ [Next]_vars => Backed'
    BY BackedStep
  <1>3. Typed /\ Backed => BookmarkBacked
    <2> SUFFICES ASSUME Typed, Backed, NEW n \in DOMAIN s_state,
                        NEW t \in RowSet(GetHistory(n, HistoryLen)), t <= s_state[n]
                 PROVE  Row(n, t) \in stored
      BY DEF BookmarkBacked
    <2>1. n \in Names
      BY MarkIs DEF Typed, MarksOK
    <2> QED
      BY <2>1 DEF Backed, Below, Rings
  <1> QED
    BY <1>1, <1>2, <1>3, TypedAlways, PTL DEF Spec

-----------------------------------------------------------------------------
(* Calls one by one, while the logger task sleeps *)

Busy(c) == call[c].at # "idle"

OneAtATime ==
    /\ \A c, d \in Callers : Busy(c) /\ Busy(d) => c = d
    /\ \A c \in Callers : Busy(c) => pc = "delay"

Switching == \E c \in Callers : call[c].at \in {"copy", "backup"}

\* What then holds between the steps of a call and of a cycle: the two paths
\* belong together, a header goes where no file is, and what is about to be
\* erased is not logged to.
Ordered ==
    /\ OneAtATime
    /\ \A c \in Callers : call[c].at = "backup" => s_log_path = call[c].path
    /\ pc # "boot" /\ ~Switching => s_backup_path = Backup(s_log_path)
    /\ pc = "header" => ~Exists(s_log_path)
    /\ \A c \in Callers : call[c].at = "header" => ~Exists(s_log_path)
    /\ \A c \in Callers : call[c].at = "erase" => ~(s_running /\ call[c].path = s_log_path)

\* Nobody else is under way when a caller moves.
LEMMA CallerAlone ==
    ASSUME ~Overlap, Typed, OneAtATime, NEW c \in Callers, Call(c) \/ Continue(c)
    PROVE  /\ pc = "delay" /\ UNCHANGED taskVars /\ UNCHANGED <<channels, now>>
           /\ \A d \in Callers : d # c => call[d] = Idle /\ call'[d] = Idle
  <1>1. call \in [Callers -> [at : Ats, path : LogPaths]]
        /\ \A d \in Callers : ~Busy(d) => call[d] = Idle
    BY DEF Typed, CallsOK, Ats, Busy
  <1>2. Idle.at = "idle"
    BY DEF Idle
  <1>3. CASE Call(c)
    <2>1. Quiet /\ UNCHANGED taskVars /\ UNCHANGED <<channels, now>>
      BY <1>3 DEF Call, StartResume, StartSwitch, Stop, DeleteCheck, ClearStop, Begin
    <2>2. call' = call \/ \E x : call' = [call EXCEPT ![c] = x]
      BY <1>3 DEF Call, StartResume, StartSwitch, Stop, DeleteCheck, ClearStop, Goes
    <2> QED
      BY <1>1, <2>1, <2>2 DEF Quiet, CallersIdle
  <1>4. CASE Continue(c)
    <2>1. Busy(c) /\ UNCHANGED taskVars /\ UNCHANGED <<channels, now>>
      BY <1>4 DEF Continue, StartCopy, StartBackup, StartExists, StartHeader, DeleteErase,
         ClearFormat, Busy
    <2>2. \E x : call' = [call EXCEPT ![c] = x]
      BY <1>4 DEF Continue, StartCopy, StartBackup, StartExists, StartHeader, DeleteErase,
         ClearFormat, Goes, Returns
    <2> QED
      BY <1>1, <2>1, <2>2 DEF OneAtATime
  <1> QED
    BY <1>3, <1>4

LEMMA TaskAlone ==
    ASSUME ~Overlap, Typed, OneAtATime, LoggerTask \/ LoggerInit
    PROVE  \A c \in Callers : call[c] = Idle /\ call'[c] = Idle /\ ~Busy(c)
  <1>1. Idle.at = "idle" /\ \A d \in Callers : ~Busy(d) => call[d] = Idle
    BY DEF Idle, Typed, CallsOK, Busy
  <1>2. CallersIdle \/ pc # "delay"
    BY DEF LoggerTask, LoggerInit, Wake, FlushKnown, FlushNew, AddState, WriteBatch,
           RotateCheck, RotateRename, RotateHeader
  <1>3. call' = call
    BY DEF LoggerTask, LoggerInit, Wake, FlushKnown, FlushNew, AddState, WriteBatch,
           RotateCheck, RotateRename, RotateHeader
  <1> QED
    BY <1>1, <1>2, <1>3 DEF OneAtATime, CallersIdle, Busy

LEMMA OrderedStep ==
    ASSUME ~Overlap
    PROVE  Typed /\ Ordered /\ [Next]_vars => Ordered'
  <1> SUFFICES ASSUME Typed, Ordered, [Next]_vars PROVE Ordered'
    OBVIOUS
  <1> USE DEF Ordered
  <1>0. /\ CardOK /\ s_log_path \in MainPaths /\ s_log_path \in LogPaths
        /\ s_backup_path \in LogPaths /\ Backup(s_log_path) # s_log_path
        /\ call \in [Callers -> [at : Ats, path : LogPaths]]
        /\ Idle.at = "idle" /\ Idle.path = NoPath
    BY PathsType DEF Typed, CallsOK, Ats, Idle
  <1>1. ASSUME \A c \in Callers : call'[c] = Idle,
               pc' # "boot" => s_backup_path' = Backup(s_log_path'),
               pc' = "header" => ~Exists(s_log_path)'
        PROVE  Ordered'
    BY <1>0, <1>1 DEF OneAtATime, Busy, Switching, Backup
  <1>2. CASE LoggerInit
    BY <1>1, <1>2, TaskAlone DEF LoggerInit
  <1>3. CASE Wake \/ FlushKnown \/ FlushNew \/ AddState \/ RotateCheck \/ WriteBatch \/ RotateHeader
    <2>1. pc # "boot" /\ pc' # "header" /\ UNCHANGED <<s_log_path, s_backup_path>>
      BY <1>3 DEF Wake, FlushKnown, FlushNew, AddState, RotateCheck, WriteBatch, RotateHeader,
                  Gather, logVars
    <2>2. \A c \in Callers : call[c] = Idle /\ call'[c] = Idle
      BY <1>3, TaskAlone DEF LoggerTask
    <2> QED
      BY <1>0, <1>1, <2>1, <2>2 DEF Switching
  <1>4. CASE RotateRename
    <2>1. pc = "rename" /\ UNCHANGED <<s_log_path, s_backup_path>>
      BY <1>4 DEF RotateRename, logVars
    <2>2. \A c \in Callers : call[c] = Idle /\ call'[c] = Idle
      BY <1>4, TaskAlone DEF LoggerTask
    <2>3. s_backup_path = Backup(s_log_path)
      BY <1>0, <2>1, <2>2 DEF Switching
    <2>4. pc' = "header" => files' = Moved(s_log_path, s_backup_path)
      BY <1>0, <1>4, RenameEffect DEF RotateRename
    <2>5. pc' = "header" => ~Exists(s_log_path)'
      BY <1>0, <2>1, <2>3, <2>4 DEF Moved, Exists
    <2> QED
      BY <1>1, <2>1, <2>2, <2>3, <2>5
  <1>5. ASSUME NEW c \in Callers, Call(c) \/ Continue(c),
               call'[c].at = "backup" => s_log_path' = call'[c].path,
               call'[c].at \notin {"copy", "backup"} => s_backup_path' = Backup(s_log_path'),
               call'[c].at = "header" => ~Exists(s_log_path)',
               call'[c].at = "erase" => ~(s_running' /\ call'[c].path = s_log_path')
        PROVE  Ordered'
    <2>1. pc' = "delay" /\ \A d \in Callers : d # c => call'[d] = Idle
      BY <1>5, CallerAlone DEF taskVars
    <2> QED
      BY <1>0, <1>5, <2>1 DEF OneAtATime, Busy, Switching
  <1>6. ASSUME NEW c \in Callers, Call(c) \/ Continue(c)
        PROVE  /\ \A d \in Callers : d # c => call[d].at = "idle"
               /\ call[c].at \notin {"copy", "backup"} => s_backup_path = Backup(s_log_path)
    <2>1. pc = "delay" /\ \A d \in Callers : d # c => call[d] = Idle
      BY <1>6, CallerAlone
    <2> QED
      BY <1>0, <2>1 DEF Switching
  <1>7. ASSUME NEW c \in Callers, StartResume(c) \/ Stop(c) \/ ClearStop(c) \/ DeleteCheck(c)
        PROVE  Ordered'
    <2>1. /\ Call(c) /\ call[c].at = "idle"
          /\ UNCHANGED <<s_log_path, s_backup_path>>
          /\ s_running' \in {s_running, FALSE}
      BY <1>0, <1>7 DEF Call, StartResume, Stop, ClearStop, DeleteCheck, Begin, logVars
    <2>2. \/ call'[c].at \in {"idle", "exists", "format"}
          \/ /\ call'[c].at = "erase" /\ s_running' = s_running
             /\ ~(s_running /\ call'[c].path = s_log_path)
      BY <1>0, <1>7 DEF StartResume, Stop, ClearStop, DeleteCheck, Begin, Goes, logVars
    <2> QED
      BY <1>5, <1>6, <2>1, <2>2
  <1>8. ASSUME NEW c \in Callers, NEW n \in LogNames, StartSwitch(c, n)
        PROVE  Ordered'
    <2>1. Call(c) /\ call[c].at = "idle" /\ s_backup_path' = s_backup_path
      BY <1>0, <1>8 DEF Call, StartSwitch, Begin
    <2>2. \/ call'[c].at = "copy"
          \/ call'[c].at = "idle" /\ s_log_path' = s_log_path
      BY <1>0, <1>8, <2>1 DEF StartSwitch, Goes
    <2> QED
      BY <1>5, <1>6, <2>1, <2>2
  <1>9. ASSUME NEW c \in Callers, StartCopy(c) PROVE Ordered'
    BY <1>0, <1>5, <1>9 DEF StartCopy, Goes, Continue
  <1>10. ASSUME NEW c \in Callers, StartBackup(c) PROVE Ordered'
    <2>1. call'[c].at \in {"idle", "exists"}
      BY <1>0, <1>10 DEF StartBackup, Goes, Returns
    <2>2. s_backup_path' = Backup(s_log_path') /\ Continue(c)
      BY <1>10 DEF StartBackup, Continue
    <2> QED
      BY <1>5, <2>1, <2>2
  <1>11. ASSUME NEW c \in Callers,
                StartExists(c) \/ StartHeader(c) \/ DeleteErase(c) \/ ClearFormat(c)
         PROVE  Ordered'
    <2>1. /\ Continue(c) /\ UNCHANGED <<s_log_path, s_backup_path>>
          /\ call[c].at \notin {"copy", "backup"}
      BY <1>11 DEF Continue, StartExists, StartHeader, DeleteErase, ClearFormat, logVars
    <2>2. \/ call'[c].at = "idle"
          \/ call'[c].at = "header" /\ ~Exists(s_log_path)'
      <3>1. CASE StartExists(c)
        <4>1. UNCHANGED files /\ UNCHANGED s_log_path
          BY <3>1 DEF StartExists, card
        <4>2. \/ call'[c].at = "idle"
              \/ call'[c].at = "header" /\ ~Exists(s_log_path)
          BY <1>0, <3>1 DEF StartExists, Goes, Returns
        <4> QED
          BY <4>1, <4>2 DEF Exists
      <3>2. CASE StartHeader(c) \/ DeleteErase(c) \/ ClearFormat(c)
        <4>1. call' = [call EXCEPT ![c] = Idle]
          BY <3>2 DEF StartHeader, DeleteErase, ClearFormat, Returns
        <4> QED
          BY <1>0, <4>1
      <3> QED
        BY <1>11, <3>1, <3>2
    <2> QED
      BY <1>5, <1>6, <2>1, <2>2
  <1>12. CASE PowerLoss
    BY <1>0, <1>1, <1>12 DEF PowerLoss
  <1>13. CASE HubStep \/ ClockSet \/ UNCHANGED vars
    BY <1>13 DEF HubStep, ClockSet, vars, card, logVars, taskVars, OneAtATime, Busy, Switching,
                 Exists
  <1> QED
    BY <1>2, <1>3, <1>4, <1>7, <1>8, <1>9, <1>10, <1>11, <1>12, <1>13
       DEF Next, LoggerTask, Call, Continue

LEMMA OrderedAlways ==
    ASSUME ~Overlap
    PROVE  Spec => [](Typed /\ Ordered)
  <1>1. Init => Ordered
    BY DEF Init, Ordered, OneAtATime, Busy, Switching, Idle
  <1>2. Typed /\ Ordered /\ [Next]_vars => Ordered'
    BY OrderedStep
  <1> QED
    BY <1>1, <1>2, TypedAlways, PTL DEF Spec

-----------------------------------------------------------------------------
(* No row is lost *)

\* The two ways a header is written find no file in their place.
LEMMA HeaderFindsNothing ==
    ASSUME Typed, s_log_path' = s_log_path, ~Exists(s_log_path), NEW err \in Results,
           Write(s_log_path, <<Header>>, FALSE, err)
    PROVE  /\ DOMAIN files \subseteq DOMAIN files'
           /\ \A p \in DOMAIN files : files'[p] = files[p]
           /\ Rows(s_log_path)' \in {Rows(s_log_path), << >>, <<Header>>}
  <1>1. CardOK /\ s_log_path \in LogPaths /\ faults' \in Nat
    <2>1. CardOK /\ s_log_path \in LogPaths
      BY PathsType DEF Typed, CallsOK
    <2> QED
      BY <2>1, HeaderEffect DEF CardOK
  <1>2. CASE UNCHANGED files
    BY <1>2 DEF Rows
  <1>3. ASSUME NEW rows \in {<< >>, <<Header>>}, Addressable(s_log_path),
               files' = CardWith(s_log_path, rows)
        PROVE  /\ DOMAIN files \subseteq DOMAIN files'
               /\ \A p \in DOMAIN files : files'[p] = files[p]
               /\ Rows(s_log_path)' \in {Rows(s_log_path), << >>, <<Header>>}
    <2>1. s_log_path \notin DOMAIN files
      BY <1>3 DEF Exists
    <2> QED
      BY <1>3, <2>1 DEF CardWith, Rows
  <1> QED
    BY <1>1, <1>2, <1>3, HeaderEffect

LEMMA StillThere ==
    ASSUME NEW p \in DOMAIN files', NEW r \in RowSet(files'[p])
    PROVE  r \in CardRows'
  BY DEF CardRows, RowSet

\* Whatever the logger writes or renames, a row stays on the card; only the rows
\* of the backup that a rotation replaces go (logger.c: flush_channel,
\* rotate_if_needed, logger_start; sd_storage.c: sd_storage_rename).
THEOREM LoggerKeepsRows ==
    ASSUME ~Overlap
    PROVE  Spec => NothingLost
  <1>1. ASSUME Typed, Ordered, LoggerTask \/ \E c \in Callers : StartHeader(c),
               NEW r \in CardRows
        PROVE  r \in CardRows' \/ r \in RowSet(Rows(s_backup_path))
    <2>0. CardOK /\ s_log_path \in LogPaths /\ s_backup_path \in LogPaths
      BY <1>1, PathsType DEF Typed, CallsOK
    <2>1. PICK p \in DOMAIN files : r \in RowSet(files[p])
      BY DEF CardRows
    <2>2. ASSUME p \in DOMAIN files', files'[p] = files[p] PROVE r \in CardRows'
      BY <2>1, <2>2, StillThere
    <2>3. CASE WriteBatch
      <3>1. CASE UNCHANGED files
        BY <2>2, <3>1
      <3>2. ASSUME NEW k \in 0 .. Len(batch), Extends(s_log_path, Added(k))
            PROVE  r \in CardRows'
        <4>1. Rows(s_log_path) \o Added(k) \in Seq(RowType) /\ faults' \in Nat
              /\ RowSet(Rows(s_log_path)) \subseteq RowSet(Rows(s_log_path) \o Added(k))
          BY <1>1, <2>0, <2>3, AddedIs, WriteEffect DEF CardOK
        <4>2. /\ DOMAIN files' = DOMAIN files \cup {s_log_path}
              /\ files'[s_log_path] = Rows(s_log_path) \o Added(k)
              /\ \A q \in DOMAIN files : q # s_log_path => files'[q] = files[q]
          BY <2>0, <3>2, <4>1, WithRows DEF Extends
        <4>3. p = s_log_path => r \in RowSet(files'[p])
          BY <2>1, <4>1, <4>2 DEF Rows
        <4> QED
          BY <2>2, <4>2, <4>3, StillThere
      <3> QED
        BY <1>1, <2>3, <3>1, <3>2, WriteEffect
    <2>4. CASE RotateRename
      <3>1. CASE UNCHANGED files
        BY <2>2, <3>1
      <3>2. CASE files' = CardWithout(s_backup_path)
        <4>1. p = s_backup_path => r \in RowSet(Rows(s_backup_path))
          BY <2>1 DEF Rows
        <4>2. p # s_backup_path => p \in DOMAIN files' /\ files'[p] = files[p]
          BY <3>2 DEF CardWithout
        <4> QED
          BY <2>2, <4>1, <4>2
      <3>3. CASE files' = Moved(s_log_path, s_backup_path)
        <4>1. CASE p = s_backup_path
          BY <2>1, <4>1 DEF Rows
        <4>2. CASE p = s_log_path
          <5>1. s_backup_path \in DOMAIN files' /\ files'[s_backup_path] = files[p]
            BY <3>3, <4>2 DEF Moved
          <5> QED
            BY <2>1, <5>1, StillThere
        <4>3. CASE p # s_backup_path /\ p # s_log_path
          <5>1. p \in DOMAIN files' /\ files'[p] = files[p]
            BY <3>3, <4>3 DEF Moved
          <5> QED
            BY <2>2, <5>1
        <4> QED
          BY <4>1, <4>2, <4>3
      <3> QED
        BY <2>0, <2>4, <3>1, <3>2, <3>3, RenameEffect DEF RotateRename, card
    <2>5. CASE RotateHeader
      BY <1>1, <2>2, <2>5, HeaderFindsNothing DEF RotateHeader, Ordered
    <2>6. ASSUME NEW c \in Callers, StartHeader(c) PROVE r \in CardRows'
      BY <1>1, <2>2, <2>6, HeaderFindsNothing DEF StartHeader, Ordered
    <2>7. CASE Wake \/ FlushKnown \/ FlushNew \/ AddState \/ RotateCheck
      <3>1. UNCHANGED files
        BY <2>7 DEF Wake, FlushKnown, FlushNew, AddState, RotateCheck, card
      <3> QED
        BY <2>2, <3>1
    <2> QED
      BY <1>1, <2>3, <2>4, <2>5, <2>6, <2>7 DEF LoggerTask
  <1>2. Typed /\ Ordered =>
            ((LoggerTask \/ \E c \in Callers : StartHeader(c)) =>
                \A r \in CardRows : r \in CardRows' \/ r \in RowSet(Rows(s_backup_path)))
    BY <1>1
  <1> QED
    BY <1>2, OrderedAlways, PTL DEF NothingLost

-----------------------------------------------------------------------------
(* The current file *)

\* The rows of the file being logged to, with those it may lack; and the rows
\* that once were on the card, with those that never came to be.
OnFile == RowSet(Rows(s_log_path)) \cup excused
EverSeen == stored \cup excused

\* While the file is changed under them, the bookmarks cover only what once was
\* stored, and between these moments only what is on the file; the table
\* find_or_add_state works on and the batch too.
InFlux == pc = "header" \/ Switching

Complete ==
    /\ CardRows \subseteq stored
    /\ InFlux => Below(s_state, EverSeen)
    /\ ~InFlux => Below(s_state, OnFile)
    /\ pc = "add" => Below(found, OnFile)
    /\ pc = "write" => BatchBelow(OnFile)

LEMMA ExcusedGrows ==
    ASSUME [Next]_vars
    PROVE  excused \subseteq excused'
  BY DEF Next, vars, LoggerInit, LoggerTask, Wake, FlushKnown, FlushNew, AddState, WriteBatch,
         RotateCheck, RotateRename, RotateHeader, Call, Continue, Begin, StartResume,
         StartSwitch, StartCopy, StartBackup, StartExists, StartHeader, Stop, DeleteCheck,
         ClearStop, DeleteErase, ClearFormat, ClockSet, HubStep, PowerLoss

\* What is on the card has been stored.
LEMMA CardStored ==
    ASSUME Typed, [Next]_vars, CardRows \subseteq stored
    PROVE  (CardRows \subseteq stored)'
  <1>0. stored \subseteq stored'
    BY StoredGrows
  <1>1. CASE \/ WriteBatch \/ RotateHeader \/ PowerLoss \/ \E c \in Callers : StartHeader(c)
    BY <1>1 DEF WriteBatch, RotateHeader, PowerLoss, StartHeader
  <1>2. ASSUME \A q \in DOMAIN files' : \E r \in DOMAIN files : files'[q] = files[r]
        PROVE  (CardRows \subseteq stored)'
    <2>1. CardRows' \subseteq CardRows
      BY <1>2 DEF CardRows
    <2> QED
      BY <1>0, <2>1
  <1>3. CASE RotateRename
    <2>1. \/ files' \in {files, CardWithout(s_backup_path)}
          \/ s_log_path \in DOMAIN files /\ files' = Moved(s_log_path, s_backup_path)
      <3>1. CardOK /\ s_log_path \in LogPaths /\ s_backup_path \in LogPaths
        BY DEF Typed, CallsOK, MainPaths
      <3>2. PICK err \in Results : Rename(s_log_path, s_backup_path, err)
        BY <1>3 DEF RotateRename
      <3> QED
        BY <3>1, <3>2, RenameEffect DEF card
    <2> QED
      BY <1>2, <2>1 DEF CardWithout, Moved
  <1>4. ASSUME NEW c \in Callers, DeleteErase(c) \/ ClearFormat(c)
        PROVE  (CardRows \subseteq stored)'
    <2>1. files' \in {files, CardWithout(call[c].path), << >>}
      BY <1>4 DEF DeleteErase, ClearFormat, Erase, Format, card
    <2> QED
      BY <1>2, <2>1 DEF CardWithout
  <1>5. CASE UNCHANGED files
    BY <1>2, <1>5
  <1> QED
    BY <1>1, <1>3, <1>4, <1>5, CardFrame DEF ChangesCard, card

\* Where the bookmark moves, the batch is on the file, or lost by fclose.
LEMMA MarkedOnFile ==
    ASSUME WriteBatch, s_state' # s_state
    PROVE  /\ Head(todo) \in DOMAIN s_state
           /\ s_state' = [s_state EXCEPT ![Head(todo)] = batch[Len(batch)]]
           /\ \A j \in DOMAIN batch : Row(Head(todo), batch[j]) \in OnFile'
  <1>1. PICK err \in Results :
           /\ Write(s_log_path, BatchRows, TRUE, err)
           /\ s_state' = IF err = "ESP_OK" /\ Head(todo) \in DOMAIN s_state
                           THEN [s_state EXCEPT ![Head(todo)] = batch[Len(batch)]]
                           ELSE s_state
           /\ excused' = excused \cup LostByClose(err)
    BY DEF WriteBatch
  <1>2. err = "ESP_OK" /\ s_log_path' = s_log_path
    BY <1>1 DEF WriteBatch
  <1>3. s_log_path \in DOMAIN files'
    BY <1>1, <1>2 DEF Write, CardWith
  <1>4. Rows(s_log_path)' = files'[s_log_path]
    BY <1>2, <1>3 DEF Rows
  <1>5. RowSet(BatchRows) \subseteq OnFile'
    BY <1>1, <1>2, <1>4 DEF OnFile, LostByClose, RowSet
  <1>6. \A j \in DOMAIN batch : Row(Head(todo), batch[j]) \in RowSet(BatchRows)
    BY DEF BatchRows, RowSet
  <1> QED
    BY <1>1, <1>2, <1>5, <1>6

LEMMA CompleteStep ==
    ASSUME ~Overlap
    PROVE  Typed /\ Ordered /\ Complete /\ [Next]_vars => Complete'
  <1> SUFFICES ASSUME Typed, Ordered, Complete, [Next]_vars PROVE Complete'
    OBVIOUS
  <1>0. /\ HubOK /\ CardOK /\ s_state \in Marks /\ found \in Marks /\ now \in Nat
        /\ \A n : ~(n \in DOMAIN NoBookmarks)
        /\ s_log_path \in MainPaths /\ s_log_path \in LogPaths /\ s_backup_path \in LogPaths
        /\ Backup(s_log_path) # s_log_path
        /\ call \in [Callers -> [at : Ats, path : LogPaths]]
        /\ Idle.at = "idle" /\ Idle.path = NoPath /\ NoPath.len = 0
        /\ OneAtATime
    BY RingsPast, PathsType DEF Typed, MarksOK, NoBookmarks, CallsOK, Ats, Idle, NoPath, Ordered
  <1>a. /\ (CardRows \subseteq stored)'
        /\ OnFile \subseteq EverSeen /\ EverSeen \subseteq EverSeen' /\ excused \subseteq excused'
    <2>1. RowSet(Rows(s_log_path)) \subseteq CardRows
      BY DEF Rows, RowSet, CardRows
    <2> QED
      BY <2>1, CardStored, StoredGrows, ExcusedGrows DEF Complete, OnFile, EverSeen
  \* What each step does to the rows of the file and to the bookmarks.
  <1>1. ASSUME OnFile \subseteq OnFile', NEW marks \in Marks, Below(marks, OnFile)
        PROVE  \A n \in DOMAIN marks : \A t \in Rings'[n] : t <= marks[n] => Row(n, t) \in OnFile'
    BY <1>0, <1>1, BelowKept
  <1>2. ASSUME OnFile \subseteq OnFile', Below(s_state, OnFile), s_state' = s_state
        PROVE  Below(s_state, OnFile)'
    BY <1>0, <1>1, <1>2 DEF Below
  <1>3. ASSUME s_state' = NoBookmarks
        PROVE  Below(s_state, OnFile)'
    BY <1>0, <1>3 DEF Below
  <1>4. ASSUME UNCHANGED call PROVE Switching' = Switching
    BY <1>4 DEF Switching
  <1>b. Below(s_state, EverSeen)
    BY <1>a DEF Complete, Below
  <1>c. ASSUME s_state' = s_state
        PROVE  Below(s_state, EverSeen)'
    <2>1. \A n \in DOMAIN s_state : \A t \in Rings'[n] : t <= s_state[n] => Row(n, t) \in EverSeen'
      BY <1>0, <1>a, <1>b, BelowKept
    <2> QED
      BY <1>c, <2>1 DEF Below
  <1>d. ASSUME s_state' = s_state, EverSeen \subseteq OnFile'
        PROVE  Below(s_state, OnFile)'
    <2>1. \A n \in DOMAIN s_state : \A t \in Rings'[n] : t <= s_state[n] => Row(n, t) \in OnFile'
      BY <1>0, <1>b, <1>d, BelowKept
    <2> QED
      BY <1>d, <2>1 DEF Below
  <1>5. CASE LoggerInit
    <2>1. pc' = "delay" /\ s_state' = NoBookmarks /\ ~Switching'
      BY <1>0, <1>4, <1>5, TaskAlone DEF LoggerInit, Switching
    <2> QED
      BY <1>3, <1>a, <2>1 DEF Complete, InFlux
  <1>6. CASE Wake \/ RotateCheck
    <2>1. /\ UNCHANGED <<s_state, call, files, s_log_path, excused>>
          /\ pc # "header" /\ pc' \in {"flush", "rename", "delay"}
      BY <1>6 DEF Wake, RotateCheck, logVars, card
    <2>2. OnFile' = OnFile
      BY <2>1 DEF OnFile, Rows
    <2> QED
      BY <1>2, <1>4, <1>a, <1>c, <2>1, <2>2 DEF Complete, InFlux
  <1>7. CASE FlushNew
    <2>1. /\ UNCHANGED <<channels, now, s_state, call, files, s_log_path, excused>>
          /\ found' = s_state /\ pc # "header" /\ pc' = "add"
      BY <1>7 DEF FlushNew, logVars, card
    <2>2. OnFile' = OnFile /\ Rings' = Rings
      BY <2>1, HubSame DEF OnFile, Rows
    <2>3. ~Switching
      BY <1>0, <1>7, TaskAlone DEF LoggerTask, Switching
    <2>4. Below(s_state, OnFile)'
      BY <1>2, <2>1, <2>2, <2>3 DEF Complete, InFlux
    <2>5. Below(found, OnFile)'
      BY <2>1, <2>4 DEF Below
    <2> QED
      BY <1>4, <1>a, <2>1, <2>3, <2>4, <2>5 DEF Complete, InFlux
  <1>8. CASE FlushKnown \/ AddState
    <2>1. /\ UNCHANGED <<channels, now, call, files, s_log_path, excused>>
          /\ pc # "header" /\ pc' \in {"write", "flush"}
      BY <1>8, Gathers DEF FlushKnown, AddState, card
    <2>2. OnFile' = OnFile /\ Rings' = Rings
      BY <2>1, HubSame DEF OnFile, Rows
    <2>3. ~Switching
      BY <1>0, <1>8, TaskAlone DEF LoggerTask, Switching
    <2>4. Below(s_state', OnFile)
      BY <1>8, <2>1, <2>3, GatheredMark DEF Complete, InFlux, AddState
    <2>5. Below(s_state, OnFile)'
      BY <2>2, <2>4 DEF Below
    <2>6. pc' = "write" => BatchBelow(OnFile)'
      <3> SUFFICES ASSUME pc' = "write" PROVE BatchBelow(OnFile)'
        OBVIOUS
      <3>1. todo' = todo
        BY <1>8, Gathers
      <3>2. \A t \in Rings[Head(todo)] : t \in RowSet(batch') \/ Row(Head(todo), t) \in OnFile
        BY <1>8, <2>4, GatheredBelow
      <3> QED
        BY <2>2, <3>1, <3>2 DEF BatchBelow, RowSet
    <2> QED
      BY <1>4, <1>a, <2>1, <2>3, <2>5, <2>6 DEF Complete, InFlux
  <1>9. CASE WriteBatch
    <2>1. /\ pc = "write" /\ pc' = "flush" /\ UNCHANGED <<channels, now, call, s_log_path>>
      BY <1>9 DEF WriteBatch
    <2>2. Rings' = Rings /\ ~Switching /\ ~InFlux /\ ~InFlux'
      <3>1. ~Switching /\ Rings' = Rings
        BY <1>0, <1>9, <2>1, HubSame, TaskAlone DEF LoggerTask, Switching
      <3> QED
        BY <1>4, <2>1, <3>1 DEF InFlux
    <2>3. OnFile \subseteq OnFile'
      <3>1. CASE UNCHANGED files
        BY <1>a, <2>1, <3>1 DEF OnFile, Rows
      <3>2. ASSUME NEW k \in 0 .. Len(batch), Extends(s_log_path, Added(k))
            PROVE  OnFile \subseteq OnFile'
        <4>1. /\ Rows(s_log_path) \o Added(k) \in Seq(RowType) /\ faults' \in Nat
              /\ RowSet(Rows(s_log_path)) \subseteq RowSet(Rows(s_log_path) \o Added(k))
          BY <1>9, <2>1, AddedIs, WriteEffect, <1>0 DEF CardOK
        <4>2. Rows(s_log_path)' = Rows(s_log_path) \o Added(k)
          BY <1>0, <2>1, <3>2, <4>1, WithRows DEF Extends, Rows
        <4> QED
          BY <1>a, <2>1, <4>1, <4>2 DEF OnFile
      <3> QED
        BY <1>9, <3>1, <3>2, WriteEffect
    <2>4. Below(s_state, OnFile) /\ BatchBelow(OnFile)
      BY <2>1, <2>2 DEF Complete
    <2>5. CASE s_state' = s_state
      BY <1>2, <1>a, <2>1, <2>2, <2>3, <2>4, <2>5 DEF Complete
    <2>6. CASE s_state' # s_state
      <3>1. \A t \in Rings[Head(todo)] : t <= batch[Len(batch)] => Row(Head(todo), t) \in OnFile'
        BY <1>9, <2>3, <2>4, <2>6, MarkedOnFile DEF BatchBelow, RowSet
      <3>2. \A n \in DOMAIN s_state' : \A t \in Rings[n] :
               t <= s_state'[n] => Row(n, t) \in OnFile'
        BY <1>9, <2>3, <2>4, <2>6, <3>1, MarkedOnFile DEF Below
      <3>3. Below(s_state, OnFile)'
        BY <2>2, <3>2 DEF Below
      <3> QED
        BY <1>a, <2>1, <2>2, <3>3 DEF Complete
    <2> QED
      BY <2>5, <2>6
  <1>10. CASE RotateRename
    <2>1. /\ pc = "rename" /\ UNCHANGED <<call, s_log_path, excused, s_state>>
      BY <1>10 DEF RotateRename, logVars
    <2>2. ~Switching /\ s_backup_path = Backup(s_log_path)
      <3>1. ~Switching
        BY <1>0, <1>10, TaskAlone DEF LoggerTask, Switching
      <3> QED
        BY <2>1, <3>1 DEF Ordered
    <2>3. \/ pc' = "header"
          \/ pc' = "delay" /\ files' \in {files, CardWithout(s_backup_path)}
      BY <1>0, <1>10, RenameEffect DEF RotateRename, card
    <2>4. pc' = "delay" => OnFile \subseteq OnFile'
      <3> SUFFICES ASSUME pc' = "delay" PROVE OnFile \subseteq OnFile'
        OBVIOUS
      <3>1. Rows(s_log_path)' = Rows(s_log_path)
        BY <1>0, <2>1, <2>2, <2>3 DEF Rows, CardWithout
      <3> QED
        BY <2>1, <3>1 DEF OnFile
    <2>5. pc' = "delay" => Below(s_state, OnFile)'
      BY <1>2, <2>1, <2>2, <2>4 DEF Complete, InFlux
    <2> QED
      BY <1>4, <1>a, <1>c, <2>1, <2>2, <2>3, <2>5 DEF Complete, InFlux
  <1>11. CASE RotateHeader
    <2>1. /\ pc = "header" /\ pc' = "delay" /\ UNCHANGED call
      BY <1>11 DEF RotateHeader
    <2>2. \/ s_state' = NoBookmarks
          \/ s_state' = s_state /\ excused' = excused \cup stored
      BY <1>11 DEF RotateHeader
    <2>3. s_state' = s_state /\ excused' = excused \cup stored => EverSeen \subseteq OnFile'
      BY DEF EverSeen, OnFile
    <2>4. Below(s_state, OnFile)'
      BY <1>3, <1>d, <2>2, <2>3
    <2>5. ~Switching
      BY <1>0, <1>11, TaskAlone DEF LoggerTask, Switching
    <2> QED
      BY <1>4, <1>a, <2>1, <2>4, <2>5 DEF Complete, InFlux
  <1>12. ASSUME NEW c \in Callers, Call(c) \/ Continue(c),
                call'[c].at \in {"copy", "backup"} => Below(s_state, EverSeen)',
                call'[c].at \notin {"copy", "backup"} => Below(s_state, OnFile)'
         PROVE  Complete'
    <2>1. pc' = "delay" /\ \A d \in Callers : d # c => call'[d] = Idle
      BY <1>0, <1>12, CallerAlone DEF taskVars
    <2>2. Switching' <=> call'[c].at \in {"copy", "backup"}
      BY <1>0, <2>1 DEF Switching
    <2> QED
      BY <1>0, <1>a, <1>12, <2>1, <2>2 DEF Complete, InFlux
  <1>13. ASSUME NEW c \in Callers, Call(c) \/ Continue(c), call[c].at \notin {"copy", "backup"}
         PROVE  Below(s_state, OnFile)
    <2>1. pc = "delay" /\ \A d \in Callers : d # c => call[d] = Idle
      BY <1>0, <1>13, CallerAlone
    <2> QED
      BY <1>0, <1>13, <2>1 DEF Switching, Complete, InFlux
  <1>14. ASSUME NEW c \in Callers, StartResume(c) \/ Stop(c) \/ ClearStop(c) \/ DeleteCheck(c)
         PROVE  Complete'
    <2>1. /\ Call(c) /\ call[c].at = "idle"
          /\ UNCHANGED <<s_log_path, s_state, files, excused>>
          /\ call'[c].at \in {"idle", "exists", "format", "erase"}
      BY <1>0, <1>14 DEF Call, StartResume, Stop, ClearStop, DeleteCheck, Begin, Goes, logVars, card
    <2>2. OnFile' = OnFile
      BY <2>1 DEF OnFile, Rows
    <2> QED
      BY <1>2, <1>12, <1>13, <2>1, <2>2
  <1>15. ASSUME NEW c \in Callers, NEW n \in LogNames, StartSwitch(c, n)
         PROVE  Complete'
    <2>1. /\ Call(c) /\ call[c].at = "idle" /\ UNCHANGED <<s_state, files, excused>>
      BY <1>0, <1>15 DEF Call, StartSwitch, Begin, card
    <2>2. CASE PathOf(n).len >= LogPathLen
      <3>1. UNCHANGED <<call, s_log_path>>
        BY <1>15, <2>2 DEF StartSwitch
      <3>2. OnFile' = OnFile
        BY <2>1, <3>1 DEF OnFile, Rows
      <3> QED
        BY <1>2, <1>12, <1>13, <2>1, <3>1, <3>2
    <2>3. CASE ~(PathOf(n).len >= LogPathLen)
      <3>1. call'[c] = [at |-> "copy", path |-> PathOf(n)]
        BY <1>0, <1>15, <2>3 DEF StartSwitch, Goes
      <3> QED
        BY <1>12, <1>c, <2>1, <3>1
    <2> QED
      BY <2>2, <2>3
  <1>16. ASSUME NEW c \in Callers, StartCopy(c)
         PROVE  Complete'
    <2>1. /\ Continue(c) /\ s_state' = s_state
          /\ call'[c] = [at |-> "backup", path |-> call[c].path]
      BY <1>0, <1>16 DEF Continue, StartCopy, Goes
    <2> QED
      BY <1>12, <1>c, <2>1
  <1>17. ASSUME NEW c \in Callers, StartBackup(c)
         PROVE  Complete'
    <2>1. Continue(c) /\ call'[c].at \in {"idle", "exists"}
      BY <1>0, <1>17 DEF StartBackup, Goes, Returns, Continue
    <2>2. \/ s_state' = NoBookmarks
          \/ s_state' = s_state /\ excused' = excused \cup stored
      BY <1>17 DEF StartBackup
    <2>3. s_state' = s_state /\ excused' = excused \cup stored => EverSeen \subseteq OnFile'
      BY DEF EverSeen, OnFile
    <2> QED
      BY <1>3, <1>12, <1>d, <2>1, <2>2, <2>3
  <1>18. ASSUME NEW c \in Callers,
                StartExists(c) \/ StartHeader(c) \/ DeleteErase(c) \/ ClearFormat(c)
         PROVE  Complete'
    <2>1. /\ Continue(c) /\ UNCHANGED <<s_log_path, s_state>>
          /\ call[c].at \notin {"copy", "backup"} /\ call'[c].at \notin {"copy", "backup"}
      <3>1. /\ Continue(c) /\ UNCHANGED <<s_log_path, s_state>>
            /\ call[c].at \notin {"copy", "backup"}
        BY <1>18 DEF Continue, StartExists, StartHeader, DeleteErase, ClearFormat, logVars
      <3>2. \/ call' = [call EXCEPT ![c] = Idle]
            \/ call' = [call EXCEPT ![c] = [at |-> "header", path |-> call[c].path]]
        BY <1>18 DEF StartExists, StartHeader, DeleteErase, ClearFormat, Goes, Returns
      <3> QED
        BY <1>0, <3>1, <3>2
    <2>2. OnFile \subseteq OnFile'
      <3>1. CASE StartExists(c)
        BY <3>1 DEF StartExists, card, OnFile, Rows
      <3>2. CASE StartHeader(c)
        <4>1. /\ DOMAIN files \subseteq DOMAIN files'
              /\ \A p \in DOMAIN files : files'[p] = files[p]
          BY <3>2, HeaderFindsNothing DEF StartHeader, Ordered
        <4>2. excused' = excused
          BY <3>2 DEF StartHeader
        <4> QED
          BY <2>1, <4>1, <4>2 DEF OnFile, Rows, RowSet
      <3>3. CASE DeleteErase(c)
        <4>1. \/ /\ files' = CardWithout(call[c].path)
                 /\ excused' = excused \cup RowSet(Rows(call[c].path))
              \/ files' = files /\ excused' = excused
          BY <3>3 DEF DeleteErase, Erase, card
        <4> QED
          BY <2>1, <4>1 DEF OnFile, Rows, CardWithout
      <3>4. CASE ClearFormat(c)
        <4>1. \/ excused' = excused \cup CardRows
              \/ files' = files /\ excused' = excused
          <5>1. PICK err \in Results :
                   /\ Format(err)
                   /\ excused' = IF err = "ESP_OK" THEN excused \cup CardRows ELSE excused
            BY <3>4 DEF ClearFormat
          <5> QED
            BY <5>1 DEF Format
        <4>2. RowSet(Rows(s_log_path)) \subseteq CardRows
          BY DEF Rows, RowSet, CardRows
        <4> QED
          BY <2>1, <4>1, <4>2 DEF OnFile, Rows
      <3> QED
        BY <1>18, <3>1, <3>2, <3>3, <3>4
    <2> QED
      BY <1>2, <1>12, <1>13, <2>1, <2>2
  <1>19. CASE PowerLoss
    <2>1. s_state' = NoBookmarks /\ pc' = "boot" /\ call' = [c \in Callers |-> Idle]
      BY <1>19 DEF PowerLoss
    <2>2. ~InFlux'
      BY <1>0, <2>1 DEF InFlux, Switching
    <2> QED
      BY <1>0, <1>3, <1>a, <2>1, <2>2 DEF Complete
  <1>20. CASE HubStep \/ ClockSet \/ UNCHANGED vars
    <2>1. UNCHANGED <<call, s_log_path, s_state, excused, files, taskVars>>
      BY <1>20 DEF HubStep, ClockSet, vars, logVars, card
    <2>2. OnFile' = OnFile
      BY <2>1 DEF OnFile, Rows
    <2>3. pc = "add" => Below(found, OnFile)'
      BY <1>0, <1>1, <2>1, <2>2 DEF Complete, Below, taskVars
    <2>4. pc = "write" => BatchBelow(OnFile)'
      <3> SUFFICES ASSUME pc = "write", NEW t \in Rings'[Head(todo)], t <= batch[Len(batch)]
                   PROVE  t \in RowSet(batch) \/ Row(Head(todo), t) \in OnFile'
        BY <2>1 DEF taskVars, BatchBelow, RowSet
      <3>1. Head(todo) \in Names
        BY AtHead DEF Typed, TaskOK
      <3>2. t \in Nat /\ (t \in Rings[Head(todo)] \/ t > now)
        BY <1>0, <3>1, RingsGrow
      <3>3. batch[Len(batch)] \in 1 .. now
        BY LastOfBatch DEF Typed
      <3>4. t \in Rings[Head(todo)]
        BY <1>0, <3>2, <3>3
      <3> QED
        BY <2>2, <3>4 DEF Complete, BatchBelow
    <2> QED
      BY <1>2, <1>4, <1>a, <1>c, <2>1, <2>2, <2>3, <2>4 DEF Complete, InFlux, taskVars
  <1> QED
    BY <1>5, <1>6, <1>7, <1>8, <1>9, <1>10, <1>11, <1>14, <1>15, <1>16, <1>17, <1>18, <1>19, <1>20
       DEF Next, LoggerTask, Call, Continue

\* Between the calls no bookmark is beyond what the current file has: a new
\* file, after a switch or a rotation, gets everything the rings still hold (the
\* comments in rotate_if_needed and logger_start), whatever fails on the card,
\* for names of any length.  The rows `excused` has are those of the events
\* CurrentFileComplete names.  Needed: calls come one by one, while the logger
\* task sleeps; two tasks at once can break it.
THEOREM FileComplete ==
    ASSUME ~Overlap
    PROVE  Spec => []CurrentFileComplete
  <1>1. Init => Complete
    BY DEF Init, Complete, InFlux, Switching, Below, NoBookmarks, Idle, CardRows
  <1>2. Typed /\ Ordered /\ Complete /\ [Next]_vars => Complete'
    BY CompleteStep
  <1>3. Typed /\ Complete => CurrentFileComplete
    <2> SUFFICES ASSUME Typed, Complete, Quiet, NEW n \in DOMAIN s_state,
                        NEW t \in RowSet(GetHistory(n, HistoryLen)), t <= s_state[n]
                 PROVE  Row(n, t) \in RowSet(Rows(s_log_path)) \cup excused
      BY DEF CurrentFileComplete
    <2>1. n \in Names
      BY MarkIs DEF Typed, MarksOK
    <2>2. ~InFlux
      BY DEF Quiet, CallersIdle, InFlux, Switching, Idle
    <2> QED
      BY <2>1, <2>2 DEF Complete, Below, Rings, OnFile
  <1> QED
    BY <1>1, <1>2, <1>3, OrderedAlways, PTL DEF Spec

-----------------------------------------------------------------------------
(* Calls one by one, or no call that switches the file *)

\* Without names to switch to, the two paths belong together at any time.
NoSwitch ==
    /\ ~Switching
    /\ pc # "boot" => s_backup_path = Backup(s_log_path)

Calm == IF Overlap THEN NoSwitch ELSE Ordered

LEMMA NoSwitchStep ==
    ASSUME LogNames = {}
    PROVE  Typed /\ NoSwitch /\ [Next]_vars => NoSwitch'
  <1> SUFFICES ASSUME Typed, NoSwitch, [Next]_vars PROVE NoSwitch'
    OBVIOUS
  <1>0. call \in [Callers -> [at : Ats, path : LogPaths]] /\ Idle.at = "idle"
    BY DEF Typed, CallsOK, Ats, Idle
  <1>1. CASE LoggerInit
    BY <1>1 DEF LoggerInit, NoSwitch, Switching
  <1>2. CASE PowerLoss
    BY <1>0, <1>2 DEF PowerLoss, NoSwitch, Switching
  <1>3. CASE LoggerTask
    <2>1. UNCHANGED <<s_log_path, s_backup_path, call>> /\ pc # "boot"
      BY <1>3 DEF LoggerTask, Wake, FlushKnown, FlushNew, AddState, WriteBatch, RotateCheck,
                  RotateRename, RotateHeader, logVars
    <2> QED
      BY <2>1 DEF NoSwitch, Switching
  <1>4. ASSUME NEW c \in Callers, Call(c) \/ Continue(c) PROVE NoSwitch'
    <2>1. /\ UNCHANGED <<s_log_path, s_backup_path, pc>>
          /\ \/ call' = call
             \/ \E at \in {"exists", "header", "erase", "format"} : \E path :
                   call' = [call EXCEPT ![c] = [at |-> at, path |-> path]]
             \/ call' = [call EXCEPT ![c] = Idle]
      <3>1. ~StartCopy(c) /\ ~StartBackup(c)
        BY DEF NoSwitch, Switching, StartCopy, StartBackup
      <3>2. CASE Call(c)
        BY <3>2 DEF Call, Begin, StartResume, Stop, DeleteCheck, ClearStop, Goes, logVars, taskVars
      <3>3. CASE Continue(c)
        BY <3>1, <3>3 DEF Continue, StartExists, StartHeader, DeleteErase, ClearFormat, Goes,
                          Returns, logVars, taskVars
      <3> QED
        BY <1>4, <3>2, <3>3
    <2>2. \A d \in Callers : call'[d].at \notin {"copy", "backup"}
      BY <1>0, <2>1 DEF NoSwitch, Switching
    <2> QED
      BY <2>1, <2>2 DEF NoSwitch, Switching
  <1>5. CASE HubStep \/ ClockSet \/ UNCHANGED vars
    BY <1>5 DEF HubStep, ClockSet, vars, logVars, taskVars, NoSwitch, Switching
  <1> QED
    BY <1>1, <1>2, <1>3, <1>4, <1>5 DEF Next

LEMMA CalmAlways ==
    ASSUME ~Overlap \/ LogNames = {}
    PROVE  Spec => [](Typed /\ Calm)
  <1>1. CASE ~Overlap
    <2>1. Ordered => Calm
      BY <1>1 DEF Calm
    <2> QED
      BY <1>1, <2>1, OrderedAlways, PTL
  <1>2. CASE Overlap
    <2>1. Init => NoSwitch
      BY DEF Init, NoSwitch, Switching, Idle
    <2>2. LogNames = {}
      BY <1>2, LoggerAssumption DEF LoggerAssumption
    <2>3. Typed /\ NoSwitch /\ [Next]_vars => NoSwitch'
      BY <2>2, NoSwitchStep
    <2>4. NoSwitch => Calm
      BY <1>2 DEF Calm
    <2> QED
      BY <2>1, <2>3, <2>4, TypedAlways, PTL DEF Spec
  <1> QED
    BY <1>1, <1>2

\* The logger task does not run during a switch, and its paths belong together.
LEMMA TaskSteady ==
    ASSUME Typed, Calm, LoggerTask
    PROVE  ~Switching /\ s_backup_path = Backup(s_log_path) /\ s_backup_path # s_log_path
  <1>1. pc # "boot"
    BY DEF LoggerTask, Wake, FlushKnown, FlushNew, AddState, WriteBatch, RotateCheck,
           RotateRename, RotateHeader
  <1>2. ~Switching
    <2>1. CASE Overlap
      BY <2>1 DEF Calm, NoSwitch
    <2>2. CASE ~Overlap
      BY <2>2, TaskAlone DEF Calm, Ordered, Switching, Idle
    <2> QED
      BY <2>1, <2>2
  <1>3. s_backup_path = Backup(s_log_path)
    BY <1>1, <1>2 DEF Calm, NoSwitch, Ordered
  <1>4. s_log_path \in MainPaths
    BY DEF Typed, CallsOK
  <1> QED
    BY <1>2, <1>3, <1>4, PathsType

-----------------------------------------------------------------------------
(* The header row *)

LEMMA Concat ==
    ASSUME NEW T, NEW r \in Seq(T), NEW a \in Seq(T)
    PROVE  /\ r \o a \in Seq(T)
           /\ DOMAIN r = 1 .. Len(r) /\ DOMAIN a = 1 .. Len(a)
           /\ DOMAIN (r \o a) = 1 .. Len(r) + Len(a)
           /\ Len(r \o a) = Len(r) + Len(a)
           /\ \A j \in 1 .. Len(r) : (r \o a)[j] = r[j]
           /\ \A j \in 1 .. Len(r) + Len(a) :
                  j \notin 1 .. Len(r) => j - Len(r) \in 1 .. Len(a) /\ (r \o a)[j] = a[j - Len(r)]
  <1>1. /\ r \o a \in Seq(T) /\ Len(r \o a) = Len(r) + Len(a)
        /\ \A j \in 1 .. Len(r) : (r \o a)[j] = r[j]
        /\ \A i \in 1 .. Len(a) : (r \o a)[Len(r) + i] = a[i]
    OBVIOUS
  <1>2. ASSUME NEW j \in 1 .. Len(r) + Len(a), j \notin 1 .. Len(r)
        PROVE  j - Len(r) \in 1 .. Len(a) /\ (r \o a)[j] = a[j - Len(r)]
    <2>1. j - Len(r) \in 1 .. Len(a) /\ Len(r) + (j - Len(r)) = j
      BY <1>2
    <2> QED
      BY <1>1, <2>1
  <1> QED
    BY <1>1, <1>2

HeadFirst(rows) == rows # << >> /\ \A j \in DOMAIN rows : rows[j] = Header <=> j = 1

\* The file being logged to is there, or its name is one the card refuses.
Ready == s_log_path \in DOMAIN files \/ ~Addressable(s_log_path)

Opening == \E c \in Callers : call[c].at \in {"copy", "backup", "exists", "header"}

\* Whenever rows may be appended, the file is there and has its header.
Headed ==
    /\ HeaderFirst
    /\ pc = "boot" => ~s_running /\ s_log_path = NoPath
    /\ pc \in {"flush", "add", "write", "rename"} => Ready
    /\ s_running /\ pc = "delay" /\ (Overlap \/ ~Opening) => Ready
    /\ \A c \in Callers : call[c].at = "format" => ~s_running
    /\ Overlap => \A c \in Callers : call[c].at \notin {"erase", "format"}

\* Writing the header fails only for a name the card refuses.
LEMMA HeaderWritten ==
    ASSUME CardOK, Faults \subseteq {"append", "rename", "erase", "format", "read"}, HeaderFirst,
           NEW p \in LogPaths, NEW err \in Results, Write(p, <<Header>>, FALSE, err)
    PROVE  /\ HeaderFirst'
           /\ DOMAIN files \subseteq DOMAIN files'
           /\ p \in DOMAIN files' \/ ~Addressable(p)
           /\ err = "ESP_OK" => Addressable(p)
  <1>1. \/ UNCHANGED files /\ err = "ESP_FAIL" /\ ~Addressable(p)
        \/ files' = CardWith(p, <<Header>>) /\ Addressable(p)
    BY HeaderEffect
  <1>2. CASE UNCHANGED files /\ err = "ESP_FAIL" /\ ~Addressable(p)
    BY <1>2 DEF HeaderFirst
  <1>3. CASE files' = CardWith(p, <<Header>>) /\ Addressable(p)
    <2>1. HeadFirst(<<Header>>)
      <3>1. ASSUME NEW h PROVE <<h>> # << >> /\ DOMAIN <<h>> = {1} /\ <<h>>[1] = h
        OBVIOUS
      <3> QED
        BY <3>1 DEF HeadFirst
    <2> QED
      BY <1>3, <2>1 DEF HeaderFirst, HeadFirst, CardWith
  <1> QED
    BY <1>1, <1>2, <1>3

\* Samples go behind the header that is there.
LEMMA HeaderStays ==
    ASSUME Typed, HeaderFirst, pc = "write", s_log_path \in DOMAIN files,
           NEW k \in 0 .. Len(batch), Extends(s_log_path, Added(k))
    PROVE  HeaderFirst'
  <1> DEFINE r == files[s_log_path]
             a == Added(k)
  <1>1. r \in Seq(RowType) /\ a \in Seq(RowType) /\ Len(a) = k /\ r = Rows(s_log_path)
    BY AddedIs DEF Typed, CardOK, Rows
  <1>2. \A j \in 1 .. Len(a) : a[j] # Header
    <2>1. Head(todo) \in Names /\ NoName \notin Names
      BY AtHead, HubAssumption DEF Typed, TaskOK, HubAssumption
    <2>2. \A j \in 1 .. k : a[j] = Row(Head(todo), batch[j])
      BY AddedIs
    <2>3. \A t : Row(Head(todo), t) # Header
      BY <2>1 DEF Header, Row
    <2> QED
      BY <1>1, <2>2, <2>3
  <1>3. r # << >> /\ \A j \in DOMAIN r : r[j] = Header <=> j = 1
    BY DEF HeaderFirst
  <1>4. files' = CardWith(s_log_path, r \o a)
    BY <1>1 DEF Extends
  <1> HIDE DEF r, a
  <1>5. /\ DOMAIN r = 1 .. Len(r) /\ DOMAIN (r \o a) = 1 .. Len(r) + Len(a)
        /\ Len(r) \in Nat /\ Len(r) >= 1
        /\ \A j \in 1 .. Len(r) : (r \o a)[j] = r[j]
        /\ \A j \in 1 .. Len(r) + Len(a) :
               j \notin 1 .. Len(r) => j - Len(r) \in 1 .. Len(a) /\ (r \o a)[j] = a[j - Len(r)]
    <2>1. Len(r) \in Nat /\ Len(r) >= 1
      BY <1>1, <1>3
    <2>2. r \in Seq(RowType) /\ a \in Seq(RowType)
      BY <1>1
    <2>3. /\ DOMAIN r = 1 .. Len(r) /\ DOMAIN (r \o a) = 1 .. Len(r) + Len(a)
          /\ \A j \in 1 .. Len(r) : (r \o a)[j] = r[j]
      BY <2>2, Concat
    <2>4. \A j \in 1 .. Len(r) + Len(a) :
               j \notin 1 .. Len(r) => j - Len(r) \in 1 .. Len(a) /\ (r \o a)[j] = a[j - Len(r)]
      BY <2>2, Concat
    <2> QED
      BY <2>1, <2>3, <2>4
  <1>6. HeadFirst(r \o a)
    <2>1. r \o a # << >>
      BY <1>1, <1>5
    <2>2. ASSUME NEW j \in 1 .. Len(r) + Len(a)
          PROVE  (r \o a)[j] = Header <=> j = 1
      BY <1>2, <1>3, <1>5
    <2> QED
      BY <1>5, <2>1, <2>2 DEF HeadFirst
  <1> QED
    BY <1>4, <1>6 DEF HeaderFirst, HeadFirst, CardWith

LEMMA HeadedStep ==
    ASSUME ~Overlap \/ (LogNames = {} /\ Ops \subseteq {"start", "stop"}),
           Faults \subseteq {"append", "rename", "erase", "format", "read"}, MaxBoots = 0
    PROVE  Typed /\ Calm /\ Headed /\ [Next]_vars => Headed'
  <1> SUFFICES ASSUME Typed, Calm, Headed, [Next]_vars PROVE Headed'
    OBVIOUS
  <1>0. /\ CardOK /\ s_log_path \in LogPaths /\ s_backup_path \in LogPaths
        /\ call \in [Callers -> [at : Ats, path : LogPaths]]
        /\ Idle.at = "idle" /\ Overlap \in BOOLEAN /\ s_running \in BOOLEAN
        /\ HeaderFirst
        /\ boots \in Nat /\ LogPathLen = 64
    BY PathsType, LoggerAssumption
       DEF Typed, CallsOK, Ats, Idle, FlagsOK, LoggerAssumption, Headed, LogPathLen
  <1>1. ~PowerLoss
    BY <1>0 DEF PowerLoss
  \* The steps of the task.
  <1>2. ASSUME UNCHANGED <<call, s_log_path, s_running>>, HeaderFirst', pc # "boot",
               pc' \in {"delay", "flush", "add", "write", "rename"} => Ready', pc' # "boot"
        PROVE  Headed'
    BY <1>2 DEF Headed
  <1>3. CASE LoggerInit
    <2>1. ~s_running
      BY <1>3 DEF LoggerInit, Headed
    <2> QED
      BY <1>3, <2>1 DEF LoggerInit, Headed, HeaderFirst, card
  <1>4. CASE Wake
    <2>1. Ready
      <3>1. CASE Overlap
        BY <1>4, <3>1 DEF Wake, Headed
      <3>2. CASE ~Overlap
        BY <1>4, <3>2 DEF Wake, Headed, CallersIdle, Opening, Idle
      <3> QED
        BY <3>1, <3>2
    <2>2. UNCHANGED <<call, s_log_path, s_running, files>> /\ pc' = "flush" /\ pc = "delay"
      BY <1>4 DEF Wake, card, logVars
    <2>3. Ready' /\ HeaderFirst'
      BY <1>0, <2>1, <2>2 DEF Ready, HeaderFirst, Addressable
    <2> QED
      BY <1>2, <2>2, <2>3
  <1>5. CASE FlushKnown \/ FlushNew \/ AddState \/ RotateCheck
    <2>1. /\ UNCHANGED <<call, s_log_path, s_running, files>>
          /\ pc \in {"flush", "add"} /\ pc' \in {"flush", "add", "write", "rename", "delay"}
      BY <1>5 DEF FlushKnown, FlushNew, AddState, RotateCheck, Gather, card, logVars
    <2>2. Ready' /\ HeaderFirst'
      BY <1>0, <2>1 DEF Ready, HeaderFirst, Addressable, Headed
    <2> QED
      BY <1>2, <2>1, <2>2
  <1>6. CASE WriteBatch
    <2>1. UNCHANGED <<call, s_log_path, s_running>> /\ pc' = "flush" /\ pc = "write" /\ Ready
      BY <1>6 DEF WriteBatch, Headed
    <2>2. Ready' /\ HeaderFirst'
      <3>1. CASE UNCHANGED files
        BY <1>0, <2>1, <3>1 DEF Ready, HeaderFirst, Addressable
      <3>2. ASSUME NEW k \in 0 .. Len(batch), Extends(s_log_path, Added(k)),
                   Addressable(s_log_path)
            PROVE  Ready' /\ HeaderFirst'
        <4>1. HeaderFirst'
          BY <1>0, <2>1, <3>2, HeaderStays DEF Ready
        <4>2. s_log_path \in DOMAIN files'
          BY <3>2 DEF Extends, CardWith
        <4> QED
          BY <2>1, <4>1, <4>2 DEF Ready
      <3> QED
        BY <1>6, <3>1, <3>2, WriteEffect
    <2> QED
      BY <1>2, <2>1, <2>2
  <1>7. CASE RotateRename
    <2>1. UNCHANGED <<call, s_log_path, s_running>> /\ pc = "rename" /\ Ready
          /\ s_backup_path # s_log_path
      BY <1>7, TaskSteady DEF RotateRename, Headed, logVars, LoggerTask
    <2>2. \/ pc' = "delay" /\ UNCHANGED files
          \/ pc' = "header" /\ s_log_path \in DOMAIN files /\ files' = Moved(s_log_path, s_backup_path)
          \/ pc' = "delay" /\ files' = CardWithout(s_backup_path)
      BY <1>0, <1>7, RenameEffect DEF RotateRename, card
    <2>3. HeaderFirst'
      BY <1>0, <2>2 DEF HeaderFirst, Moved, CardWithout
    <2>4. pc' = "delay" => Ready'
      BY <2>1, <2>2 DEF Ready, CardWithout, Addressable
    <2> QED
      BY <1>2, <2>1, <2>2, <2>3, <2>4
  <1>8. CASE RotateHeader
    <2>1. UNCHANGED <<call, s_log_path, s_running>> /\ pc = "header" /\ pc' = "delay"
      BY <1>8 DEF RotateHeader
    <2>2. HeaderFirst' /\ (s_log_path \in DOMAIN files' \/ ~Addressable(s_log_path))
      BY <1>0, <1>8, HeaderWritten DEF RotateHeader
    <2>3. Ready'
      BY <2>1, <2>2 DEF Ready, Addressable
    <2> QED
      BY <1>2, <2>1, <2>2, <2>3
  \* The steps of the callers: without Overlap, the others are idle.
  <1>9. ASSUME NEW c \in Callers, StartResume(c) \/ Stop(c)
        PROVE  Headed'
    <2>1. /\ UNCHANGED <<s_log_path, files, pc>> /\ s_running' \in {s_running, FALSE}
          /\ call' \in {call, [call EXCEPT ![c] = [at |-> "exists", path |-> NoPath]]}
          /\ call[c].at = "idle"
      BY <1>0, <1>9 DEF StartResume, Stop, Begin, Goes, logVars, card, taskVars
    <2>2. /\ \A d \in Callers : call'[d].at \in {call[d].at, "exists"}
          /\ Opening => Opening'
      BY <1>0, <2>1 DEF Opening
    <2>3. HeaderFirst' /\ (Ready' <=> Ready)
      BY <1>0, <2>1 DEF Ready, HeaderFirst, Addressable
    <2>4. s_running' => s_running
      BY <2>1
    <2>5. \A d \in Callers : call'[d].at = "format" => ~s_running'
      BY <2>2, <2>4 DEF Headed
    <2>6. Overlap => \A d \in Callers : call'[d].at \notin {"erase", "format"}
      BY <2>2 DEF Headed
    <2>7. s_running' /\ pc' = "delay" /\ (Overlap \/ ~Opening') => Ready'
      BY <2>1, <2>2, <2>3, <2>4 DEF Headed
    <2>8. pc' = "boot" => ~s_running' /\ s_log_path' = NoPath
      BY <2>1, <2>4 DEF Headed
    <2>9. pc' \in {"flush", "add", "write", "rename"} => Ready'
      BY <2>1, <2>3 DEF Headed
    <2> QED
      BY <2>3, <2>5, <2>6, <2>7, <2>8, <2>9 DEF Headed
  <1>10. ASSUME NEW c \in Callers, StartExists(c)
         PROVE  Headed'
    <2>1. /\ UNCHANGED <<s_log_path, files, pc>>
          /\ call[c].at = "exists"
          /\ \/ s_running' = TRUE /\ call' = [call EXCEPT ![c] = Idle] /\ Exists(s_log_path)
             \/ /\ s_running' = s_running
                /\ call' = [call EXCEPT ![c] = [at |-> "header", path |-> call[c].path]]
      BY <1>10 DEF StartExists, logVars, card, taskVars, Goes, Returns
    <2>2. HeaderFirst' /\ (Ready' <=> Ready)
      BY <1>0, <2>1 DEF Ready, HeaderFirst, Addressable
    <2>3. CASE s_running' = TRUE /\ call' = [call EXCEPT ![c] = Idle] /\ Exists(s_log_path)
      <3>1. Ready /\ pc # "boot"
        BY <2>3 DEF Exists, Ready, Headed, Addressable, NoPath
      <3>2. \A d \in Callers : call'[d].at \in {call[d].at, "idle"}
        BY <1>0, <2>3
      <3>3. \A d \in Callers : call'[d].at # "format"
        <4>1. CASE Overlap
          BY <3>2, <4>1 DEF Headed
        <4>2. CASE ~Overlap
          BY <1>0, <1>10, <2>3, <4>2, CallerAlone DEF Continue, Calm, Ordered
        <4> QED
          BY <4>1, <4>2
      <3> QED
        BY <2>1, <2>2, <3>1, <3>2, <3>3 DEF Headed
    <2>4. CASE /\ s_running' = s_running
               /\ call' = [call EXCEPT ![c] = [at |-> "header", path |-> call[c].path]]
      <3>1. /\ \A d \in Callers : call'[d].at \in {call[d].at, "header"}
            /\ Opening => Opening'
        BY <1>0, <2>4 DEF Opening
      <3> QED
        BY <2>1, <2>2, <2>4, <3>1 DEF Headed
    <2> QED
      BY <2>1, <2>3, <2>4
  <1>11. ASSUME NEW c \in Callers, StartHeader(c)
         PROVE  Headed'
    <2>1. PICK err \in Results :
             /\ Write(s_log_path, <<Header>>, FALSE, err)
             /\ s_running' = IF err = "ESP_OK" THEN TRUE ELSE s_running
      BY <1>11 DEF StartHeader
    <2>2. UNCHANGED <<s_log_path, pc>> /\ call' = [call EXCEPT ![c] = Idle] /\ call[c].at = "header"
      BY <1>11 DEF StartHeader, taskVars, Returns
    <2>3. /\ HeaderFirst' /\ (s_log_path \in DOMAIN files' \/ ~Addressable(s_log_path))
          /\ (err = "ESP_OK" => Addressable(s_log_path))
      BY <1>0, <2>1, HeaderWritten
    <2>4. Ready'
      BY <2>2, <2>3 DEF Ready, Addressable
    <2>5. \A d \in Callers : call'[d].at \in {call[d].at, "idle"}
      BY <1>0, <2>2
    <2>6. \A d \in Callers : call'[d].at # "format"
      <3>1. CASE Overlap
        BY <2>5, <3>1 DEF Headed
      <3>2. CASE ~Overlap
        BY <1>0, <1>11, <2>2, <3>2, CallerAlone DEF Continue, Calm, Ordered
      <3> QED
        BY <3>1, <3>2
    <2>7. pc = "boot" => ~s_running'
      BY <2>1, <2>3 DEF Headed, Addressable, NoPath
    <2> QED
      BY <2>2, <2>3, <2>4, <2>5, <2>6, <2>7 DEF Headed
  <1>12. ASSUME NEW c \in Callers, \/ \E n \in LogNames : StartSwitch(c, n)
                                   \/ StartCopy(c) \/ StartBackup(c)
                                   \/ DeleteCheck(c) \/ ClearStop(c)
                                   \/ DeleteErase(c) \/ ClearFormat(c)
         PROVE  ~Overlap /\ pc = "delay" /\ pc' = "delay" /\ \A d \in Callers : d # c => call'[d] = Idle
    <2>1. ~Overlap
      <3> SUFFICES ASSUME Overlap PROVE FALSE
        OBVIOUS
      <3>1. LogNames = {} /\ Ops \subseteq {"start", "stop"} /\ ~Switching
        BY DEF Calm, NoSwitch
      <3>2. ~DeleteErase(c) /\ ~ClearFormat(c)
        BY DEF Headed, DeleteErase, ClearFormat
      <3>3. ~StartCopy(c) /\ ~StartBackup(c)
        BY <3>1 DEF Switching, StartCopy, StartBackup
      <3> QED
        BY <1>12, <3>1, <3>2, <3>3 DEF DeleteCheck, ClearStop, Begin
    <2>2. Call(c) \/ Continue(c)
      BY <1>12 DEF Call, Continue
    <2> QED
      BY <2>1, <2>2, CallerAlone DEF Calm, Ordered, taskVars
  <1>13. ASSUME NEW c \in Callers, NEW n \in LogNames, StartSwitch(c, n)
         PROVE  Headed'
    <2>1. ~Overlap /\ pc' = "delay" /\ pc = "delay" /\ \A d \in Callers : d # c => call'[d] = Idle
      BY <1>12, <1>13
    <2>2. /\ UNCHANGED <<files, s_running>> /\ call[c].at = "idle"
          /\ \/ UNCHANGED <<call, s_log_path>>
             \/ call' = [call EXCEPT ![c] = [at |-> "copy", path |-> PathOf(n)]]
      BY <1>0, <1>13 DEF StartSwitch, Begin, Goes, card
    <2>3. HeaderFirst' /\ (UNCHANGED s_log_path => (Ready' <=> Ready))
      BY <1>0, <2>2 DEF HeaderFirst, Ready, Addressable
    <2>4. CASE UNCHANGED <<call, s_log_path>>
      BY <1>0, <2>1, <2>2, <2>3, <2>4 DEF Headed, Opening
    <2>5. CASE call' = [call EXCEPT ![c] = [at |-> "copy", path |-> PathOf(n)]]
      <3>1. call'[c].at = "copy"
        BY <1>0, <2>5
      <3> QED
        BY <1>0, <2>1, <2>2, <2>3, <3>1 DEF Headed, Opening
    <2> QED
      BY <2>2, <2>4, <2>5
  <1>14. ASSUME NEW c \in Callers, StartCopy(c) \/ StartBackup(c)
         PROVE  Headed'
    <2>1. ~Overlap /\ pc' = "delay" /\ pc = "delay" /\ \A d \in Callers : d # c => call'[d] = Idle
      BY <1>12, <1>14
    <2>2. UNCHANGED <<files, s_running>> /\ HeaderFirst'
      BY <1>0, <1>14 DEF StartCopy, StartBackup, card, HeaderFirst
    <2>3. \/ call'[c].at \in {"backup", "exists"}
          \/ /\ call'[c].at = "idle"
             /\ UNCHANGED s_log_path
             /\ Backup(s_log_path).len >= LogPathLen
      BY <1>0, <1>14 DEF StartCopy, StartBackup, Goes, Returns
    <2>4. Backup(s_log_path).len >= LogPathLen => ~Addressable(s_log_path)
      <3>1. s_log_path \in MainPaths
        BY DEF Typed, CallsOK
      <3>2. s_log_path = [name |-> s_log_path.name, gen |-> 0, len |-> s_log_path.len]
            /\ s_log_path.len \in Int
        BY <3>1 DEF MainPaths, LogPaths
      <3>3. ASSUME NEW l \in Int
            PROVE  Backup([name |-> s_log_path.name, gen |-> 0, len |-> l]).len = l + 2
        <4>1. 0 \in Int
          OBVIOUS
        <4>2. Backup([name |-> s_log_path.name, gen |-> 0, len |-> l]) =
                  [name |-> s_log_path.name, gen |-> 0 + 1, len |-> l + 2]
          BY <4>1, BackupIs, Zenon
        <4> QED
          BY <4>2
      <3>4. Backup(s_log_path).len = s_log_path.len + 2
        BY <3>2, <3>3
      <3> QED
        BY <3>2, <3>4 DEF Addressable, MountPointLen, PathBufLen, LogPathLen
    <2>5. CASE call'[c].at \in {"backup", "exists"}
      BY <2>1, <2>2, <2>5, <1>0 DEF Headed, Opening
    <2>6. CASE /\ call'[c].at = "idle"
               /\ UNCHANGED s_log_path
               /\ Backup(s_log_path).len >= LogPathLen
      <3>1. Ready'
        BY <2>4, <2>6 DEF Ready, Addressable
      <3> QED
        BY <1>0, <2>1, <2>2, <2>6, <3>1 DEF Headed
    <2> QED
      BY <2>3, <2>5, <2>6
  <1>15. ASSUME NEW c \in Callers, DeleteCheck(c) \/ ClearStop(c)
         PROVE  Headed'
    <2>1. ~Overlap /\ pc' = "delay" /\ pc = "delay" /\ \A d \in Callers : d # c => call'[d] = Idle
      BY <1>12, <1>15
    <2>2. /\ UNCHANGED <<files, s_log_path>> /\ call[c].at = "idle"
          /\ \/ call'[c].at = "erase" /\ UNCHANGED s_running
             \/ call'[c].at = "format" /\ s_running' = FALSE
      BY <1>0, <1>15 DEF DeleteCheck, ClearStop, Begin, Goes, card, logVars
    <2>3. HeaderFirst' /\ (Ready' <=> Ready)
      BY <1>0, <2>2 DEF HeaderFirst, Ready, Addressable
    <2>4. ~Opening
      <3>1. \A d \in Callers : d # c => call[d] = Idle
        BY <1>15, <2>1, CallerAlone DEF Call, Calm, Ordered
      <3> QED
        BY <1>0, <2>2, <3>1 DEF Opening
    <2> QED
      BY <1>0, <2>1, <2>2, <2>3, <2>4 DEF Headed
  <1>16. ASSUME NEW c \in Callers, DeleteErase(c) \/ ClearFormat(c)
         PROVE  Headed'
    <2>1. ~Overlap /\ pc' = "delay" /\ pc = "delay" /\ \A d \in Callers : d # c => call'[d] = Idle
      BY <1>12, <1>16
    <2>2. UNCHANGED <<s_running, s_log_path>> /\ call'[c] = Idle /\ call[c].at \in {"erase", "format"}
      BY <1>0, <1>16 DEF DeleteErase, ClearFormat, logVars, Returns
    <2>3. \/ files' = CardWithout(call[c].path) /\ (s_running => call[c].path # s_log_path)
          \/ files' = << >> /\ ~s_running
          \/ files' = files
      <3>1. CASE DeleteErase(c)
        BY <2>1, <3>1 DEF DeleteErase, Erase, Calm, Ordered, card
      <3>2. CASE ClearFormat(c)
        BY <3>2 DEF ClearFormat, Format, Headed
      <3> QED
        BY <1>16, <3>1, <3>2
    <2>4. HeaderFirst'
      BY <1>0, <2>3 DEF HeaderFirst, CardWithout
    <2>5. ~Opening
      <3>1. \A d \in Callers : d # c => call[d] = Idle
        BY <1>16, <2>1, CallerAlone DEF Continue, Calm, Ordered
      <3> QED
        BY <1>0, <2>2, <3>1 DEF Opening
    <2>6. s_running' => Ready'
      BY <2>1, <2>2, <2>3, <2>5 DEF Headed, Ready, CardWithout, Addressable
    <2> QED
      BY <1>0, <2>1, <2>2, <2>4, <2>6 DEF Headed
  <1>17. CASE HubStep \/ ClockSet \/ UNCHANGED vars
    <2>1. UNCHANGED <<call, s_log_path, s_running, files, pc>>
      BY <1>17 DEF HubStep, ClockSet, vars, logVars, taskVars, card
    <2>2. HeaderFirst' /\ (Ready' <=> Ready) /\ (Opening' <=> Opening)
      BY <1>0, <2>1 DEF HeaderFirst, Ready, Addressable, Opening
    <2> QED
      BY <2>1, <2>2 DEF Headed
  <1> QED
    BY <1>1, <1>3, <1>4, <1>5, <1>6, <1>7, <1>8, <1>9, <1>10, <1>11, <1>13, <1>14, <1>15, <1>16,
       <1>17 DEF Next, LoggerTask, Call, Continue

\* Every log file begins with its header row and has no other, so that a reader
\* of the CSV finds the column names first (logger.c: rotate_if_needed,
\* logger_start), as long as creating a file does not fail and the power stays.
THEOREM HeadersFirst ==
    ASSUME ~Overlap \/ (LogNames = {} /\ Ops \subseteq {"start", "stop"}),
           Faults \subseteq {"append", "rename", "erase", "format", "read"}, MaxBoots = 0
    PROVE  Spec => []HeaderFirst
  <1>1. Init => Headed
    BY DEF Init, Headed, HeaderFirst, Opening, Idle
  <1>2. Typed /\ Calm /\ Headed /\ [Next]_vars => Headed'
    BY HeadedStep
  <1>3. Spec => [](Typed /\ Calm)
    BY CalmAlways
  <1>4. Headed => HeaderFirst
    BY DEF Headed
  <1> QED
    BY <1>1, <1>2, <1>3, <1>4, PTL DEF Spec

-----------------------------------------------------------------------------
(* The order of the rows *)

InOrder(rows) ==
    \A j, k \in DOMAIN rows :
        j < k /\ rows[j].name = rows[k].name => rows[j].ts < rows[k].ts

\* t is later than the rows of channel n in the file being logged to.
LaterThanFile(n, t) == \A r \in RowSet(Rows(s_log_path)) : r.name = n => r.ts < t

Mark(n) == IF n \in DOMAIN s_state THEN s_state[n] ELSE 0

\* What the bookmarks leave to be written is later than what the file has.
Ahead == \A n \in Names : \A t \in Rings[n] : t > Mark(n) => LaterThanFile(n, t)

BatchAhead == \A t \in RowSet(batch) : LaterThanFile(Head(todo), t)

Past == \A r \in CardRows : r.ts <= now

\* After a restart the rings hold nothing that is on the card.
Beyond == \A n \in Names : \A t \in Rings[n] : \A r \in CardRows : r.ts < t

Sorted ==
    /\ RowsInOrder
    /\ Past
    /\ pc = "boot" => Beyond
    /\ pc # "boot" /\ ~Switching => Ahead
    /\ pc = "add" => found = s_state /\ Head(todo) \notin DOMAIN s_state
    /\ pc = "write" => Head(todo) \in DOMAIN s_state /\ BatchAhead
    /\ \A c \in Callers : call[c].at \in {"copy", "backup"} => call[c].path \notin DOMAIN files

\* Whatever the card does but the append leaves rows in order, and adds none.
LEMMA CardSorted ==
    ASSUME RowsInOrder,
           \/ files' \in {files, << >>}
           \/ \E p : files' \in {CardWithout(p), CardWith(p, << >>), CardWith(p, <<Header>>)}
           \/ \E old \in DOMAIN files : \E new : files' = Moved(old, new)
    PROVE  RowsInOrder' /\ CardRows' \subseteq CardRows \cup {Header}
  <1> DEFINE Good(rows) == InOrder(rows) /\ RowSet(rows) \subseteq CardRows \cup {Header}
  <1>1. \A p \in DOMAIN files : Good(files[p])
    BY DEF RowsInOrder, InOrder, CardRows
  <1>2. Good(<< >>) /\ Good(<<Header>>)
    <2>1. ASSUME NEW h PROVE <<h>>[1] = h /\ DOMAIN <<h>> = {1} /\ DOMAIN << >> = {}
      OBVIOUS
    <2> QED
      BY <2>1 DEF InOrder, RowSet
  <1>3. ASSUME \A p \in DOMAIN files' : Good(files'[p])
        PROVE  RowsInOrder' /\ CardRows' \subseteq CardRows \cup {Header}
    BY <1>3 DEF RowsInOrder, InOrder, CardRows, RowSet
  <1> HIDE DEF Good
  <1>4. \A p \in DOMAIN files' : Good(files'[p])
    <2>1. CASE files' \in {files, << >>}
      BY <1>1, <2>1
    <2>2. ASSUME NEW p, files' \in {CardWithout(p), CardWith(p, << >>), CardWith(p, <<Header>>)}
          PROVE  \A q \in DOMAIN files' : Good(files'[q])
      BY <1>1, <1>2, <2>2 DEF CardWithout, CardWith
    <2>3. ASSUME NEW old \in DOMAIN files, NEW new, files' = Moved(old, new)
          PROVE  \A q \in DOMAIN files' : Good(files'[q])
      BY <1>1, <2>3 DEF Moved
    <2> QED
      BY <2>1, <2>2, <2>3
  <1> QED
    BY <1>3, <1>4

\* The append leaves rows in order when the batch is later than the file.
LEMMA AppendSorted ==
    ASSUME Typed, RowsInOrder, Past, pc = "write", BatchAhead,
           NEW k \in 0 .. Len(batch), Extends(s_log_path, Added(k))
    PROVE  RowsInOrder' /\ \A r \in CardRows' : r.ts <= now
  <1> DEFINE r == Rows(s_log_path)
             a == Added(k)
             s == r \o a
             n == Head(todo)
  <1>1. /\ r \in Seq(RowType) /\ a \in Seq(RowType) /\ Len(a) = k
        /\ \A j \in 1 .. k : a[j] = Row(n, batch[j])
        /\ Len(r) \in Nat
    BY AddedIs, RowsType DEF Typed
  <1>2. /\ batch \in Seq(1 .. now) /\ Increasing(batch) /\ DOMAIN batch = 1 .. Len(batch)
        /\ \A j \in 1 .. Len(batch) : batch[j] \in 1 .. now
        /\ now \in Nat
    BY RingsPast DEF Typed, TaskOK
  <1>3. \A j \in 1 .. k : j \in DOMAIN batch /\ a[j].name = n /\ a[j].ts = batch[j]
    BY <1>1, <1>2 DEF Row
  <1>4. files' = CardWith(s_log_path, s)
    BY DEF Extends
  <1>5. InOrder(r) /\ \A x \in RowSet(r) : x \in CardRows
    <2>1. DOMAIN << >> = {}
      OBVIOUS
    <2> QED
      BY <2>1 DEF RowsInOrder, InOrder, Rows, CardRows, RowSet
  <1>6. \A j \in 1 .. Len(r) : \A i \in 1 .. k : r[j].name = n => r[j].ts < batch[i]
    <2>1. DOMAIN r = 1 .. Len(r)
      BY <1>1
    <2> QED
      BY <1>3, <2>1 DEF BatchAhead, LaterThanFile, RowSet
  <1> HIDE DEF r, a, n
  <1>7. /\ DOMAIN r = 1 .. Len(r) /\ DOMAIN s = 1 .. Len(r) + k
        /\ \A j \in 1 .. Len(r) : s[j] = r[j]
        /\ \A j \in 1 .. Len(r) + k :
               j \notin 1 .. Len(r) => j - Len(r) \in 1 .. k /\ s[j] = a[j - Len(r)]
    <2>0. r \in Seq(RowType) /\ a \in Seq(RowType)
      BY <1>1
    <2>1. /\ DOMAIN r = 1 .. Len(r) /\ DOMAIN (r \o a) = 1 .. Len(r) + Len(a)
          /\ \A j \in 1 .. Len(r) : (r \o a)[j] = r[j]
      BY <2>0, Concat
    <2>2. \A j \in 1 .. Len(r) + Len(a) :
               j \notin 1 .. Len(r) => j - Len(r) \in 1 .. Len(a) /\ (r \o a)[j] = a[j - Len(r)]
      BY <2>0, Concat
    <2> QED
      BY <1>1, <2>1, <2>2
  <1> HIDE DEF s
  <1>8. InOrder(s)
    <2> SUFFICES ASSUME NEW j \in 1 .. Len(r) + k, NEW i \in 1 .. Len(r) + k, j < i,
                        s[j].name = s[i].name
                 PROVE  s[j].ts < s[i].ts
      BY <1>7 DEF InOrder
    <2>1. CASE i \in 1 .. Len(r)
      <3>1. j \in 1 .. Len(r)
        BY <1>1, <2>1
      <3> QED
        BY <1>5, <1>7, <2>1, <3>1 DEF InOrder
    <2>2. CASE i \notin 1 .. Len(r) /\ j \in 1 .. Len(r)
      <3>1. /\ s[j] = r[j] /\ s[i] = a[i - Len(r)] /\ i - Len(r) \in 1 .. k
        BY <1>7, <2>2
      <3>2. s[i].name = n /\ s[i].ts = batch[i - Len(r)]
        BY <1>3, <3>1
      <3> QED
        BY <1>6, <2>2, <3>1, <3>2
    <2>3. CASE i \notin 1 .. Len(r) /\ j \notin 1 .. Len(r)
      <3> DEFINE x == j - Len(r)
                 y == i - Len(r)
      <3>1. /\ s[j] = a[x] /\ s[i] = a[y] /\ x \in 1 .. k /\ y \in 1 .. k
        BY <1>7, <2>3
      <3>2. x < y
        BY <1>1
      <3> HIDE DEF x, y
      <3>3. s[j].ts = batch[x] /\ s[i].ts = batch[y] /\ x \in DOMAIN batch /\ y \in DOMAIN batch
        BY <1>3, <3>1
      <3> QED
        BY <1>2, <3>2, <3>3 DEF Increasing
    <2> QED
      BY <2>1, <2>2, <2>3
  <1>9. \A x \in RowSet(s) : x.ts <= now
    <2> SUFFICES ASSUME NEW j \in 1 .. Len(r) + k PROVE s[j].ts <= now
      BY <1>7 DEF RowSet
    <2>1. CASE j \in 1 .. Len(r)
      BY <1>5, <1>7, <2>1 DEF RowSet, Past
    <2>2. CASE j \notin 1 .. Len(r)
      <3>1. s[j] = a[j - Len(r)] /\ j - Len(r) \in 1 .. k
        BY <1>7, <2>2
      <3>2. s[j].ts = batch[j - Len(r)] /\ batch[j - Len(r)] \in 1 .. now
        BY <1>2, <1>3, <3>1
      <3> QED
        BY <1>2, <3>2
    <2> QED
      BY <2>1, <2>2
  <1>10. \A p \in DOMAIN files' : \/ files'[p] = s
                                  \/ p \in DOMAIN files /\ files'[p] = files[p]
    BY <1>4 DEF CardWith
  <1>11. RowsInOrder'
    BY <1>8, <1>10 DEF RowsInOrder, InOrder
  <1>12. \A x \in CardRows' : x.ts <= now
    <2> SUFFICES ASSUME NEW p \in DOMAIN files', NEW x \in RowSet(files'[p]) PROVE x.ts <= now
      BY DEF CardRows, RowSet
    <2>1. x \in RowSet(s) \/ x \in CardRows
      BY <1>10 DEF CardRows
    <2> QED
      BY <1>9, <2>1 DEF Past
  <1> QED
    BY <1>11, <1>12

\* A step that adds no row but a header to the card keeps the order of things.
LEMMA SortedFrame ==
    ASSUME Typed, Sorted, [Next]_vars, UNCHANGED <<taskVars, s_state, s_log_path>>,
           RowsInOrder', CardRows' \subseteq CardRows \cup {Header},
           RowSet(Rows(s_log_path)') \subseteq RowSet(Rows(s_log_path)) \cup {Header},
           Switching => Switching',
           \A c \in Callers : call'[c].at \in {"copy", "backup"} => call'[c].path \notin DOMAIN files'
    PROVE  Sorted'
  <1>0. /\ HubOK /\ now \in Nat /\ now' \in Nat /\ now <= now'
        /\ Header.ts = 0 /\ \A n \in Names : Header.name # n
    BY Later, HubAssumption DEF Typed, Header, Row, HubAssumption
  <1>1. CardOK /\ \A r \in CardRows : r.ts \in Nat
    <2>1. \A p \in DOMAIN files : files[p] \in Seq(RowType)
      BY DEF Typed, CardOK
    <2>2. ASSUME NEW p \in DOMAIN files, NEW r \in RowSet(files[p]) PROVE r.ts \in Nat
      <3>1. r \in RowType
        BY <2>1, SeqElement DEF RowSet
      <3> QED
        BY <3>1 DEF RowType
    <2> QED
      BY <2>2 DEF Typed, CardRows
  <1>2. Past'
    BY <1>0, <1>1 DEF Sorted, Past
  <1>3. ASSUME NEW n \in Names, NEW t \in Rings'[n]
        PROVE  t \in Nat /\ t > 0 /\ (t \in Rings[n] \/ \A r \in CardRows : r.ts < t)
    <2>1. t \in Nat /\ t > 0 /\ (t \in Rings[n] \/ t > now)
      BY <1>0, RingsGrow
    <2> QED
      BY <1>0, <1>1, <2>1 DEF Sorted, Past
  <1>4. pc = "boot" => Beyond'
    <2> SUFFICES ASSUME pc = "boot", NEW n \in Names, NEW t \in Rings'[n], NEW r \in CardRows'
                 PROVE  r.ts < t
      BY DEF Beyond
    <2>1. r = Header \/ r \in CardRows
      OBVIOUS
    <2> QED
      BY <1>0, <1>3, <2>1 DEF Sorted, Beyond
  <1>5. RowSet(Rows(s_log_path)) \subseteq CardRows
    <2>1. DOMAIN << >> = {}
      OBVIOUS
    <2> QED
      BY <2>1 DEF Rows, RowSet, CardRows
  <1>6. ASSUME NEW n \in Names, NEW t, LaterThanFile(n, t)
        PROVE  \A r \in RowSet(Rows(s_log_path)') : r.name = n => r.ts < t
    BY <1>0, <1>6 DEF LaterThanFile
  <1>7. \A n \in Names : Mark(n)' = Mark(n)
    BY DEF Mark
  <1>8. Ahead => Ahead'
    <2> SUFFICES ASSUME Ahead, NEW n \in Names, NEW t \in Rings'[n], t > Mark(n)'
                 PROVE  \A r \in RowSet(Rows(s_log_path)') : r.name = n => r.ts < t
      BY DEF Ahead, LaterThanFile, RowSet
    <2>1. CASE t \in Rings[n]
      <3>1. LaterThanFile(n, t)
        BY <1>7, <2>1 DEF Ahead
      <3> QED
        BY <1>6, <3>1
    <2>2. CASE \A r \in CardRows : r.ts < t
      <3>1. LaterThanFile(n, t)
        BY <1>5, <2>2 DEF LaterThanFile
      <3> QED
        BY <1>6, <3>1
    <2> QED
      BY <1>3, <2>1, <2>2
  <1>9. pc = "write" => BatchAhead'
    <2> SUFFICES ASSUME pc = "write", NEW t \in RowSet(batch)
                 PROVE  \A r \in RowSet(Rows(s_log_path)') : r.name = Head(todo) => r.ts < t
      BY DEF taskVars, BatchAhead, LaterThanFile, RowSet
    <2>1. LaterThanFile(Head(todo), t)
      BY DEF Sorted, BatchAhead
    <2>2. Head(todo) \in Names
      BY AtHead DEF Typed, TaskOK
    <2> QED
      BY <1>6, <2>1, <2>2
  <1> QED
    BY <1>2, <1>4, <1>8, <1>9 DEF Sorted, taskVars

\* The gathering takes what is later than the file.
LEMMA GatherSorted ==
    ASSUME Typed, Sorted, ~Switching, UNCHANGED call, FlushKnown \/ AddState
    PROVE  Sorted'
  <1> DEFINE n == Head(todo)
  <1>1. /\ n \in Names /\ n \in DOMAIN s_state'
        /\ UNCHANGED <<channels, now, card, s_log_path>> /\ pc \in {"flush", "add"}
        /\ \/ /\ pc' = "write" /\ todo' = todo
              /\ RowSet(batch') = Fresh(n, s_state'[n])
           \/ pc' = "flush"
    BY Gathers DEF FlushKnown, AddState
  <1>2. Rings' = Rings
    BY <1>1, HubSame
  <1>3. \/ s_state' = s_state
        \/ /\ n \notin DOMAIN s_state
           /\ s_state' = [m \in DOMAIN s_state \cup {n} |-> IF m = n THEN 0 ELSE s_state[m]]
    <2>1. ASSUME FlushKnown PROVE s_state' = s_state
      BY <2>1 DEF FlushKnown, logVars
    <2>2. CASE AddState
      <3>1. found = s_state /\ Head(todo) \notin DOMAIN s_state
        BY <2>2 DEF AddState, Sorted
      <3> QED
        BY <2>2, <3>1 DEF AddState
    <2> QED
      BY <2>1, <2>2
  <1> HIDE DEF n
  <1>4. \A m \in Names : Mark(m)' = Mark(m)
    BY <1>3 DEF Mark
  <1>5. Ahead
    BY <1>1 DEF Sorted
  <1>6. Rows(s_log_path)' = Rows(s_log_path) /\ CardRows' = CardRows
        /\ (RowsInOrder' <=> RowsInOrder)
    BY <1>1 DEF card, Rows, CardRows, RowSet, RowsInOrder
  <1>7. \A m \in Names : \A t : LaterThanFile(m, t)' <=> LaterThanFile(m, t)
    BY <1>6 DEF LaterThanFile, RowSet
  <1>8. Ahead'
    BY <1>2, <1>4, <1>5, <1>7 DEF Ahead
  <1>9. pc' = "write" => n \in DOMAIN s_state' /\ BatchAhead'
    <2> SUFFICES ASSUME pc' = "write", NEW t \in RowSet(batch') PROVE LaterThanFile(n, t)
      BY <1>1, <1>7 DEF BatchAhead, n, RowSet
    <2>1. t \in Rings[n] /\ t > s_state'[n]
      BY <1>1 DEF Fresh
    <2>2. Mark(n) = s_state'[n]
      BY <1>1, <1>3, <1>4 DEF Mark
    <2> QED
      BY <1>1, <1>5, <2>1, <2>2 DEF Ahead
  <1>10. Past'
    BY <1>1, <1>6 DEF Sorted, Past
  <1> QED
    BY <1>1, <1>6, <1>8, <1>9, <1>10 DEF Sorted, n, card

LEMMA WriteSorted ==
    ASSUME "short" \notin Faults, Typed, Sorted, ~Switching, WriteBatch
    PROVE  Sorted'
  <1> DEFINE n == Head(todo)
             last == batch[Len(batch)]
  <1>1. /\ pc = "write" /\ pc' = "flush"
        /\ UNCHANGED <<channels, now, call, s_log_path>>
        /\ n \in DOMAIN s_state /\ BatchAhead /\ Ahead /\ RowsInOrder /\ Past
        /\ n \in Names /\ CardOK /\ s_log_path \in LogPaths /\ faults' \in Nat
    <2>1. pc = "write" /\ pc' = "flush" /\ UNCHANGED <<channels, now, call, s_log_path>>
      BY DEF WriteBatch
    <2>2. n \in Names /\ CardOK /\ s_log_path \in LogPaths /\ faults' \in Nat
      BY <2>1, AtHead, WriteEffect DEF Typed, TaskOK, CardOK, CallsOK, MainPaths
    <2> QED
      BY <2>1, <2>2 DEF Sorted
  <1>2. Rings' = Rings
    BY <1>1, HubSame
  <1>3. \A c \in Callers : call'[c].at \in {"copy", "backup"} => call'[c].path \notin DOMAIN files'
    BY <1>1 DEF Switching
  <1>4. ASSUME RowsInOrder', Past', Ahead' PROVE Sorted'
    BY <1>1, <1>3, <1>4 DEF Sorted
  <1>5. CASE UNCHANGED <<files, s_state>>
    <2>1. Rows(s_log_path)' = Rows(s_log_path) /\ CardRows' = CardRows /\ RowsInOrder'
      BY <1>1, <1>5 DEF Rows, CardRows, RowSet, RowsInOrder
    <2>2. Past' /\ Ahead'
      BY <1>1, <1>2, <1>5, <2>1 DEF Past, Ahead, LaterThanFile, RowSet, Mark
    <2> QED
      BY <1>4, <2>1, <2>2
  <1>6. ASSUME NEW k \in 0 .. Len(batch), Extends(s_log_path, Added(k)),
               s_state' = [s_state EXCEPT ![n] = last]
        PROVE  Sorted'
    <2>1. RowsInOrder' /\ Past'
      BY <1>1, <1>6, AppendSorted DEF Past
    <2>2. RowSet(Rows(s_log_path)') = RowSet(Rows(s_log_path)) \cup {Row(n, batch[j]) : j \in 1 .. k}
      <3>1. Rows(s_log_path) \o Added(k) \in Seq(RowType)
            /\ RowSet(Rows(s_log_path) \o Added(k))
                 = RowSet(Rows(s_log_path)) \cup {Row(n, batch[j]) : j \in 1 .. k}
        BY <1>1, AddedIs
      <3>2. Rows(s_log_path)' = Rows(s_log_path) \o Added(k)
        BY <1>1, <1>6, <3>1, WithRows DEF Extends, Rows
      <3> QED
        BY <3>1, <3>2
    <2>3. /\ last \in 1 .. now /\ last \in RowSet(batch) /\ now \in Nat
          /\ \A j \in 1 .. k : batch[j] \in RowSet(batch) /\ batch[j] \in 1 .. now /\ batch[j] <= last
      <3>1. /\ last \in 1 .. now /\ last \in RowSet(batch)
            /\ \A t \in RowSet(batch) : t \in 1 .. now /\ t <= last
        BY <1>1, LastOfBatch DEF Typed
      <3>2. \A j \in 1 .. k : batch[j] \in RowSet(batch)
        <4>1. DOMAIN batch = 1 .. Len(batch) /\ Len(batch) \in Nat
          BY DEF Typed, TaskOK
        <4> QED
          BY <4>1 DEF RowSet
      <3> QED
        BY <3>1, <3>2, RingsPast DEF Typed
    <2> HIDE DEF last
    <2>4. ASSUME NEW m \in Names, NEW t \in Rings[m], t > Mark(m)',
                 NEW r \in RowSet(Rows(s_log_path)'), r.name = m
          PROVE  r.ts < t
      <3>0. t \in 1 .. now
        BY RingsPast DEF Typed
      <3>1. CASE m # n
        <4>1. Mark(m)' = Mark(m)
          BY <1>1, <1>6, <3>1 DEF Mark
        <4>2. r \in RowSet(Rows(s_log_path))
          BY <2>2, <2>4, <3>1 DEF Row
        <4> QED
          BY <1>1, <2>4, <4>1, <4>2 DEF Ahead, LaterThanFile
      <3>2. CASE m = n
        <4>1. t > last
          BY <1>1, <1>6, <2>4, <3>2 DEF Mark
        <4>2. CASE r \in RowSet(Rows(s_log_path))
          <5>1. r.ts < last
            BY <1>1, <2>3, <2>4, <3>2, <4>2 DEF BatchAhead, LaterThanFile
          <5>2. r.ts \in Nat
            <6>1. Rows(s_log_path) \in Seq(RowType)
              BY <1>1, RowsType
            <6>2. r \in RowType
              BY <4>2, <6>1, SeqElement DEF RowSet
            <6> QED
              BY <6>2 DEF RowType
          <5> QED
            BY <2>3, <3>0, <4>1, <5>1, <5>2
        <4>3. ASSUME NEW j \in 1 .. k, r = Row(n, batch[j]) PROVE r.ts < t
          <5>1. r.ts = batch[j]
            BY <4>3 DEF Row
          <5> QED
            BY <2>3, <3>0, <4>1, <5>1
        <4> QED
          BY <2>2, <4>2, <4>3
      <3> QED
        BY <3>1, <3>2
    <2>5. Ahead'
      BY <1>2, <2>4 DEF Ahead, LaterThanFile, RowSet
    <2> QED
      BY <1>4, <2>1, <2>5
  <1> QED
    BY <1>1, <1>5, <1>6, WriteEffect

LEMMA SortedStep ==
    ASSUME "short" \notin Faults, (~Overlap /\ ~Reuse) \/ LogNames = {}
    PROVE  Typed /\ Calm /\ Calm' /\ Sorted /\ [Next]_vars => Sorted'
  <1> SUFFICES ASSUME Typed, Calm, Calm', Sorted, [Next]_vars PROVE Sorted'
    OBVIOUS
  <1>0. /\ HubOK /\ CardOK /\ now \in Nat /\ s_log_path \in LogPaths /\ s_backup_path \in LogPaths
        /\ call \in [Callers -> [at : Ats, path : LogPaths]]
        /\ Idle.at = "idle" /\ Overlap \in BOOLEAN /\ RowsInOrder
        /\ DOMAIN << >> = {}
    BY RingsPast, PathsType, LoggerAssumption
       DEF Typed, CallsOK, Ats, Idle, LoggerAssumption, Sorted
  <1>1. ASSUME UNCHANGED files
        PROVE  RowsInOrder' /\ CardRows' = CardRows
               /\ (UNCHANGED s_log_path => Rows(s_log_path)' = Rows(s_log_path))
    BY <1>0, <1>1 DEF RowsInOrder, CardRows, RowSet, Rows
  <1>2. Rings \in [Names -> SUBSET (1 .. now)]
    BY <1>0, RingsPast
  <1>3. CASE LoggerInit
    <2>1. /\ pc = "boot" /\ pc' = "delay" /\ UNCHANGED <<channels, now, files, call>>
          /\ s_state' = NoBookmarks
      BY <1>3 DEF LoggerInit, card
    <2>2. Rings' = Rings /\ RowsInOrder' /\ CardRows' = CardRows /\ Past'
      BY <1>1, <2>1, HubSame DEF Sorted, Past
    <2>3. RowSet(Rows(s_log_path)') \subseteq CardRows'
      BY <1>0 DEF Rows, RowSet, CardRows
    <2>4. Ahead'
      BY <2>1, <2>2, <2>3 DEF Sorted, Beyond, Ahead, LaterThanFile, RowSet
    <2> QED
      BY <2>1, <2>2, <2>4 DEF Sorted
  \* The steps of the task.
  <1>4. LoggerTask => ~Switching /\ s_backup_path # s_log_path /\ UNCHANGED call /\ pc # "boot"
    BY TaskSteady DEF LoggerTask, Wake, FlushKnown, FlushNew, AddState, WriteBatch, RotateCheck,
                      RotateRename, RotateHeader
  <1>5. CASE Wake \/ RotateCheck \/ FlushNew
    <2>1. /\ UNCHANGED <<channels, now, files, call, s_state, s_log_path>>
          /\ pc # "boot" /\ ~Switching
          /\ pc' \notin {"boot", "write"}
          /\ pc' = "add" => found' = s_state' /\ Head(todo') \notin DOMAIN s_state'
      BY <1>4, <1>5 DEF Wake, RotateCheck, FlushNew, logVars, card, LoggerTask
    <2>2. Rings' = Rings /\ RowsInOrder' /\ CardRows' = CardRows /\ Past'
          /\ Rows(s_log_path)' = Rows(s_log_path)
      BY <1>1, <2>1, HubSame DEF Sorted, Past
    <2>3. Ahead'
      BY <2>1, <2>2 DEF Sorted, Ahead, LaterThanFile, RowSet, Mark
    <2> QED
      BY <2>1, <2>2, <2>3 DEF Sorted
  <1>6. CASE FlushKnown \/ AddState
    BY <1>4, <1>6, GatherSorted DEF LoggerTask
  <1>7. CASE WriteBatch
    BY <1>4, <1>7, WriteSorted DEF LoggerTask
  <1>8. ASSUME RowsInOrder', CardRows' \subseteq CardRows \cup {Header}, UNCHANGED <<channels, now>>,
               pc' \in {"delay", "header"}, UNCHANGED call, ~Switching, Ahead'
        PROVE  Sorted'
    <2>1. Past'
      BY <1>0, <1>8 DEF Sorted, Past, Header, Row
    <2> QED
      BY <1>8, <2>1 DEF Sorted, Switching
  <1>9. CASE RotateRename
    <2>1. /\ UNCHANGED <<channels, now, s_log_path, s_state, call>> /\ ~Switching
          /\ s_backup_path # s_log_path /\ pc # "boot"
      BY <1>4, <1>9 DEF RotateRename, logVars, LoggerTask
    <2>2. \/ pc' = "delay" /\ UNCHANGED files
          \/ pc' = "header" /\ s_log_path \in DOMAIN files /\ files' = Moved(s_log_path, s_backup_path)
          \/ pc' = "delay" /\ files' = CardWithout(s_backup_path)
      BY <1>0, <1>9, RenameEffect DEF RotateRename, card
    <2>3. RowsInOrder' /\ CardRows' \subseteq CardRows \cup {Header}
      BY <1>0, <2>2, CardSorted
    <2>4. RowSet(Rows(s_log_path)') \subseteq RowSet(Rows(s_log_path))
      BY <1>0, <2>1, <2>2 DEF Rows, RowSet, Moved, CardWithout
    <2>5. Ahead'
      <3>1. Ahead /\ Rings' = Rings
        BY <2>1, HubSame DEF Sorted
      <3> QED
        BY <2>1, <2>4, <3>1 DEF Ahead, LaterThanFile, RowSet, Mark
    <2> QED
      BY <1>8, <2>1, <2>2, <2>3, <2>5
  <1>10. ASSUME NEW err \in Results, Write(s_log_path, <<Header>>, FALSE, err), UNCHANGED s_log_path
         PROVE  /\ RowsInOrder' /\ CardRows' \subseteq CardRows \cup {Header}
                /\ \/ UNCHANGED files /\ err = "ESP_FAIL"
                   \/ RowSet(Rows(s_log_path)') \subseteq {Header}
    <2>1. \/ UNCHANGED files /\ err = "ESP_FAIL"
          \/ \E rows \in {<< >>, <<Header>>} : files' = CardWith(s_log_path, rows)
      BY <1>0, <1>10, HeaderEffect
    <2>2. RowsInOrder' /\ CardRows' \subseteq CardRows \cup {Header}
      BY <1>0, <2>1, CardSorted
    <2>3. ASSUME NEW rows \in {<< >>, <<Header>>}, files' = CardWith(s_log_path, rows)
          PROVE  RowSet(Rows(s_log_path)') \subseteq {Header}
      <3>1. Rows(s_log_path)' = rows
        BY <1>10, <2>3 DEF CardWith, Rows
      <3>2. ASSUME NEW h PROVE <<h>>[1] = h /\ DOMAIN <<h>> = {1}
        OBVIOUS
      <3> QED
        BY <1>0, <3>1, <3>2 DEF RowSet
    <2> QED
      BY <2>1, <2>2, <2>3
  <1>11. CASE RotateHeader
    <2>1. PICK err \in Results :
             /\ Write(s_log_path, <<Header>>, FALSE, err)
             /\ s_state' = IF err = "ESP_OK" THEN NoBookmarks ELSE s_state
      BY <1>11 DEF RotateHeader
    <2>2. /\ UNCHANGED <<channels, now, s_log_path, call>> /\ ~Switching
          /\ pc # "boot" /\ pc' = "delay"
      BY <1>4, <1>11 DEF RotateHeader, LoggerTask
    <2>3. Ahead'
      <3>1. Ahead /\ Rings' = Rings
        BY <2>2, HubSame DEF Sorted
      <3>2. CASE RowSet(Rows(s_log_path)') \subseteq {Header}
        <4>1. \A n \in Names : Header.name # n
          BY HubAssumption DEF Header, Row, HubAssumption
        <4> QED
          BY <3>2, <4>1 DEF Ahead, LaterThanFile, RowSet
      <3>3. CASE UNCHANGED files /\ err = "ESP_FAIL"
        <4>1. s_state' = s_state /\ Rows(s_log_path)' = Rows(s_log_path)
          BY <1>1, <2>1, <2>2, <3>3
        <4> QED
          BY <3>1, <4>1 DEF Ahead, LaterThanFile, RowSet, Mark
      <3> QED
        BY <1>10, <2>1, <2>2, <3>2, <3>3
    <2> QED
      BY <1>8, <1>10, <2>1, <2>2, <2>3
  \* The steps of the callers.
  <1>12. ASSUME NEW c \in Callers, Call(c) \/ Continue(c)
         PROVE  /\ UNCHANGED taskVars
                /\ \A d \in Callers : d # c => call'[d] = call[d]
    <2>1. UNCHANGED taskVars
      BY <1>12 DEF Call, Continue, Begin, StartResume, StartSwitch, StartCopy, StartBackup,
         StartExists, StartHeader, Stop, DeleteCheck, ClearStop, DeleteErase, ClearFormat
    <2>2. call' = call \/ \E x : call' = [call EXCEPT ![c] = x]
      BY <1>12 DEF Call, Continue, StartResume, StartSwitch, StartCopy, StartBackup,
         StartExists, StartHeader, Stop, DeleteCheck, ClearStop, DeleteErase, ClearFormat, Goes,
         Returns
    <2> QED
      BY <1>0, <2>1, <2>2
  <1>13. ASSUME NEW c \in Callers, Call(c) \/ Continue(c), call[c].at \notin {"copy", "backup"},
                UNCHANGED <<s_state, s_log_path>>,
                RowsInOrder', CardRows' \subseteq CardRows \cup {Header},
                RowSet(Rows(s_log_path)') \subseteq RowSet(Rows(s_log_path)) \cup {Header},
                call'[c].at \notin {"copy", "backup"},
                DOMAIN files' \subseteq DOMAIN files \/ ~Switching'
         PROVE  Sorted'
    <2>1. Switching => Switching'
      BY <1>12, <1>13 DEF Switching
    <2>2. \A d \in Callers : call'[d].at \in {"copy", "backup"} => call'[d].path \notin DOMAIN files'
      BY <1>12, <1>13 DEF Switching, Sorted
    <2> QED
      BY <1>12, <1>13, <2>1, <2>2, SortedFrame
  <1>14. ASSUME NEW c \in Callers, \/ StartResume(c) \/ Stop(c) \/ DeleteCheck(c) \/ ClearStop(c)
                                   \/ StartExists(c)
         PROVE  Sorted'
    <2>1. /\ Call(c) \/ Continue(c)
          /\ UNCHANGED <<s_state, s_log_path, files>>
          /\ call[c].at \in {"idle", "exists"}
      BY <1>0, <1>14 DEF Call, Continue, Begin, StartResume, Stop, DeleteCheck, ClearStop, StartExists,
                   card, logVars
    <2>2. \/ call' = call
          \/ \E at \in {"exists", "erase", "format", "header"} : \E path :
                call' = [call EXCEPT ![c] = [at |-> at, path |-> path]]
          \/ call' = [call EXCEPT ![c] = Idle]
      BY <1>14 DEF StartResume, Stop, DeleteCheck, ClearStop, StartExists, Goes, Returns
    <2>3. call'[c].at \notin {"copy", "backup"}
      BY <1>0, <2>1, <2>2
    <2> QED
      BY <1>1, <1>13, <2>1, <2>3
  <1>15. ASSUME NEW c \in Callers, StartHeader(c)
         PROVE  Sorted'
    <2>1. PICK err \in Results : Write(s_log_path, <<Header>>, FALSE, err)
      BY <1>15 DEF StartHeader
    <2>2. /\ Continue(c) /\ UNCHANGED <<s_state, s_log_path>> /\ call[c].at = "header"
          /\ call' = [call EXCEPT ![c] = Idle]
      BY <1>15 DEF StartHeader, Continue, Returns
    <2>3. call'[c].at = "idle"
      BY <1>0, <2>2
    <2>4. ~Switching'
      <3>1. CASE Overlap
        BY <3>1 DEF Calm, NoSwitch
      <3>2. CASE ~Overlap
        <4>1. \A d \in Callers : d # c => call'[d] = Idle
          BY <2>2, <3>2, CallerAlone DEF Calm, Ordered
        <4> QED
          BY <1>0, <2>3, <4>1 DEF Switching
      <3> QED
        BY <3>1, <3>2
    <2>5. RowsInOrder' /\ CardRows' \subseteq CardRows \cup {Header}
          /\ RowSet(Rows(s_log_path)') \subseteq RowSet(Rows(s_log_path)) \cup {Header}
      BY <1>1, <1>10, <2>1, <2>2
    <2> QED
      BY <1>13, <2>2, <2>3, <2>4, <2>5
  <1>16. ASSUME NEW c \in Callers, DeleteErase(c) \/ ClearFormat(c)
         PROVE  Sorted'
    <2>1. /\ Continue(c) /\ UNCHANGED <<s_state, s_log_path>> /\ call[c].at \in {"erase", "format"}
          /\ call' = [call EXCEPT ![c] = Idle]
          /\ files' = CardWithout(call[c].path) \/ files' \in {files, << >>}
      BY <1>16 DEF DeleteErase, ClearFormat, Continue, Returns, logVars, Erase, Format, card
    <2>2. call'[c].at = "idle"
      BY <1>0, <2>1
    <2>3. RowsInOrder' /\ CardRows' \subseteq CardRows \cup {Header}
      BY <1>0, <2>1, CardSorted
    <2>4. /\ DOMAIN files' \subseteq DOMAIN files
          /\ RowSet(Rows(s_log_path)') \subseteq RowSet(Rows(s_log_path))
      BY <1>0, <2>1 DEF CardWithout, Rows, RowSet
    <2> QED
      BY <1>13, <2>1, <2>2, <2>3, <2>4
  <1>17. ASSUME NEW c \in Callers, NEW n \in LogNames, StartSwitch(c, n)
         PROVE  Sorted'
    <2>0. ~Overlap /\ ~Reuse /\ Call(c) /\ UNCHANGED <<files, s_state, channels, now>>
          /\ call[c].at = "idle" /\ pc = "delay" /\ pc' = "delay"
      BY <1>0, <1>17 DEF StartSwitch, Call, Begin, Quiet, card, taskVars
    <2>1. CASE UNCHANGED <<call, s_log_path>>
      BY <1>1, <1>13, <2>0, <2>1
    <2>2. CASE call' = [call EXCEPT ![c] = [at |-> "copy", path |-> PathOf(n)]]
      <3>1. call'[c].at = "copy" /\ call'[c].path = PathOf(n) /\ PathOf(n) \notin DOMAIN files
        BY <1>0, <1>17, <2>0, <2>2 DEF StartSwitch
      <3>2. Switching' /\ \A d \in Callers : d # c => call'[d] = call[d]
        BY <1>12, <2>0, <3>1 DEF Switching
      <3>3. RowsInOrder' /\ Past'
        BY <1>1, <2>0 DEF Sorted, Past
      <3> QED
        BY <2>0, <3>1, <3>2, <3>3 DEF Sorted
    <2> QED
      BY <1>17, <2>1, <2>2 DEF StartSwitch, Goes
  <1>18. ASSUME NEW c \in Callers, StartCopy(c) \/ StartBackup(c)
         PROVE  Sorted'
    <2>1. ~Overlap /\ Continue(c) /\ UNCHANGED <<files, channels, now>>
      BY <1>18 DEF Calm, NoSwitch, Switching, StartCopy, StartBackup, Continue, card
    <2>2. pc = "delay" /\ pc' = "delay" /\ \A d \in Callers : d # c => call'[d] = Idle
      BY <2>1, CallerAlone DEF Calm, Ordered, taskVars
    <2>3. call[c].path \notin DOMAIN files
      BY <1>18 DEF Sorted, StartCopy, StartBackup
    <2>4. RowsInOrder' /\ Past'
      BY <1>1, <2>1 DEF Sorted, Past
    <2>5. CASE StartCopy(c)
      <3>1. call'[c].at = "backup" /\ call'[c].path = call[c].path
        BY <1>0, <2>5 DEF StartCopy, Goes
      <3>2. Switching'
        BY <3>1 DEF Switching
      <3> QED
        BY <1>0, <2>1, <2>2, <2>3, <2>4, <3>1, <3>2 DEF Sorted
    <2>6. CASE StartBackup(c)
      <3>1. s_log_path = call[c].path /\ s_log_path' = s_log_path
        BY <2>1, <2>6 DEF StartBackup, Calm, Ordered
      <3>2. Rows(s_log_path)' = << >>
        BY <2>1, <2>3, <3>1 DEF Rows
      <3>3. Ahead'
        BY <1>0, <3>2 DEF Ahead, LaterThanFile, RowSet
      <3>4. call'[c].at \in {"idle", "exists"}
        BY <1>0, <2>6 DEF StartBackup, Goes, Returns
      <3> QED
        BY <1>0, <2>2, <2>4, <3>3, <3>4 DEF Sorted
    <2> QED
      BY <1>18, <2>5, <2>6
  <1>19. CASE PowerLoss
    <2>1. /\ pc' = "boot" /\ call' = [c \in Callers |-> Idle] /\ now' = now
          /\ Rings' = [n \in Names |-> {}]
      BY <1>0, <1>19, HubRestart DEF PowerLoss
    <2>2. RowsInOrder' /\ Past'
      <3>1. ASSUME RowsInOrder', CardRows' \subseteq CardRows \cup {Header} PROVE Past'
        BY <1>0, <2>1, <3>1 DEF Sorted, Past, Header, Row
      <3>2. CASE UNCHANGED files
        BY <1>0, <3>1, <3>2, CardSorted
      <3>3. ASSUME pc = "write", NEW k \in 0 .. Len(batch), Extends(s_log_path, Added(k))
            PROVE  RowsInOrder' /\ Past'
        BY <2>1, <3>3, AppendSorted DEF Sorted, Past
      <3>4. CASE files' = CardWithout(s_backup_path)
        BY <1>0, <3>1, <3>4, CardSorted
      <3>5. CASE files' = CardWith(s_log_path, << >>)
        BY <1>0, <3>1, <3>5, CardSorted
      <3> QED
        BY <1>19, <3>2, <3>3, <3>4, <3>5 DEF PowerLoss, Interrupted, Extends, Added
    <2> QED
      BY <1>0, <2>1, <2>2 DEF Sorted, Beyond
  <1>20. CASE HubStep \/ ClockSet \/ UNCHANGED vars
    <2>1. UNCHANGED <<taskVars, s_state, s_log_path, call, files>>
      BY <1>20 DEF HubStep, ClockSet, vars, logVars, card
    <2>2. \A c \in Callers : call'[c].at \in {"copy", "backup"} => call'[c].path \notin DOMAIN files'
      BY <2>1 DEF Sorted
    <2>3. Switching' <=> Switching
      BY <2>1 DEF Switching
    <2> QED
      BY <1>1, <2>1, <2>2, <2>3, SortedFrame
  <1> QED
    BY <1>3, <1>5, <1>6, <1>7, <1>9, <1>11, <1>14, <1>15, <1>16, <1>17, <1>18, <1>19, <1>20
       DEF Next, LoggerTask, Call, Continue

\* In every file the rows of a channel come in the order of their times and none
\* twice, through rotations, switches, restarts and failed writes (logger.c:
\* flush_channel and its bookmarks).  Needed: a cut-short write does not happen,
\* as the retry would repeat what it left, and logger_start is not given the
\* name of an existing file, as the bookmarks start from nothing there.
THEOREM RowsOrdered ==
    ASSUME "short" \notin Faults, (~Overlap /\ ~Reuse) \/ LogNames = {}
    PROVE  Spec => []RowsInOrder
  <1>1. Init => Sorted
    <2> SUFFICES ASSUME Init PROVE Sorted
      OBVIOUS
    <2>1. Rings = [n \in Names |-> {}]
      BY HubAtInit DEF Init
    <2>2. DOMAIN files = {} /\ CardRows = {}
      BY DEF Init, CardRows
    <2>3. pc = "boot" /\ \A c \in Callers : call[c].at = "idle"
      BY DEF Init, Idle
    <2> QED
      BY <2>1, <2>2, <2>3 DEF Sorted, RowsInOrder, Past, Beyond
  <1>2. Typed /\ Calm /\ Calm' /\ Sorted /\ [Next]_vars => Sorted'
    BY SortedStep
  <1>3. Spec => [](Typed /\ Calm)
    BY CalmAlways
  <1>4. Sorted => RowsInOrder
    BY DEF Sorted
  <1> QED
    BY <1>1, <1>2, <1>3, <1>4, PTL DEF Spec

\* A log file can be read back: both of the above.
THEOREM FilesWellFormed ==
    ASSUME (~Overlap /\ ~Reuse) \/ (LogNames = {} /\ Ops \subseteq {"start", "stop"}),
           Faults \subseteq {"append", "rename", "erase", "format", "read"}, MaxBoots = 0
    PROVE  Spec => []WellFormed
  <1>1. Spec => []HeaderFirst
    BY HeadersFirst
  <1>2. Spec => []RowsInOrder
    <2>1. "short" \notin Faults
      OBVIOUS
    <2> QED
      BY <2>1, RowsOrdered
  <1> QED
    BY <1>1, <1>2, PTL DEF WellFormed

-----------------------------------------------------------------------------
(* The cap on a file *)

\* Rows a flush of l channels may add at most.
Room(l) == HistoryLen * l

Cap == MaxRows + Room(Cardinality(Names))

LEMMA RoomIs ==
    /\ \A l \in Nat : Room(l) \in Nat
    /\ \A l \in Nat \ {0} : Room(l) = Room(l - 1) + HistoryLen
    /\ \A l, m \in Nat : l <= m => Room(l) <= Room(m)
  <1> USE HubAssumption DEF HubAssumption
  <1>1. ASSUME NEW h \in Nat, NEW l \in Nat
        PROVE  h * l \in Nat
    OBVIOUS
  <1>2. ASSUME NEW h \in Nat, NEW l \in Nat \ {0}
        PROVE  h * l = h * (l - 1) + h
    OBVIOUS
  <1>3. ASSUME NEW h \in Nat, NEW l \in Nat, NEW m \in Nat, l <= m
        PROVE  h * l <= h * m
    <2>1. h * (m - l) \in Nat
      BY <1>1, <1>3
    <2>2. h * m = h * l + h * (m - l)
      OBVIOUS
    <2>3. h * l \in Nat
      BY <1>1
    <2> QED
      BY <2>1, <2>2, <2>3
  <1>4. HistoryLen \in Nat
    OBVIOUS
  <1> QED
    BY <1>1, <1>2, <1>3, <1>4 DEF Room

\* A cycle comes to every channel once.
LEMMA CycleFits ==
    ASSUME HubOK, IsFiniteSet(Names), Wake
    PROVE  Len(todo') \in Nat /\ Len(todo') <= Cardinality(Names)
  <1> DEFINE l == ListChannels(MaxChannels)
             f == [j \in 1 .. Len(l) |-> l[j].name]
  <1>1. /\ l \in Seq([name : Names, latest : 0 .. MaxTime])
        /\ \A j, k \in DOMAIN l : l[j].name = l[k].name => j = k
    <2>1. Lists(l)
      BY Listing DEF HubOK
    <2> QED
      BY <2>1 DEF Lists
  <1>2. todo' = [j \in DOMAIN l |-> l[j].name]
    BY DEF Wake
  <1> HIDE DEF l
  <1>3. /\ DOMAIN l = 1 .. Len(l) /\ Len(l) \in Nat
        /\ \A j \in 1 .. Len(l) : l[j].name \in Names
    <2>1. \A j \in DOMAIN l : l[j] \in [name : Names, latest : 0 .. MaxTime]
      BY <1>1, SeqElement
    <2> QED
      BY <1>1, <2>1
  <1>4. Len(todo') = Len(l)
    BY <1>2, <1>3
  <1>5. f \in [1 .. Len(l) -> Names] /\ \A j \in 1 .. Len(l) : f[j] = l[j].name
    BY <1>3
  <1> HIDE DEF f
  <1>6. Cardinality(Names) \in Nat
    BY FS_CardinalityType
  <1>7. IsFiniteSet(1 .. Len(l)) /\ Cardinality(1 .. Len(l)) = Len(l)
    <2>1. 1 \in Int /\ Len(l) \in Int
      BY <1>3
    <2>2. /\ IsFiniteSet(1 .. Len(l))
          /\ Cardinality(1 .. Len(l)) = IF 1 > Len(l) THEN 0 ELSE Len(l) - 1 + 1
      BY <2>1, FS_Interval
    <2> QED
      BY <1>3, <2>2
  <1>8. ~(Cardinality(Names) < Len(l))
    <2> SUFFICES ASSUME Cardinality(Names) < Len(l) PROVE FALSE
      OBVIOUS
    <2>1. \E x, y \in 1 .. Len(l) : x # y /\ f[x] = f[y]
      BY <1>5, <1>7, FS_PigeonHole
    <2> QED
      BY <1>1, <1>3, <1>5, <2>1
  <1> QED
    BY <1>3, <1>4, <1>6, <1>8

\* A file the cap is for: a backup, or one that can have a backup.
Limited(p) == p.gen = 1 \/ Addressable(Backup(p))

\* While nothing has failed, a limited file that is no backup is below the size
\* to rotate at, but for the one being flushed, which has room for the rest of
\* the cycle.
Capped ==
    /\ \A p \in DOMAIN files : Addressable(p)
    /\ pc = "rename" => Exists(s_log_path)
    /\ faults = 0 =>
          /\ \A p \in DOMAIN files : Limited(p) =>
                /\ Len(files[p]) < Cap
                /\ \/ Len(files[p]) < MaxRows
                   \/ p.gen # 0
                   \/ p = s_log_path /\ pc \in {"flush", "add", "write", "rename"}
          /\ pc \in {"flush", "add", "write"} /\ Limited(s_log_path) =>
                Len(Rows(s_log_path)) + Room(Len(todo)) < Cap

LEMMA CappedStep ==
    ASSUME ~Overlap, MaxBoots = 0, IsFiniteSet(Names)
    PROVE  Typed /\ Ordered /\ Ordered' /\ Capped /\ [Next]_vars => Capped'
  <1> SUFFICES ASSUME Typed, Ordered, Ordered', Capped, [Next]_vars PROVE Capped'
    OBVIOUS
  <1>a. \A p : (Addressable(p)' <=> Addressable(p)) /\ (Limited(p)' <=> Limited(p))
    BY DEF Limited, Addressable, Backup
  <1>0. /\ CardOK /\ s_log_path \in LogPaths /\ s_backup_path \in LogPaths
        /\ s_log_path \in MainPaths
        /\ call \in [Callers -> [at : Ats, path : LogPaths]]
        /\ Idle.at = "idle" /\ boots \in Nat /\ faults \in Nat
        /\ MaxRows \in Nat /\ MaxRows > 1 /\ HistoryLen \in Nat /\ Cap \in Nat /\ MaxRows <= Cap
        /\ OneAtATime
    <2>1. MaxRows \in Nat /\ MaxRows > 1 /\ HistoryLen \in Nat
      BY LoggerAssumption, HubAssumption DEF LoggerAssumption, HubAssumption
    <2>2. Room(Cardinality(Names)) \in Nat
      BY RoomIs, FS_CardinalityType
    <2>3. Cap \in Nat /\ MaxRows <= Cap
      BY <2>1, <2>2 DEF Cap
    <2> QED
      BY <2>1, <2>3, PathsType DEF Typed, CallsOK, Ats, Idle, FlagsOK, CardOK, Ordered
  <1>1. ~PowerLoss
    BY <1>0 DEF PowerLoss
  <1>2. \A p \in DOMAIN files : Len(files[p]) \in Nat
    BY <1>0 DEF CardOK
  <1>3. Len(Rows(s_log_path)) \in Nat /\ Len(<< >>) = 0 /\ \A h : Len(<<h>>) = 1
    <2>1. Rows(s_log_path) \in Seq(RowType)
      BY <1>0, RowsType
    <2> QED
      BY <2>1
  <1>4. Len(todo) \in Nat /\ Room(Len(todo)) \in Nat
    <2>1. todo \in Seq(Names)
      BY DEF Typed, TaskOK
    <2> QED
      BY <2>1, RoomIs
  \* The steps of the task: nobody else is under way.
  <1>5. LoggerTask => /\ ~Switching /\ UNCHANGED <<call, s_log_path>> /\ pc # "boot" /\ pc' # "boot"
                      /\ s_backup_path = Backup(s_log_path) /\ s_backup_path # s_log_path
    <2>1. LoggerTask => pc # "boot" /\ pc' # "boot" /\ UNCHANGED <<call, s_log_path>>
      BY DEF LoggerTask, Wake, FlushKnown, FlushNew, AddState, WriteBatch, RotateCheck,
             RotateRename, RotateHeader, Gather, logVars
    <2>2. Calm
      BY DEF Calm
    <2> QED
      BY <2>1, <2>2, TaskSteady
  <1>7. CASE Wake
    <2>1. /\ pc = "delay" /\ pc' = "flush" /\ UNCHANGED <<files, faults, s_log_path, call>>
          /\ Len(todo') \in Nat /\ Len(todo') <= Cardinality(Names)
      BY <1>7, CycleFits DEF Wake, card, logVars, Typed
    <2>2. Room(Len(todo')) <= Room(Cardinality(Names)) /\ Room(Len(todo')) \in Nat
          /\ Room(Cardinality(Names)) \in Nat
      BY <2>1, RoomIs, FS_CardinalityType
    <2>3. faults = 0 /\ Limited(s_log_path) => Len(Rows(s_log_path)) < MaxRows
      <3>1. s_log_path.gen = 0
        BY <1>0 DEF MainPaths
      <3> QED
        BY <1>0, <1>3, <2>1, <3>1 DEF Capped, Rows
    <2>4. Rows(s_log_path)' = Rows(s_log_path)
      BY <2>1 DEF Rows
    <2>5. faults = 0 /\ Limited(s_log_path) => Len(Rows(s_log_path)) + Room(Len(todo')) < Cap
      BY <1>0, <1>3, <2>2, <2>3 DEF Cap
    <2> QED
      BY <1>a, <2>1, <2>4, <2>5 DEF Capped, Cap, Room
  <1>8. CASE FlushKnown \/ FlushNew \/ AddState
    <2>1. /\ pc \in {"flush", "add"} /\ pc' \in {"flush", "add", "write"}
          /\ UNCHANGED <<files, faults, s_log_path, call>>
          /\ todo' = todo \/ todo' = Tail(todo)
          /\ todo # << >>
      BY <1>8 DEF FlushKnown, FlushNew, AddState, Gather, card, logVars, Typed, TaskOK
    <2>2. Len(todo') \in {Len(todo), Len(todo) - 1} /\ Len(todo) > 0
      <3>1. todo \in Seq(Names)
        BY DEF Typed, TaskOK
      <3> QED
        BY <2>1, <3>1
    <2>3. Room(Len(todo')) <= Room(Len(todo)) /\ Room(Len(todo')) \in Nat
      <3>1. Len(todo') \in Nat /\ Len(todo') <= Len(todo)
        BY <1>4, <2>2
      <3> QED
        BY <1>4, <3>1, RoomIs
    <2>4. Rows(s_log_path)' = Rows(s_log_path)
      BY <2>1 DEF Rows
    <2>5. faults = 0 /\ Limited(s_log_path) => Len(Rows(s_log_path)) + Room(Len(todo')) < Cap
      BY <1>0, <1>3, <1>4, <2>1, <2>3 DEF Capped
    <2> QED
      BY <1>a, <2>1, <2>4, <2>5 DEF Capped, Cap, Room
  <1>9. CASE WriteBatch
    <2>1. /\ pc = "write" /\ pc' = "flush" /\ todo' = Tail(todo) /\ todo # << >>
          /\ faults' \in {faults, faults + 1} /\ faults' \in Nat /\ UNCHANGED <<s_log_path, call>>
      <3>1. /\ pc = "write" /\ pc' = "flush" /\ todo' = Tail(todo) /\ todo # << >>
            /\ faults' \in {faults, faults + 1}
        BY <1>9, WriteEffect
      <3>2. UNCHANGED <<s_log_path, call>>
        BY <1>9 DEF WriteBatch
      <3> QED
        BY <1>0, <3>1, <3>2
    <2>2. Room(Len(todo)) = Room(Len(todo')) + HistoryLen /\ Room(Len(todo')) \in Nat
      <3>1. todo \in Seq(Names)
        BY DEF Typed, TaskOK
      <3>2. Len(todo) \in Nat \ {0} /\ Len(todo') = Len(todo) - 1
        BY <2>1, <3>1
      <3> QED
        BY <3>2, RoomIs
    <2>3. faults' = 0 => faults = 0
      BY <1>0, <2>1
    <2>4. CASE UNCHANGED files
      <3>1. Rows(s_log_path)' = Rows(s_log_path)
        BY <2>1, <2>4 DEF Rows
      <3>2. faults = 0 /\ Limited(s_log_path) => Len(Rows(s_log_path)) + Room(Len(todo')) < Cap
        BY <1>0, <1>3, <2>1, <2>2 DEF Capped
      <3> QED
        BY <1>a, <2>1, <2>3, <2>4, <3>1, <3>2 DEF Capped, Cap, Room
    <2>5. ASSUME NEW k \in 0 .. Len(batch), Extends(s_log_path, Added(k)), Addressable(s_log_path)
          PROVE  Capped'
      <3>1. /\ DOMAIN files' = DOMAIN files \cup {s_log_path}
            /\ \A q \in DOMAIN files : q # s_log_path => files'[q] = files[q]
            /\ files'[s_log_path] = Rows(s_log_path) \o Added(k)
            /\ Rows(s_log_path)' = Rows(s_log_path) \o Added(k)
        <4>1. Rows(s_log_path) \o Added(k) \in Seq(RowType)
          BY <2>1, AddedIs
        <4>2. \A q : q = s_log_path => Rows(q)' = Rows(q) \o Added(k)
          BY <1>0, <2>1, <2>5, <4>1, WithRows DEF Extends
        <4> QED
          BY <1>0, <2>1, <2>5, <4>1, WithRows DEF Extends, Rows
      <3>2. Len(Rows(s_log_path) \o Added(k)) = Len(Rows(s_log_path)) + k /\ k <= HistoryLen
            /\ k \in Nat
        <4>1. Rows(s_log_path) \in Seq(RowType) /\ Added(k) \in Seq(RowType) /\ Len(Added(k)) = k
          BY <1>0, <2>1, AddedIs, RowsType
        <4>2. Len(batch) \in Nat /\ Len(batch) <= HistoryLen
          BY <2>1 DEF Typed, TaskOK
        <4>3. Len(Rows(s_log_path) \o Added(k)) = Len(Rows(s_log_path)) + k
          BY <4>1, Concat
        <4>4. HistoryLen \in Nat
          BY <1>0
        <4> QED
          BY <4>2, <4>3, <4>4
      <3>3. faults = 0 /\ Limited(s_log_path) => Len(Rows(s_log_path)) + k + Room(Len(todo')) < Cap
        <4>1. faults = 0 /\ Limited(s_log_path) => Len(Rows(s_log_path)) + Room(Len(todo)) < Cap
          BY <2>1 DEF Capped
        <4> QED
          BY <1>0, <1>3, <2>2, <3>2, <4>1
      <3>4. faults' = 0 /\ Limited(s_log_path) =>
                /\ Len(Rows(s_log_path)') + Room(Len(todo')) < Cap
                /\ Len(files'[s_log_path]) < Cap
        BY <1>0, <1>3, <2>2, <2>3, <3>1, <3>2, <3>3
      <3>5. faults' = 0 =>
               \A p \in DOMAIN files' : Limited(p) =>
                  /\ Len(files'[p]) < Cap
                  /\ Len(files'[p]) < MaxRows \/ p.gen # 0 \/ p = s_log_path
        BY <2>1, <2>3, <3>1, <3>4 DEF Capped
      <3>6. \A p \in DOMAIN files' : Addressable(p)
        BY <2>5, <3>1 DEF Capped
      <3> QED
        BY <1>a, <2>1, <3>4, <3>5, <3>6 DEF Capped, Room, Cap
    <2> QED
      BY <1>9, <2>4, <2>5, WriteEffect
  <1>10. CASE RotateCheck
    <2>1. /\ pc = "flush" /\ pc' \in {"rename", "delay"} /\ UNCHANGED <<files, faults, s_log_path, call>>
          /\ pc' = "rename" => Exists(s_log_path)
          /\ pc' = "delay" => ~(Exists(s_log_path) /\ Len(files[s_log_path]) >= MaxRows)
      BY <1>10 DEF RotateCheck, card, logVars, FileSize
    <2>2. pc' = "delay" /\ s_log_path \in DOMAIN files => Len(files[s_log_path]) < MaxRows
      BY <1>0, <1>2, <2>1 DEF Exists, Capped
    <2>3. Exists(s_log_path)' <=> Exists(s_log_path)
      BY <2>1 DEF Exists, Addressable
    <2> QED
      BY <1>a, <2>1, <2>2, <2>3 DEF Capped, Cap, Room
  <1>11. CASE RotateRename
    <2>1. /\ pc = "rename" /\ pc' \in {"header", "delay"} /\ UNCHANGED <<s_log_path, call>>
          /\ s_backup_path = Backup(s_log_path) /\ s_backup_path # s_log_path
          /\ Exists(s_log_path) /\ s_log_path \in DOMAIN files /\ s_log_path.gen = 0
      BY <1>0, <1>5, <1>11 DEF RotateRename, logVars, LoggerTask, Capped, Exists, MainPaths
    <2>2. Limited(s_log_path) <=> Addressable(s_backup_path)
      BY <2>1 DEF Limited
    <2>3. s_backup_path.gen = 1
      <3>1. s_log_path = [name |-> s_log_path.name, gen |-> 0, len |-> s_log_path.len]
            /\ s_log_path.len \in Int
        BY <1>0 DEF MainPaths, LogPaths
      <3>2. ASSUME NEW l \in Int
            PROVE  Backup([name |-> s_log_path.name, gen |-> 0, len |-> l]).gen = 1
        <4>1. 0 \in Int
          OBVIOUS
        <4>2. Backup([name |-> s_log_path.name, gen |-> 0, len |-> l]) =
                  [name |-> s_log_path.name, gen |-> 0 + 1, len |-> l + 2]
          BY <4>1, BackupIs, Zenon
        <4> QED
          BY <4>2
      <3> QED
        BY <2>1, <3>1, <3>2
    <2>4. \/ /\ files' = Moved(s_log_path, s_backup_path) /\ faults' = faults /\ pc' = "header"
             /\ Addressable(s_backup_path)
          \/ files' \in {files, CardWithout(s_backup_path)} /\ faults' = faults + 1
          \/ /\ files' = files /\ faults' = faults /\ pc' = "delay"
             /\ ~Addressable(s_backup_path)
      <3>1. PICK err \in Results :
               /\ Rename(s_log_path, s_backup_path, err)
               /\ pc' = IF err = "ESP_OK" THEN "header" ELSE "delay"
        BY <1>11 DEF RotateRename
      <3> QED
        BY <1>0, <2>1, <3>1, RenameEffect DEF Exists, card
    <2>5. CASE /\ files' = Moved(s_log_path, s_backup_path) /\ faults' = faults /\ pc' = "header"
               /\ Addressable(s_backup_path)
      <3>1. \A p \in DOMAIN files' :
               \/ p \in DOMAIN files /\ p # s_log_path /\ files'[p] = files[p]
               \/ p = s_backup_path /\ files'[p] = files[s_log_path]
        BY <2>5 DEF Moved
      <3>2. faults' = 0 => \A p \in DOMAIN files' : Limited(p) =>
                              /\ Len(files'[p]) < Cap
                              /\ Len(files'[p]) < MaxRows \/ p.gen # 0
        BY <2>1, <2>2, <2>3, <2>5, <3>1 DEF Capped
      <3>3. \A p \in DOMAIN files' : Addressable(p)
        BY <2>5, <3>1 DEF Capped
      <3> QED
        BY <1>a, <2>5, <3>2, <3>3 DEF Capped, Cap, Room
    <2>6. CASE files' \in {files, CardWithout(s_backup_path)} /\ faults' = faults + 1
      <3>1. faults' # 0 /\ pc' # "rename"
        BY <1>0, <2>1, <2>6
      <3>2. \A p \in DOMAIN files' : Addressable(p)
        BY <2>6 DEF Capped, CardWithout
      <3> QED
        BY <1>a, <3>1, <3>2 DEF Capped
    <2>7. CASE /\ files' = files /\ faults' = faults /\ pc' = "delay"
               /\ ~Addressable(s_backup_path)
      BY <1>a, <2>1, <2>2, <2>7 DEF Capped, Cap, Room
    <2> QED
      BY <2>4, <2>5, <2>6, <2>7
  \* A step that leaves the files as they are, removes some, or writes a header.
  <1>12. ASSUME pc' = "delay", pc \in {"delay", "header"}, faults' = 0 => faults = 0,
                \A p \in DOMAIN files' :
                    \/ p \in DOMAIN files /\ files'[p] = files[p]
                    \/ Addressable(p) /\ Len(files'[p]) \in {0, 1}
         PROVE  Capped'
    <2>1. \A p \in DOMAIN files' : Addressable(p)
      BY <1>12 DEF Capped
    <2>3. faults' = 0 => \A p \in DOMAIN files' : Limited(p) =>
                            /\ Len(files'[p]) < Cap
                            /\ Len(files'[p]) < MaxRows \/ p.gen # 0
      <3> SUFFICES ASSUME faults' = 0, NEW p \in DOMAIN files', Limited(p)
                   PROVE  /\ Len(files'[p]) < Cap
                          /\ Len(files'[p]) < MaxRows \/ p.gen # 0
        OBVIOUS
      <3>1. CASE p \in DOMAIN files /\ files'[p] = files[p]
        BY <1>12, <3>1 DEF Capped
      <3>2. CASE Len(files'[p]) \in {0, 1}
        <4>1. \A x \in {0, 1} : x < Cap /\ x < MaxRows
          BY <1>0
        <4> QED
          BY <3>2, <4>1
      <3> QED
        BY <1>12, <3>1, <3>2
    <2> QED
      BY <1>a, <1>12, <2>1, <2>3 DEF Capped, Cap, Room
  <1>13. ASSUME NEW err \in Results, Write(s_log_path, <<Header>>, FALSE, err)
         PROVE  /\ faults' = 0 => faults = 0
                /\ \A p \in DOMAIN files' :
                      \/ p \in DOMAIN files /\ files'[p] = files[p]
                      \/ Addressable(p) /\ Len(files'[p]) \in {0, 1}
    <2>1. /\ faults' \in {faults, faults + 1}
          /\ \/ UNCHANGED files
             \/ /\ Addressable(s_log_path)
                /\ \E rows \in {<< >>, <<Header>>} : files' = CardWith(s_log_path, rows)
      BY <1>0, <1>13, HeaderEffect
    <2>2. faults' = 0 => faults = 0
      BY <1>0, <2>1
    <2>3. \A rows \in {<< >>, <<Header>>} : Len(rows) \in {0, 1}
      BY <1>3
    <2> QED
      BY <2>1, <2>2, <2>3 DEF CardWith
  <1>14. CASE RotateHeader
    <2>1. pc = "header" /\ pc' = "delay"
      BY <1>14 DEF RotateHeader
    <2> QED
      BY <1>12, <1>13, <1>14, <2>1 DEF RotateHeader
  <1>15. CASE LoggerInit
    <2>1. pc = "boot" /\ pc' = "delay" /\ UNCHANGED <<files, faults>>
      BY <1>15 DEF LoggerInit, card
    <2> QED
      BY <1>a, <2>1 DEF Capped, Cap, Room
  \* The steps of the callers.
  <1>16. ASSUME NEW c \in Callers, Call(c) \/ Continue(c),
                faults' = 0 => faults = 0,
                \A p \in DOMAIN files' :
                    \/ p \in DOMAIN files /\ files'[p] = files[p]
                    \/ Addressable(p) /\ Len(files'[p]) \in {0, 1}
         PROVE  Capped'
    <2>1. pc = "delay" /\ pc' = "delay"
      BY <1>0, <1>16, CallerAlone DEF taskVars
    <2> QED
      BY <1>12, <1>16, <2>1
  <1>18. ASSUME NEW c \in Callers, \/ Call(c) \/ StartCopy(c) \/ StartBackup(c) \/ StartExists(c)
         PROVE  Capped'
    <2>1. (Call(c) \/ Continue(c)) /\ UNCHANGED <<files, faults>>
      BY <1>18 DEF Call, Continue, StartResume, StartSwitch, Stop, DeleteCheck, ClearStop,
                   StartCopy, StartBackup, StartExists, card
    <2> QED
      BY <1>16, <2>1
  <1>19. ASSUME NEW c \in Callers, StartHeader(c)
         PROVE  Capped'
    BY <1>13, <1>16, <1>19 DEF StartHeader, Continue
  <1>20. ASSUME NEW c \in Callers, DeleteErase(c) \/ ClearFormat(c)
         PROVE  Capped'
    <2>1. /\ Continue(c)
          /\ files' = CardWithout(call[c].path) \/ files' \in {files, << >>}
          /\ faults' \in {faults, faults + 1}
      BY <1>20 DEF DeleteErase, ClearFormat, Continue, Erase, Format, NoFault, Fault, card
    <2>2. faults' = 0 => faults = 0
      BY <1>0, <2>1
    <2>3. \A p \in DOMAIN files' : p \in DOMAIN files /\ files'[p] = files[p]
      <3>1. DOMAIN << >> = {}
        OBVIOUS
      <3> QED
        BY <2>1, <3>1 DEF CardWithout
    <2> QED
      BY <1>16, <2>1, <2>2, <2>3
  <1>23. CASE HubStep \/ ClockSet \/ UNCHANGED vars
    <2>1. UNCHANGED <<pc, todo, s_log_path, files, faults>>
      BY <1>23 DEF HubStep, ClockSet, vars, logVars, taskVars, card
    <2>2. /\ Rows(s_log_path)' = Rows(s_log_path)
          /\ Exists(s_log_path)' <=> Exists(s_log_path)
      BY <2>1 DEF Rows, Exists, Addressable
    <2> QED
      BY <1>a, <2>1, <2>2 DEF Capped, Cap, Room
  <1> QED
    BY <1>1, <1>7, <1>8, <1>9, <1>10, <1>11, <1>14, <1>15, <1>18, <1>19, <1>20, <1>23
       DEF Next, LoggerTask, Continue

\* While nothing fails on the card, no file that can have a backup, and no
\* backup, grows past the size to rotate at by more than one flush of every
\* channel (the comment above rotate_if_needed), for names of any length.
\* Needed: calls come while the logger task sleeps, as a switch between the
\* flush and the check of the size leaves the old file as it grew; and the power
\* stays, as a restart comes back to a file without checking its size.
THEOREM CapHolds ==
    ASSUME ~Overlap, MaxBoots = 0, IsFiniteSet(Names)
    PROVE  Spec => []SoftCap
  <1>1. Init => Capped
    <2> SUFFICES ASSUME Init PROVE Capped
      OBVIOUS
    <2>1. DOMAIN files = {} /\ pc = "boot" /\ \A c \in Callers : call[c].at = "idle"
      BY DEF Init, Idle
    <2> QED
      BY <2>1 DEF Capped
  <1>2. Typed /\ Ordered /\ Ordered' /\ Capped /\ [Next]_vars => Capped'
    BY CappedStep
  <1>3. Capped => SoftCap
    BY DEF Capped, SoftCap, Limited, Cap, Room
  <1> QED
    BY <1>1, <1>2, <1>3, OrderedAlways, PTL DEF Spec

-----------------------------------------------------------------------------
(* A download beside the logger *)

\* The request never moves the logger, so all that is proved of Spec holds of
\* the runs of DownloadSpec.
LEMMA DownloadOnLogger == DownloadSpec => Spec
  <1>1. DownloadInit => Init
    BY DEF DownloadInit
  <1>2. [DownloadNext]_<<vars, downloadVars>> => [Next]_vars
    BY DEF DownloadNext, Elsewhere, DownloadBegins, ReadChunk, ReadEnd, ReadFails, SendFails
  <1> QED
    BY <1>1, <1>2, PTL DEF DownloadSpec, Spec

\* While nobody renames, empties or removes it, a file only grows at its end.
LEMMA FileGrows ==
    ASSUME Typed, Next, NEW p \in DOMAIN files, ~Replaces(p), ~PowerLoss
    PROVE  /\ p \in DOMAIN files'
           /\ \E a \in Seq(RowType) : files'[p] = files[p] \o a
  <1>0. /\ CardOK /\ s_log_path \in LogPaths /\ s_backup_path \in LogPaths
        /\ files[p] \in Seq(RowType) /\ << >> \in Seq(RowType)
    BY PathsType DEF Typed, CallsOK, CardOK
  <1>1. ASSUME p \in DOMAIN files', files'[p] = files[p]
        PROVE  \E a \in Seq(RowType) : files'[p] = files[p] \o a
    <2>1. files[p] \o << >> = files[p]
      BY <1>0
    <2> QED
      BY <1>0, <1>1, <2>1
  <1>2. CASE WriteBatch
    <2>1. CASE UNCHANGED files
      BY <1>1, <2>1
    <2>2. ASSUME NEW k \in 0 .. Len(batch), Extends(s_log_path, Added(k)), pc = "write"
          PROVE  /\ p \in DOMAIN files'
                 /\ \E a \in Seq(RowType) : files'[p] = files[p] \o a
      <3>1. /\ Added(k) \in Seq(RowType)
            /\ Rows(s_log_path) \o Added(k) \in Seq(RowType)
        BY <2>2, AddedIs
      <3>2. faults' \in Nat
        BY <1>0, <1>2, WriteEffect DEF CardOK
      <3>3. /\ DOMAIN files' = DOMAIN files \cup {s_log_path}
            /\ files'[s_log_path] = Rows(s_log_path) \o Added(k)
            /\ p # s_log_path => files'[p] = files[p]
        BY <1>0, <2>2, <3>1, <3>2, WithRows DEF Extends
      <3>4. p = s_log_path => files'[p] = files[p] \o Added(k)
        BY <3>3 DEF Rows
      <3> QED
        BY <1>1, <3>1, <3>3, <3>4
    <2> QED
      BY <1>2, <2>1, <2>2, WriteEffect
  <1>3. CASE RotateRename
    <2>1. p # s_log_path /\ p # s_backup_path
      BY <1>3 DEF Replaces
    <2>2. \/ UNCHANGED files \/ files' = CardWithout(s_backup_path)
          \/ files' = Moved(s_log_path, s_backup_path)
      BY <1>0, <1>3, RenameEffect DEF RotateRename, card
    <2> QED
      BY <1>1, <2>1, <2>2 DEF CardWithout, Moved
  <1>4. CASE RotateHeader \/ \E c \in Callers : StartHeader(c)
    <2>1. p # s_log_path
      BY <1>4 DEF Replaces
    <2>2. PICK err \in Results : Write(s_log_path, <<Header>>, FALSE, err)
      BY <1>4 DEF RotateHeader, StartHeader
    <2>3. UNCHANGED files \/ \E rows : files' = CardWith(s_log_path, rows)
      BY <1>0, <2>2, HeaderEffect
    <2> QED
      BY <1>1, <2>1, <2>3 DEF CardWith
  <1>6. ASSUME NEW c \in Callers, DeleteErase(c)
        PROVE  p \in DOMAIN files' /\ files'[p] = files[p]
    <2>1. p # call[c].path
      BY <1>6 DEF Replaces
    <2>2. files' \in {files, CardWithout(call[c].path)}
      BY <1>6 DEF DeleteErase, Erase, card
    <2> QED
      BY <2>1, <2>2 DEF CardWithout
  <1>7. ASSUME NEW c \in Callers, ClearFormat(c) PROVE FALSE
    BY <1>7 DEF Replaces
  <1>8. CASE UNCHANGED card
    BY <1>1, <1>8 DEF card
  <1> QED
    BY <1>1, <1>2, <1>3, <1>4, <1>6, <1>7, <1>8, CardFrame DEF ChangesCard

DownloadTyped ==
    /\ dl \in [at : {"idle", "read"}, path : LogPaths, offset : Nat, sent : Seq(RowType)]
    /\ had \in Nat /\ replaced \in BOOLEAN

\* The answer so far is the beginning of the file, up to the offset.
Following ==
    /\ pc = "boot" => dl.at = "idle"
    /\ dl.at = "read" /\ ~replaced =>
          /\ dl.path \in DOMAIN files
          /\ dl.offset <= Len(files[dl.path]) /\ had <= Len(files[dl.path])
          /\ dl.sent = SubSeq(files[dl.path], 1, dl.offset)

LEMMA NoDownloadIs ==
    /\ NoDownload.at = "idle"
    /\ NoDownload \in [at : {"idle", "read"}, path : LogPaths, offset : Nat, sent : Seq(RowType)]
    /\ \A p \in LogPaths :
          [NoDownload EXCEPT !.at = "read", !.path = p] =
              [at |-> "read", path |-> p, offset |-> 0, sent |-> << >>]
  <1>1. /\ NoPath \in LogPaths /\ << >> \in Seq(RowType) /\ 0 \in Nat
        /\ NoDownload = [at |-> "idle", path |-> NoPath, offset |-> 0, sent |-> << >>]
    BY PathsType DEF NoDownload
  <1>2. ASSUME NEW p \in LogPaths
        PROVE  [NoDownload EXCEPT !.at = "read", !.path = p] =
                   [at |-> "read", path |-> p, offset |-> 0, sent |-> << >>]
    <2>1. [NoDownload EXCEPT !.at = "read", !.path = p] =
              [[NoDownload EXCEPT !.at = "read"] EXCEPT !.path = p]
      OBVIOUS
    <2>2. [NoDownload EXCEPT !.at = "read"] =
              [at |-> "read", path |-> NoPath, offset |-> 0, sent |-> << >>]
      BY <1>1
    <2>3. [[at |-> "read", path |-> NoPath, offset |-> 0, sent |-> << >>] EXCEPT !.path = p] =
              [at |-> "read", path |-> p, offset |-> 0, sent |-> << >>]
      OBVIOUS
    <2> QED
      BY <2>1, <2>2, <2>3
  <1> QED
    BY <1>1, <1>2

\* What one read returns.
LEMMA PieceIs ==
    ASSUME CardOK, DownloadTyped
    PROVE  /\ Piece \in Seq(RowType) /\ Len(Piece) \in Nat
           /\ dl.offset <= Len(Rows(dl.path)) =>
                 /\ dl.offset + Len(Piece) <= Len(Rows(dl.path))
                 /\ Piece = SubSeq(Rows(dl.path), dl.offset + 1, dl.offset + Len(Piece))
                 /\ Piece = << >> => dl.offset = Len(Rows(dl.path))
  <1> DEFINE rows == Rows(dl.path)
             last == IF dl.offset + Chunk < Len(rows) THEN dl.offset + Chunk ELSE Len(rows)
  <1>1. rows \in Seq(RowType) /\ Len(rows) \in Nat /\ dl.offset \in Nat
        /\ \A i \in 1 .. Len(rows) : rows[i] \in RowType
    BY RowsType DEF DownloadTyped
  <1>2. Chunk \in Nat \ {0}
    BY DownloadAssumption
  <1>3. last \in Nat /\ last <= Len(rows) /\ dl.offset + 1 \in 1 .. dl.offset + 1
        /\ (dl.offset < Len(rows) => dl.offset < last)
        /\ (dl.offset <= Len(rows) => dl.offset <= last)
    BY <1>1, <1>2
  <1>4. Piece = SubSeq(rows, dl.offset + 1, last)
    BY DEF Piece
  <1> HIDE DEF last, rows
  <1>5. /\ Piece \in Seq(RowType)
        /\ Len(Piece) = IF dl.offset + 1 <= last THEN last - (dl.offset + 1) + 1 ELSE 0
    <2>1. \A i \in dl.offset + 1 .. last : rows[i] \in RowType
      BY <1>1, <1>3
    <2>2. dl.offset + 1 \in Int /\ last \in Int
      BY <1>1, <1>3
    <2> QED
      BY <1>4, <2>1, <2>2, SubSeqProperties
  <1>6. dl.offset <= Len(rows) => dl.offset + Len(Piece) = last
    BY <1>1, <1>3, <1>5
  <1>7. Len(Piece) \in Nat
    BY <1>1, <1>3, <1>5
  <1>8. Piece = << >> => Len(Piece) = 0
    OBVIOUS
  <1>9. dl.offset <= Len(rows) /\ Piece = << >> => dl.offset = Len(rows)
    BY <1>1, <1>3, <1>6, <1>8
  <1> QED
    BY <1>3, <1>4, <1>5, <1>6, <1>7, <1>9 DEF rows

\* What a read gives is the beginning of what there is.
LEMMA PiecesAre ==
    ASSUME CardOK, DownloadTyped, NEW got \in Pieces
    PROVE  /\ got \in Seq(RowType) /\ Len(got) \in Nat
           /\ dl.offset <= Len(Rows(dl.path)) =>
                 /\ dl.offset + Len(got) <= Len(Rows(dl.path))
                 /\ got = SubSeq(Rows(dl.path), dl.offset + 1, dl.offset + Len(got))
  <1>1. CASE got = Piece
    BY <1>1, PieceIs
  <1>2. ASSUME NEW k \in 0 .. Len(Piece), got = SubSeq(Piece, 1, k)
        PROVE  /\ got \in Seq(RowType) /\ Len(got) \in Nat
               /\ dl.offset <= Len(Rows(dl.path)) =>
                     /\ dl.offset + Len(got) <= Len(Rows(dl.path))
                     /\ got = SubSeq(Rows(dl.path), dl.offset + 1, dl.offset + Len(got))
    <2>1. Piece \in Seq(RowType) /\ Len(Piece) \in Nat /\ k \in Nat /\ k <= Len(Piece)
      BY PieceIs
    <2>2. /\ \A j \in 1 .. k : Piece[j] \in RowType
          /\ got = [j \in 1 .. k |-> Piece[j]]
      BY <1>2, <2>1
    <2>3. got \in Seq(RowType) /\ Len(got) = k
      BY <2>1, <2>2
    <2>4. ASSUME dl.offset <= Len(Rows(dl.path))
          PROVE  /\ dl.offset + k <= Len(Rows(dl.path))
                 /\ got = SubSeq(Rows(dl.path), dl.offset + 1, dl.offset + k)
      <3> DEFINE rows == Rows(dl.path)
                 o == dl.offset
                 m == Len(Piece)
      <3>1. rows \in Seq(RowType) /\ o \in Nat /\ m \in Nat
        BY <2>1, RowsType DEF DownloadTyped
      <3>2. o + m <= Len(rows) /\ Piece = SubSeq(rows, o + 1, o + m)
        BY <2>4, PieceIs
      <3> HIDE DEF rows, o, m
      <3>3. o + k <= Len(rows)
        BY <2>1, <3>1, <3>2 DEF m
      <3>4. \A j \in 1 .. k : Piece[j] = rows[o + j]
        BY <2>1, <3>1, <3>2 DEF m
      <3>5. SubSeq(rows, o + 1, o + k) = [j \in 1 .. k |-> rows[o + j]]
        BY <2>1, <3>1, <3>3
      <3>6. got = SubSeq(rows, o + 1, o + k)
        BY <2>2, <3>4, <3>5
      <3> QED
        BY <3>3, <3>6 DEF rows, o
    <2> QED
      BY <2>1, <2>3, <2>4
  <1> QED
    BY <1>1, <1>2 DEF Pieces

LEMMA FollowingStep ==
    Typed /\ DownloadTyped /\ Following
       /\ [DownloadNext]_<<vars, downloadVars>> => DownloadTyped' /\ Following'
  <1> SUFFICES ASSUME Typed, DownloadTyped, Following,
                      [DownloadNext]_<<vars, downloadVars>>
               PROVE  DownloadTyped' /\ Following'
    OBVIOUS
  <1>0. CardOK /\ DOMAIN files \subseteq LogPaths
    BY DEF Typed, CardOK
  <1>1. CASE UNCHANGED <<vars, downloadVars>>
    BY <1>1 DEF vars, taskVars, card, downloadVars, DownloadTyped, Following, LogPaths, RowType
  <1>2. CASE Ended /\ (UNCHANGED vars \/ Elsewhere)
    BY <1>2, NoDownloadIs DEF Ended, DownloadTyped, Following
  <1>3. ASSUME NEW p \in DOMAIN files, DownloadBegins(p)
        PROVE  DownloadTyped' /\ Following'
    <2>1. /\ dl' = [at |-> "read", path |-> p, offset |-> 0, sent |-> << >>]
          /\ p \in LogPaths /\ << >> \in Seq(RowType) /\ pc # "boot"
      BY <1>0, <1>3, NoDownloadIs DEF DownloadBegins
    <2>2. pc' = pc /\ files' = files
      BY <1>3 DEF DownloadBegins, vars, taskVars, card
    <2>3. had' = Len(files[p]) /\ had' \in Nat /\ replaced' = FALSE
      BY <1>0, <1>3 DEF DownloadBegins, FileSize, CardOK
    <2>4. SubSeq(files[p], 1, 0) = << >>
      BY SubSeqEmpty
    <2>5. DownloadTyped'
      BY <2>1, <2>3 DEF DownloadTyped
    <2>6. Following'
      BY <2>1, <2>2, <2>3, <2>4 DEF Following
    <2> QED
      BY <2>5, <2>6
  <1>4. ASSUME ReadChunk
        PROVE  DownloadTyped' /\ Following'
    <2>0. PICK got \in Pieces : dl' = [dl EXCEPT !.offset = @ + Len(got), !.sent = @ \o got]
      BY <1>4 DEF ReadChunk
    <2>1. /\ UNCHANGED vars /\ had' = had /\ replaced' = replaced /\ files' = files /\ pc' = pc
          /\ dl.at = "read"
          /\ dl' = [at |-> dl.at, path |-> dl.path, offset |-> dl.offset + Len(got),
                    sent |-> dl.sent \o got]
      BY <1>4, <2>0 DEF ReadChunk, DownloadTyped, vars, taskVars, card
    <2>2. got \in Seq(RowType) /\ Len(got) \in Nat
      BY <1>0, PiecesAre
    <2>3. DownloadTyped'
      <3>1. dl.offset + Len(got) \in Nat /\ dl.sent \o got \in Seq(RowType)
        BY <2>2 DEF DownloadTyped
      <3> QED
        BY <2>1, <3>1 DEF DownloadTyped
    <2>4. ASSUME ~replaced
          PROVE  /\ dl.path \in DOMAIN files
                 /\ dl.offset + Len(got) <= Len(files[dl.path]) /\ had <= Len(files[dl.path])
                 /\ dl.sent \o got = SubSeq(files[dl.path], 1, dl.offset + Len(got))
      <3>1. /\ dl.path \in DOMAIN files /\ Rows(dl.path) = files[dl.path]
            /\ dl.offset <= Len(files[dl.path]) /\ had <= Len(files[dl.path])
            /\ dl.sent = SubSeq(files[dl.path], 1, dl.offset)
        BY <2>1, <2>4 DEF Following, Rows
      <3>2. /\ dl.offset + Len(got) <= Len(files[dl.path])
            /\ got = SubSeq(files[dl.path], dl.offset + 1, dl.offset + Len(got))
        BY <1>0, <3>1, PiecesAre
      <3>3. /\ files[dl.path] \in Seq(RowType) /\ 1 \in 1 .. Len(files[dl.path]) + 1
            /\ dl.offset \in 1 - 1 .. Len(files[dl.path])
            /\ dl.offset + Len(got) \in dl.offset .. Len(files[dl.path])
        BY <1>0, <2>2, <3>1, <3>2 DEF CardOK, DownloadTyped
      <3>4. SubSeq(files[dl.path], 1, dl.offset) \o
                SubSeq(files[dl.path], dl.offset + 1, dl.offset + Len(got))
                = SubSeq(files[dl.path], 1, dl.offset + Len(got))
        BY <3>3, ConcatAdjacentSubSeq
      <3> QED
        BY <3>1, <3>2, <3>4
    <2>5. Following'
      BY <2>1, <2>4 DEF Following
    <2> QED
      BY <2>3, <2>5
  <1>5. CASE Elsewhere /\ UNCHANGED <<dl, had>> /\ ~(pc # "boot" /\ pc' = "boot")
    <2>1. /\ Next /\ dl' = dl /\ had' = had
          /\ replaced' = (replaced \/ (dl.at # "idle" /\ Replaces(dl.path)))
      BY <1>5 DEF Elsewhere
    <2>2. DownloadTyped'
      BY <2>1 DEF DownloadTyped, LogPaths, RowType
    <2>3. pc' = "boot" => dl.at = "idle"
      BY <1>5 DEF Following
    <2>4. ASSUME dl.at = "read", ~replaced'
          PROVE  /\ dl.path \in DOMAIN files'
                 /\ dl.offset <= Len(files'[dl.path]) /\ had <= Len(files'[dl.path])
                 /\ dl.sent = SubSeq(files'[dl.path], 1, dl.offset)
      <3>1. ~replaced /\ ~Replaces(dl.path)
        BY <2>1, <2>4
      <3>2. /\ dl.path \in DOMAIN files
            /\ dl.offset <= Len(files[dl.path]) /\ had <= Len(files[dl.path])
            /\ dl.sent = SubSeq(files[dl.path], 1, dl.offset)
        BY <2>4, <3>1 DEF Following
      <3>3. ~PowerLoss
        BY <2>3, <2>4 DEF PowerLoss
      <3>4. PICK a \in Seq(RowType) : dl.path \in DOMAIN files' /\ files'[dl.path] = files[dl.path] \o a
        BY <2>1, <3>1, <3>2, <3>3, FileGrows
      <3>5. /\ files[dl.path] \in Seq(RowType) /\ dl.offset \in Nat /\ had \in Nat
            /\ Len(files[dl.path]) \in Nat /\ Len(a) \in Nat
        BY <1>0, <3>2 DEF CardOK, DownloadTyped
      <3>6. Len(files'[dl.path]) = Len(files[dl.path]) + Len(a)
        BY <3>4, <3>5
      <3>7. SubSeq(files'[dl.path], 1, dl.offset) = SubSeq(files[dl.path], 1, dl.offset)
        <4>1. CASE dl.offset = 0
          BY <4>1, SubSeqEmpty
        <4>2. CASE dl.offset # 0
          <5>1. 1 \in 1 .. Len(files[dl.path]) /\ dl.offset \in 1 .. Len(files[dl.path])
            BY <3>2, <3>5, <4>2
          <5> QED
            BY <3>4, <3>5, <5>1, SubSeqOfConcat1
        <4> QED
          BY <4>1, <4>2
      <3> QED
        BY <3>2, <3>4, <3>5, <3>6, <3>7
    <2>5. Following'
      BY <2>1, <2>3, <2>4 DEF Following
    <2> QED
      BY <2>2, <2>5
  <1> QED
    BY <1>1, <1>2, <1>3, <1>4, <1>5 DEF DownloadNext, Elsewhere, ReadEnd, ReadFails, SendFails

\* Whatever ends a download (nothing left, a read that fails, a client that
\* went away), what was sent is the beginning of the file; one that found
\* nothing left has all rows of the time of the request.  For any chunk and any
\* short reads, however the logger's appends and the calls of any number of
\* tasks fall between the reads, unless a step meanwhile renamed, emptied or
\* removed the file (web_server.c, download_handler; sd_storage.c,
\* sd_storage_read).  A client cannot tell these ends apart.
THEOREM DownloadsWhole == DownloadSpec => DownloadWhole
  <1>1. DownloadInit => DownloadTyped /\ Following
    BY NoDownloadIs DEF DownloadInit, DownloadTyped, Following
  <1>2. Typed /\ DownloadTyped /\ Following
           /\ [DownloadNext]_<<vars, downloadVars>> => DownloadTyped' /\ Following'
    BY FollowingStep
  <1>3. Typed /\ DownloadTyped /\ Following =>
           /\ (ReadEnd \/ ReadFails \/ SendFails) /\ ~replaced => IsPrefix(dl.sent, Rows(dl.path))
           /\ ReadEnd /\ ~replaced => Len(dl.sent) >= had
    <2> SUFFICES ASSUME Typed, DownloadTyped, Following, dl.at = "read", ~replaced
                 PROVE  /\ IsPrefix(dl.sent, Rows(dl.path))
                        /\ ReadEnd => Len(dl.sent) >= had
      BY DEF ReadEnd, ReadFails, SendFails
    <2>1. /\ dl.path \in DOMAIN files /\ Rows(dl.path) = files[dl.path]
          /\ dl.offset <= Len(files[dl.path]) /\ had <= Len(files[dl.path])
          /\ dl.sent = SubSeq(files[dl.path], 1, dl.offset)
      BY DEF Following, Rows
    <2>2. CardOK /\ dl.offset \in Nat /\ had \in Nat
          /\ files[dl.path] \in Seq(RowType) /\ Len(files[dl.path]) \in Nat
      BY <2>1 DEF Typed, CardOK, DownloadTyped
    <2>3. Len(dl.sent) = dl.offset
      BY <2>1, <2>2
    <2>4. IsPrefix(dl.sent, Rows(dl.path))
      BY <2>1, <2>2, <2>3 DEF IsPrefix
    <2>5. ReadEnd => Len(files[dl.path]) = dl.offset
      BY <2>1, <2>2, PieceIs DEF ReadEnd
    <2> QED
      BY <2>1, <2>3, <2>4, <2>5
  <1> QED
    BY <1>1, <1>2, <1>3, DownloadOnLogger, TypedAlways, PTL DEF DownloadSpec, DownloadWhole

=============================================================================
