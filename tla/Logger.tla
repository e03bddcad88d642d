------------------------------- MODULE Logger -------------------------------
(***************************************************************************)
(* components/logger with its surroundings: the logger task copies new     *)
(* samples from the data hub to a CSV file on the SD card, one flush per   *)
(* cycle, and rotates the file when it has grown too large.  The LVGL task *)
(* (tiles, log manager), the httpd task (/api/log/...) and the task that   *)
(* clears the card start and stop it, switch its file and remove files,    *)
(* all without a lock: logger.c shares s_running, s_log_path,              *)
(* s_backup_path and the bookmarks (s_state) between these tasks.          *)
(*                                                                         *)
(* A step of a task is what it does between two accesses another task can  *)
(* tell apart.  A row of a file is [name, ts]: the channel and the time of *)
(* the sample, or Header.                                                  *)
(***************************************************************************)
EXTENDS DataHub, SdStorage

CONSTANTS
    Callers,       \* tasks that use the logger and the card
    LogNames,      \* file names given to logger_start
    DefaultName,   \* config->log_path
    TornName,      \* what a reader finds in s_log_path while strncpy runs
    NameLen,       \* strlen of these names
    MaxRows,       \* s_max_file_bytes, in rows
    Ops,           \* operations the callers use: a subset of AllOps
    Overlap,       \* TRUE: calls run at any time.  FALSE: calls run one by
                   \* one, while the logger task sleeps
    Reuse,         \* FALSE: logger_start is given only names of no file
    MaxCalls,      \* bound on the number of calls
    MaxBoots       \* bound on the number of power losses

AllOps == {"start", "stop", "delete", "clear"}

LogPathLen == 64   \* LOGGER_LOG_PATH_LEN

\* logger_init refuses a default path whose backup does not fit.
ASSUME LoggerAssumption ==
    /\ NoName \notin LogNames \cup {DefaultName, TornName}
    /\ \A n \in LogNames \cup {DefaultName, TornName} : NameLen[n] \in Nat \ {0}
    /\ NameLen[DefaultName] + 2 < LogPathLen /\ NameLen[TornName] < LogPathLen
    /\ MaxRows \in Nat \ {0, 1}
    /\ Ops \subseteq AllOps
    /\ Overlap \in BOOLEAN /\ Reuse \in BOOLEAN
    /\ MaxCalls \in Nat /\ MaxBoots \in Nat

VARIABLES
    s_running,
    s_log_path,
    s_backup_path,
    s_state,       \* bookmarks: last_logged_ts of the first s_state_count names
    pc,            \* where the logger task is
    todo,          \* channels left to flush in this cycle; Head(todo) is the current one
    found,         \* the bookmark table find_or_add_state has read
    batch,         \* times of the samples in s_buf
    call,          \* call[c]: where caller c is, and the path it works on
    synced,        \* s_convert_boot_time_fn succeeds: the wall clock is set
    calls, boots,  \* number of calls and of power losses so far
    stored,        \* history: every row that ever was on the card
    excused        \* history: rows the current file may lack, see CurrentFileComplete

logVars == <<s_running, s_log_path, s_backup_path, s_state>>
taskVars == <<pc, todo, found, batch>>
boundVars == <<calls, boots>>
vars == <<channels, now, card, logVars, taskVars, call, synced, boundVars, stored, excused>>

-----------------------------------------------------------------------------
(* Paths and rows *)

PathOf(n) == [name |-> n, gen |-> 0, len |-> NameLen[n]]
Backup(p) == [p EXCEPT !.gen = @ + 1, !.len = @ + 2]
NoPath == [name |-> NoName, gen |-> 0, len |-> 0]

Row(n, t) == [name |-> n, ts |-> t]
Header == Row(NoName, 0)

RowSet(rows) == {rows[j] : j \in DOMAIN rows}
CardRows == UNION {RowSet(files[p]) : p \in DOMAIN files}

NoBookmarks == << >>

Idle == [at |-> "idle", path |-> NoPath]

\* Nothing of the logger or its callers is under way.
CallersIdle == \A c \in Callers : call[c] = Idle
Quiet == CallersIdle /\ pc = "delay"

-----------------------------------------------------------------------------
(* The state before logger_init: main.c brings up the UI first. *)

Init ==
    /\ HubInit
    /\ files = << >> /\ faults = 0
    /\ s_running = FALSE
    /\ s_log_path = NoPath /\ s_backup_path = NoPath
    /\ s_state = NoBookmarks
    /\ pc = "boot"
    /\ todo = << >> /\ found = NoBookmarks /\ batch = << >>
    /\ call = [c \in Callers |-> Idle]
    /\ synced = FALSE
    /\ calls = 0 /\ boots = 0
    /\ stored = {} /\ excused = {}

\* logger_init: the default path, no bookmarks, and the task.
LoggerInit ==
    /\ pc = "boot"
    /\ Overlap \/ CallersIdle
    /\ s_log_path' = PathOf(DefaultName)
    /\ s_backup_path' = Backup(PathOf(DefaultName))
    /\ s_state' = NoBookmarks
    /\ pc' = "delay"
    /\ UNCHANGED <<channels, now, card, s_running, todo, found, batch, call, synced,
                   boundVars, stored, excused>>

-----------------------------------------------------------------------------
(* logger_task *)

\* One cycle: only its start looks at s_running.
Wake ==
    /\ pc = "delay"
    /\ Overlap \/ CallersIdle
    /\ s_running
    /\ todo' = [j \in DOMAIN ListChannels(MaxChannels) |-> ListChannels(MaxChannels)[j].name]
    /\ pc' = "flush"
    /\ UNCHANGED <<channels, now, card, logVars, found, batch, call, synced, boundVars,
                   stored, excused>>

\* Mutant: the sample at the bookmark counts as new.
Gather_Again(n, last) ==
    LET new == Keep(GetHistory(n, HistoryLen), last .. now) IN
    IF synced /\ new # << >>
      THEN batch' = new /\ pc' = "write" /\ UNCHANGED todo
      ELSE pc' = "flush" /\ todo' = Tail(todo) /\ UNCHANGED batch

\* flush_channel up to sd_storage_write, with the bookmark `last`: the samples
\* the ring holds beyond it, none while there is no wall clock.
Gather(n, last) ==
    LET new == Keep(GetHistory(n, HistoryLen), last + 1 .. now) IN
    IF synced /\ new # << >>
      THEN batch' = new /\ pc' = "write" /\ UNCHANGED todo
      ELSE pc' = "flush" /\ todo' = Tail(todo) /\ UNCHANGED batch

FlushKnown ==
    /\ pc = "flush" /\ todo # << >>
    /\ Head(todo) \in DOMAIN s_state
    /\ Gather(Head(todo), s_state[Head(todo)])
    /\ UNCHANGED <<channels, now, card, logVars, found, call, synced, boundVars, stored, excused>>

\* find_or_add_state of a new name reads s_state_count and then writes it: a
\* reset in between is undone by the write.
FlushNew ==
    /\ pc = "flush" /\ todo # << >>
    /\ Head(todo) \notin DOMAIN s_state
    /\ found' = s_state
    /\ pc' = "add"
    /\ UNCHANGED <<channels, now, card, logVars, todo, batch, call, synced, boundVars,
                   stored, excused>>

AddState ==
    /\ pc = "add"
    /\ s_state' = [n \in DOMAIN found \cup {Head(todo)} |->
                      IF n = Head(todo) THEN 0 ELSE found[n]]
    /\ found' = NoBookmarks
    /\ Gather(Head(todo), 0)
    /\ UNCHANGED <<channels, now, card, s_running, s_log_path, s_backup_path, call, synced,
                   boundVars, stored, excused>>

BatchRows == [j \in DOMAIN batch |-> Row(Head(todo), batch[j])]

\* Rows the write took, and fclose lost.
LostByClose(err) ==
    IF err = "ESP_OK" THEN RowSet(BatchRows) \ RowSet(files'[s_log_path]) ELSE {}

\* Mutants of WriteBatch, by the bookmark it leaves: one moved whether or not
\* the write succeeded; one moved to the newest sample the ring has by now;
\* one not moved.
WriteAndMark(mark(_)) ==
    /\ pc = "write"
    /\ \E err \in Results :
          /\ Write(s_log_path, BatchRows, TRUE, err)
          /\ s_state' = [n \in DOMAIN s_state |-> IF n = Head(todo) THEN mark(err) ELSE s_state[n]]
          /\ excused' = excused \cup LostByClose(err)
    /\ todo' = Tail(todo) /\ batch' = << >> /\ pc' = "flush"
    /\ stored' = stored \cup CardRows'
    /\ UNCHANGED <<channels, now, s_running, s_log_path, s_backup_path, found, call, synced,
                   boundVars>>

WriteBatch_MarkAlways == WriteAndMark(LAMBDA err : batch[Len(batch)])

WriteBatch_MarkNewest == WriteAndMark(LAMBDA err : Newest(ChannelOf(Head(todo))))

WriteBatch_NoMark == WriteAndMark(LAMBDA err : s_state[Head(todo)])

\* The append, and the bookmark that follows it when it succeeded.
WriteBatch ==
    /\ pc = "write"
    /\ \E err \in Results :
          /\ Write(s_log_path, BatchRows, TRUE, err)
          /\ s_state' = IF err = "ESP_OK" /\ Head(todo) \in DOMAIN s_state
                          THEN [s_state EXCEPT ![Head(todo)] = batch[Len(batch)]]
                          ELSE s_state
          /\ excused' = excused \cup LostByClose(err)
    /\ todo' = Tail(todo) /\ batch' = << >> /\ pc' = "flush"
    /\ stored' = stored \cup CardRows'
    /\ UNCHANGED <<channels, now, s_running, s_log_path, s_backup_path, found, call, synced,
                   boundVars>>

\* Mutant: a file of just the maximum size is left alone.
RotateCheck_Beyond ==
    /\ pc = "flush" /\ todo = << >>
    /\ pc' = IF Exists(s_log_path) /\ FileSize(s_log_path) > MaxRows THEN "rename" ELSE "delay"
    /\ UNCHANGED <<channels, now, card, logVars, todo, found, batch, call, synced, boundVars,
                   stored, excused>>

\* rotate_if_needed
RotateCheck ==
    /\ pc = "flush" /\ todo = << >>
    /\ pc' = IF Exists(s_log_path) /\ FileSize(s_log_path) >= MaxRows THEN "rename" ELSE "delay"
    /\ UNCHANGED <<channels, now, card, logVars, todo, found, batch, call, synced, boundVars,
                   stored, excused>>

RotateRename ==
    /\ pc = "rename"
    /\ \E err \in Results :
          /\ Rename(s_log_path, s_backup_path, err)
          /\ pc' = IF err = "ESP_OK" THEN "header" ELSE "delay"
    /\ UNCHANGED <<channels, now, logVars, todo, found, batch, call, synced, boundVars,
                   stored, excused>>

\* Mutant: the bookmarks of the rotated file are kept.
RotateHeader_KeepMarks ==
    /\ pc = "header"
    /\ \E err \in Results : Write(s_log_path, <<Header>>, FALSE, err)
    /\ pc' = "delay"
    /\ stored' = stored \cup CardRows'
    /\ UNCHANGED <<channels, now, logVars, todo, found, batch, call, synced, boundVars, excused>>

RotateHeader ==
    /\ pc = "header"
    /\ \E err \in Results :
          /\ Write(s_log_path, <<Header>>, FALSE, err)
          /\ IF err = "ESP_OK"
               THEN s_state' = NoBookmarks /\ UNCHANGED excused
               ELSE UNCHANGED s_state /\ excused' = excused \cup stored
    /\ pc' = "delay"
    /\ stored' = stored \cup CardRows'
    /\ UNCHANGED <<channels, now, s_running, s_log_path, s_backup_path, todo, found, batch, call,
                   synced, boundVars>>

LoggerTask ==
    \/ Wake \/ FlushKnown \/ FlushNew \/ AddState \/ WriteBatch
    \/ RotateCheck \/ RotateRename \/ RotateHeader

-----------------------------------------------------------------------------
(* The callers *)

\* A call begins: the caller was idle, the bound is not reached.
Begin(c, op) ==
    /\ op \in Ops
    /\ call[c] = Idle
    /\ calls < MaxCalls
    /\ Overlap \/ Quiet
    /\ calls' = calls + 1
    /\ UNCHANGED <<channels, now, taskVars, synced, boots, stored>>

Goes(c, at, path) == call' = [call EXCEPT ![c] = [at |-> at, path |-> path]]
Returns(c) == call' = [call EXCEPT ![c] = Idle]

\* logger_start(NULL), or with the name of the current file.
StartResume(c) ==
    /\ Begin(c, "start")
    /\ Goes(c, "exists", NoPath)
    /\ UNCHANGED <<card, logVars, excused>>

\* logger_start(name) with another name: a name that does not fit is refused,
\* otherwise strncpy begins to overwrite s_log_path.
StartSwitch(c, n) ==
    /\ Begin(c, "start")
    /\ PathOf(n) # s_log_path
    /\ Reuse \/ PathOf(n) \notin DOMAIN files
    /\ IF PathOf(n).len >= LogPathLen
         THEN UNCHANGED <<call, s_log_path>>
         ELSE s_log_path' = PathOf(TornName) /\ Goes(c, "copy", PathOf(n))
    /\ UNCHANGED <<card, s_running, s_backup_path, s_state, excused>>

StartCopy(c) ==
    /\ call[c].at = "copy"
    /\ s_log_path' = call[c].path
    /\ Goes(c, "backup", call[c].path)
    /\ UNCHANGED <<channels, now, card, s_running, s_backup_path, s_state, taskVars, synced,
                   boundVars, stored, excused>>

\* Mutant: the bookmarks of the old file are kept.
StartBackup_KeepMarks(c) ==
    /\ call[c].at = "backup"
    /\ s_backup_path' = Backup(s_log_path)
    /\ IF Backup(s_log_path).len >= LogPathLen
         THEN Returns(c) /\ excused' = excused \cup stored
         ELSE Goes(c, "exists", call[c].path) /\ UNCHANGED excused
    /\ UNCHANGED <<channels, now, card, s_running, s_log_path, s_state, taskVars, synced,
                   boundVars, stored>>

\* The backup name is made from s_log_path; one that does not fit ends the
\* call, with the path switched and the bookmarks of the old file.
StartBackup(c) ==
    /\ call[c].at = "backup"
    /\ s_backup_path' = Backup(s_log_path)
    /\ IF Backup(s_log_path).len >= LogPathLen
         THEN Returns(c) /\ UNCHANGED s_state /\ excused' = excused \cup stored
         ELSE Goes(c, "exists", call[c].path) /\ s_state' = NoBookmarks /\ UNCHANGED excused
    /\ UNCHANGED <<channels, now, card, s_running, s_log_path, taskVars, synced, boundVars, stored>>

\* Mutants: the header is never written; it is written to an existing file too.
StartExists_NoHeader(c) ==
    /\ call[c].at = "exists"
    /\ s_running' = TRUE /\ Returns(c)
    /\ UNCHANGED <<channels, now, card, s_log_path, s_backup_path, s_state, taskVars, synced,
                   boundVars, stored, excused>>

StartExists_Rewrite(c) ==
    /\ call[c].at = "exists"
    /\ Goes(c, "header", call[c].path)
    /\ UNCHANGED <<channels, now, card, logVars, taskVars, synced, boundVars, stored, excused>>

StartExists(c) ==
    /\ call[c].at = "exists"
    /\ IF Exists(s_log_path)
         THEN s_running' = TRUE /\ Returns(c)
         ELSE UNCHANGED s_running /\ Goes(c, "header", call[c].path)
    /\ UNCHANGED <<channels, now, card, s_log_path, s_backup_path, s_state, taskVars, synced,
                   boundVars, stored, excused>>

StartHeader(c) ==
    /\ call[c].at = "header"
    /\ \E err \in Results :
          /\ Write(s_log_path, <<Header>>, FALSE, err)
          /\ s_running' = IF err = "ESP_OK" THEN TRUE ELSE s_running
    /\ Returns(c)
    /\ stored' = stored \cup CardRows'
    /\ UNCHANGED <<channels, now, s_log_path, s_backup_path, s_state, taskVars, synced,
                   boundVars, excused>>

\* logger_stop
Stop(c) ==
    /\ Begin(c, "stop")
    /\ s_running' = FALSE
    /\ UNCHANGED <<card, s_log_path, s_backup_path, s_state, call, excused>>

\* The user removes a file: refused for the file being logged to, by
\* api_log_delete_handler when the request comes in and by the log manager
\* when it draws the Delete button.  The erase comes later, with no second
\* look: a file that a start has made the current one by then is erased.
DeleteCheck(c) ==
    /\ Begin(c, "delete")
    /\ \E p \in DOMAIN files :
          /\ ~(s_running /\ p = s_log_path)
          /\ Goes(c, "erase", p)
    /\ UNCHANGED <<card, logVars, excused>>

DeleteErase(c) ==
    /\ call[c].at = "erase"
    /\ \E err \in Results :
          /\ Erase(call[c].path, err)
          /\ excused' = IF err = "ESP_OK" THEN excused \cup RowSet(Rows(call[c].path)) ELSE excused
    /\ Returns(c)
    /\ UNCHANGED <<channels, now, logVars, taskVars, synced, boundVars, stored>>

\* log_manager_clear_task: stop, then format.
ClearStop(c) ==
    /\ Begin(c, "clear")
    /\ s_running' = FALSE
    /\ Goes(c, "format", NoPath)
    /\ UNCHANGED <<card, s_log_path, s_backup_path, s_state, excused>>

ClearFormat(c) ==
    /\ call[c].at = "format"
    /\ \E err \in Results :
          /\ Format(err)
          /\ excused' = IF err = "ESP_OK" THEN excused \cup CardRows ELSE excused
    /\ Returns(c)
    /\ UNCHANGED <<channels, now, logVars, taskVars, synced, boundVars, stored>>

\* The rest of a call that has begun.
Continue(c) ==
    \/ StartCopy(c) \/ StartBackup(c) \/ StartExists(c) \/ StartHeader(c)
    \/ DeleteErase(c) \/ ClearFormat(c)

Call(c) ==
    \/ StartResume(c) \/ \E n \in LogNames : StartSwitch(c, n)
    \/ Stop(c) \/ DeleteCheck(c) \/ ClearStop(c)

-----------------------------------------------------------------------------
(* The surroundings *)

HubStep ==
    /\ HubNext
    /\ UNCHANGED <<card, logVars, taskVars, call, synced, boundVars, stored, excused>>

\* SNTP or the user sets the wall clock.
ClockSet ==
    /\ ~synced /\ synced' = TRUE
    /\ UNCHANGED <<channels, now, card, logVars, taskVars, call, boundVars, stored, excused>>

\* What a power loss leaves of the card operation it interrupts.
Interrupted ==
    \/ UNCHANGED files
    \/ /\ pc = "write" /\ Addressable(s_log_path)
       /\ \E k \in 0 .. Len(batch) :
             files' = CardWith(s_log_path, Rows(s_log_path) \o
                                  [j \in 1 .. k |-> Row(Head(todo), batch[j])])
    \/ /\ pc = "rename" /\ Addressable(s_backup_path)
       /\ files' = CardWithout(s_backup_path)
    \/ /\ pc = "header" \/ \E c \in Callers : call[c].at = "header"
       /\ Addressable(s_log_path)
       /\ files' = CardWith(s_log_path, << >>)

\* The board restarts: RAM is lost, the card is not.
PowerLoss ==
    /\ boots < MaxBoots /\ boots' = boots + 1
    /\ Interrupted
    /\ channels' = [i \in Slots |-> FreeChannel]
    /\ s_running' = FALSE
    /\ s_log_path' = NoPath /\ s_backup_path' = NoPath
    /\ s_state' = NoBookmarks
    /\ pc' = "boot"
    /\ todo' = << >> /\ found' = NoBookmarks /\ batch' = << >>
    /\ call' = [c \in Callers |-> Idle]
    /\ synced' = FALSE
    /\ stored' = stored \cup CardRows'
    /\ UNCHANGED <<now, calls, faults, excused>>

Next ==
    \/ LoggerInit \/ LoggerTask
    \/ \E c \in Callers : Call(c) \/ Continue(c)
    \/ HubStep \/ ClockSet \/ PowerLoss

Spec == Init /\ [][Next]_vars

\* FreeRTOS runs every ready task: the logger task, whose delay ends, and a
\* task in the middle of a call.  Nothing makes anybody call, or a sample come.
Fairness ==
    /\ WF_vars(LoggerInit)
    /\ WF_vars(LoggerTask)
    /\ \A c \in Callers : WF_vars(Continue(c))

FairSpec == Spec /\ Fairness

-----------------------------------------------------------------------------
(* Properties *)

LoggerTypeOK ==
    /\ HubTypeOK
    /\ LET Paths == {p \in [name : LogNames \cup {DefaultName, TornName, NoName},
                            gen : 0 .. 1, len : 0 .. LogPathLen + 1] : p.name = NoName <=> p.len = 0}
       IN  /\ s_log_path \in Paths /\ s_backup_path \in Paths
           /\ DOMAIN files \subseteq Paths
           /\ call \in [Callers -> [at : {"idle", "copy", "backup", "exists", "header",
                                          "erase", "format"},
                                    path : Paths]]
    /\ s_running \in BOOLEAN /\ synced \in BOOLEAN
    /\ DOMAIN s_state \subseteq Names /\ \A n \in DOMAIN s_state : s_state[n] \in 0 .. now
    /\ pc \in {"boot", "delay", "flush", "add", "write", "rename", "header"}
    /\ RowSet(todo) \subseteq Names
    /\ pc \in {"add", "write"} => todo # << >>

\* The bookmark only advances past samples that reached the card (the comment
\* in flush_channel): what is in the ring at or below it has been stored.
BookmarkBacked ==
    \A n \in DOMAIN s_state : \A t \in RowSet(GetHistory(n, HistoryLen)) :
        t <= s_state[n] => Row(n, t) \in stored

\* ... and is in the file being logged to: a new file after a switch or a
\* rotation starts from what the ring holds (the comments in rotate_if_needed
\* and logger_start).  `excused` has the rows for which this is not so: those
\* a user removed, those that fclose lost after a write that counts as
\* successful, and those stored before a switch or a rotation that failed
\* half-way, the path or the file gone and the bookmarks kept.
CurrentFileComplete ==
    Quiet => \A n \in DOMAIN s_state : \A t \in RowSet(GetHistory(n, HistoryLen)) :
        t <= s_state[n] => Row(n, t) \in RowSet(Rows(s_log_path)) \cup excused

\* A log file begins with the header row, and has no other.
HeaderFirst ==
    \A p \in DOMAIN files :
        /\ files[p] # << >>
        /\ \A j \in DOMAIN files[p] : files[p][j] = Header <=> j = 1

\* In every file the rows of a channel are in the order of their times, and no
\* row is there twice.
RowsInOrder ==
    \A p \in DOMAIN files : \A j, k \in DOMAIN files[p] :
        j < k /\ files[p][j].name = files[p][k].name => files[p][j].ts < files[p][k].ts

\* A file can be read back: one header at its start, and rows in order.
WellFormed == HeaderFirst /\ RowsInOrder

\* The cap on a file is soft, but a cap: it is exceeded by at most one flush of
\* every channel (the comment above rotate_if_needed).  A file whose backup
\* the card cannot name has none: it is never rotated.
SoftCap ==
    faults = 0 => \A p \in DOMAIN files :
        p.gen = 1 \/ Addressable(Backup(p)) =>
            Len(files[p]) < MaxRows + HistoryLen * Cardinality(Names)

\* Only rotation discards rows, those of the previous backup; whatever else
\* the logger does keeps every row on the card.
NothingLost ==
    [][ (LoggerTask \/ \E c \in Callers : StartHeader(c)) =>
            \A r \in CardRows : r \in CardRows' \/ r \in RowSet(Rows(s_backup_path)) ]_vars

\* While logging stays on and the wall clock is set, a sample reaches the card
\* unless the ring overwrites it first.
SamplesReachCard ==
    \A n \in Names : \A t \in 1 .. MaxTime :
        (t \in RowSet(GetHistory(n, HistoryLen)) /\ s_running /\ synced /\ pc # "boot")
            ~> (Row(n, t) \in stored \/ t \notin RowSet(GetHistory(n, HistoryLen)) \/ ~s_running)

=============================================================================
