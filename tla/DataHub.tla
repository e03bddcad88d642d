------------------------------ MODULE DataHub ------------------------------
(***************************************************************************)
(* components/data_hub: the table of telemetry channels.  Every channel    *)
(* keeps its last HistoryLen samples in a ring (`history`, `head`,         *)
(* `count`).  s_mutex is held from the first to the last access of every   *)
(* function, so each call is one atomic step: data_hub_publish is an       *)
(* action, the three readers change nothing and are operators.             *)
(*                                                                         *)
(* A sample is represented by its timestamp_us.  esp_timer_get_time() is   *)
(* read while the mutex is held, so successive publishes, by any task,     *)
(* read increasing times; the timestamp thus also identifies the value and *)
(* the unit that were published with it.                                   *)
(***************************************************************************)
EXTENDS Filters, FiniteSets

CONSTANTS
    Names,        \* the channel names publishers use: 1 to DATA_HUB_NAME_LEN - 1
                  \* characters, which is what handle_push cuts them to and copy_str
                  \* keeps whole
    NoName,       \* the name of a table entry that was never used ("")
    MaxChannels,  \* DATA_HUB_MAX_CHANNELS
    HistoryLen,   \* DATA_HUB_HISTORY_LEN
    MaxTime       \* bound on the number of publishes

ASSUME HubAssumption ==
    /\ MaxChannels \in Nat \ {0}
    /\ HistoryLen \in Nat \ {0}
    /\ MaxTime \in Nat
    /\ NoName \notin Names

VARIABLES
    channels,     \* s_channels
    now           \* esp_timer_get_time() at the last publish

hubVars == <<channels, now>>

Slots == 0 .. MaxChannels - 1
Cells == 0 .. HistoryLen - 1

\* data_hub_channel_t
Channel == [in_use : BOOLEAN, name : Names \cup {NoName},
            history : [Cells -> 0 .. MaxTime], head : Cells, count : 0 .. HistoryLen]

\* An entry with an empty ring, as memset(0) leaves it.
EmptyRing(used, n) ==
    [in_use |-> used, name |-> n,
     history |-> [c \in Cells |-> 0], head |-> 0, count |-> 0]

FreeChannel == EmptyRing(FALSE, NoName)

\* data_hub_init
HubInit ==
    /\ channels = [i \in Slots |-> FreeChannel]
    /\ now = 0

-----------------------------------------------------------------------------
(* Lookup: both scans return the first entry of the table that fits. *)

Holds(i, n) == channels[i].in_use /\ channels[i].name = n

IsChannel(i, n) == Holds(i, n) /\ \A j \in Slots : j < i => ~Holds(j, n)

IsFree(i) == ~channels[i].in_use /\ \A j \in Slots : j < i => channels[j].in_use

Known(n) == \E i \in Slots : Holds(i, n)

-----------------------------------------------------------------------------
(* data_hub_publish *)

\* Mutants of Push: count stops one short of the ring's length; a full ring
\* keeps what it has.

Push_ShortCount(ch, t) ==
    [ch EXCEPT !.history[ch.head] = t,
               !.head = (ch.head + 1) % HistoryLen,
               !.count = IF ch.count + 1 < HistoryLen THEN ch.count + 1 ELSE ch.count]

Push_KeepOld(ch, t) ==
    IF ch.count = HistoryLen THEN ch
    ELSE [ch EXCEPT !.history[ch.head] = t, !.head = (ch.head + 1) % HistoryLen,
                    !.count = ch.count + 1]

\* The sample written at head, and head and count moved on.
Push(ch, t) ==
    [ch EXCEPT !.history[ch.head] = t,
               !.head = (ch.head + 1) % HistoryLen,
               !.count = IF ch.count < HistoryLen THEN ch.count + 1 ELSE ch.count]

Tick == now < MaxTime /\ now' = now + 1

PublishKnown(n) ==
    \E i \in Slots :
        /\ IsChannel(i, n)
        /\ Tick
        /\ channels' = [channels EXCEPT ![i] = Push(channels[i], now')]

Registered(n) == EmptyRing(TRUE, n)

PublishNew(n) ==
    /\ ~Known(n)
    /\ \E i \in Slots :
        /\ IsFree(i)
        /\ Tick
        /\ channels' = [channels EXCEPT ![i] = Push(Registered(n), now')]

\* Table full: the sample of a new channel is dropped.
PublishDropped(n) ==
    /\ ~Known(n)
    /\ \A i \in Slots : channels[i].in_use
    /\ Tick
    /\ UNCHANGED channels

Publish(n) == PublishKnown(n) \/ PublishNew(n) \/ PublishDropped(n)

-----------------------------------------------------------------------------
(* The readers *)

MinOf(a, b) == IF a < b THEN a ELSE b

\* Mutant: the oldest sample is taken to be at head, in a ring not yet full too.
Oldest_AtHead(ch, k) == [j \in 1 .. k |-> ch.history[(ch.head + (j - 1)) % HistoryLen]]

\* The first k samples of a ring, oldest first.
Oldest(ch, k) ==
    [j \in 1 .. k |->
        ch.history[(((ch.head + HistoryLen - ch.count) % HistoryLen) + (j - 1)) % HistoryLen]]

ChannelOf(n) == channels[CHOOSE i \in Slots : IsChannel(i, n)]

\* data_hub_get_history(name, out, max_out)
GetHistory(n, max_out) ==
    IF Known(n)
      THEN LET ch == ChannelOf(n) IN Oldest(ch, MinOf(ch.count, max_out))
      ELSE << >>

\* Mutant: the slot at head.
Newest_AtHead(ch) == ch.history[ch.head]

\* The slot before head: what get_latest and list_channels report.
Newest(ch) == ch.history[(ch.head + HistoryLen - 1) % HistoryLen]

\* data_hub_get_latest: the sample as a sequence of length one, or none.
GetLatest(n) ==
    IF Known(n) /\ ChannelOf(n).count > 0 THEN <<Newest(ChannelOf(n))>> ELSE << >>

\* data_hub_list_channels(out, max_out): the channels in table order.
ListChannels(max_out) ==
    LET used == Keep([i \in 1 .. MaxChannels |-> channels[i - 1]],
                     {ch \in {channels[i] : i \in Slots} : ch.in_use})
    IN  [j \in 1 .. MinOf(Len(used), max_out) |->
            [name |-> used[j].name, latest |-> Newest(used[j])]]

-----------------------------------------------------------------------------
HubNext == \E n \in Names : Publish(n)

HubSpec == HubInit /\ [][HubNext]_hubVars

-----------------------------------------------------------------------------
(* Properties *)

\* Every index a caller of the table computes is inside its array.
HubTypeOK ==
    /\ channels \in [Slots -> Channel]
    /\ now \in 0 .. MaxTime

\* The shape of the table: entries in use hold a name and a sample, no name is
\* held twice, an unused entry is blank, and a ring that is not yet full has
\* been filled from cell 0 up (publish keeps head and count in step).
TableShape ==
    /\ \A i \in Slots : channels[i].in_use =>
           /\ channels[i].name \in Names
           /\ channels[i].count > 0
           /\ channels[i].count < HistoryLen => channels[i].head = channels[i].count
    /\ \A i \in Slots : ~channels[i].in_use => channels[i] = FreeChannel
    /\ \A i, j \in Slots :
           channels[i].in_use /\ channels[j].in_use /\ channels[i].name = channels[j].name
               => i = j

\* What a reader gets is oldest first without gaps of stale cells: strictly
\* increasing real timestamps.  flush_channel (logger.c) relies on it: it
\* advances one bookmark per channel past everything it has copied.
HistoryOrdered ==
    \A n \in Names : LET h == GetHistory(n, HistoryLen) IN
        /\ \A j \in DOMAIN h : h[j] \in 1 .. now
        /\ \A j, k \in DOMAIN h : j < k => h[j] < h[k]

\* get_latest, which looks behind head, is the end of get_history, which counts
\* from the oldest cell (data_hub_get_latest, data_hub_get_history).
LatestIsLast ==
    \A n \in Names : LET h == GetHistory(n, HistoryLen) IN
        GetLatest(n) = IF h = << >> THEN << >> ELSE <<h[Len(h)]>>

\* The three readers compute the position of a sample in three places; they
\* must agree: get_latest is the end of get_history, and list_channels reports
\* for a channel what get_latest does. The listing names every channel a lookup
\* finds, and none twice, so no sample hides behind an earlier entry.
ReadersAgree ==
    LET listed == ListChannels(MaxChannels) IN
        /\ LatestIsLast
        /\ \A j \in DOMAIN listed : GetLatest(listed[j].name) = <<listed[j].latest>>
        /\ {listed[j].name : j \in DOMAIN listed} = {n \in Names : Known(n)}
        /\ \A j, k \in DOMAIN listed : listed[j].name = listed[k].name => j = k

\* The ring is a sliding window: seen through get_history, the table behaves
\* as the abstract telemetry window.
Window == INSTANCE TelemetryWindow WITH
              registered <- {n \in Names : Known(n)},
              window <- [n \in Names |-> GetHistory(n, HistoryLen)],
              time <- now

SlidingWindow == Window!Spec

=============================================================================
