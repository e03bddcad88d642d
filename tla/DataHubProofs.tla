--------------------------- MODULE DataHubProofs ---------------------------
(***************************************************************************)
(* Proofs about DataHub, for every number of channels, every ring length   *)
(* and every bound on time:                                                *)
(*   - the table is well formed (HubTypeOK, TableShape);                   *)
(*   - readers get strictly increasing timestamps (HistoryOrdered), and    *)
(*     agree with one another (ReadersAgree, LatestIsLast);                *)
(*   - the ring implements the sliding window (SlidingWindow).             *)
(***************************************************************************)
EXTENDS DataHub, FiltersProofs, FiniteSetTheorems

-----------------------------------------------------------------------------
(* The ring *)

\* Arithmetic modulo the ring length, for the operands the code computes.
LEMMA Wrap ==
    \A a \in Nat : a < HistoryLen + HistoryLen =>
        a % HistoryLen = IF a < HistoryLen THEN a ELSE a - HistoryLen
  BY HubAssumption, SMT DEF HubAssumption

\* A ring as the publishes leave it: every index in range, and filled from
\* cell 0 up while it is not full.
Ring(ch) ==
    /\ ch.history \in [Cells -> 0 .. MaxTime]
    /\ ch.head \in Cells
    /\ ch.count \in 0 .. HistoryLen
    /\ ch.count < HistoryLen => ch.head = ch.count

\* The cell of the j-th oldest sample.
CellOf(ch, j) ==
    LET x == ch.head - ch.count + (j - 1) IN IF x < 0 THEN x + HistoryLen ELSE x

LEMMA OldestCells ==
    ASSUME NEW ch, Ring(ch), NEW k \in 0 .. ch.count
    PROVE  /\ Oldest(ch, k) = [j \in 1 .. k |-> ch.history[CellOf(ch, j)]]
           /\ \A j \in 1 .. k : CellOf(ch, j) \in Cells
  <1> USE HubAssumption DEF HubAssumption
  <1> DEFINE start == (ch.head + HistoryLen - ch.count) % HistoryLen
  <1>1. /\ ch.head \in 0 .. HistoryLen - 1
        /\ ch.count \in 0 .. HistoryLen
        /\ HistoryLen \in Nat \ {0}
    BY DEF Ring, Cells
  <1>2. start = IF ch.head - ch.count < 0 THEN ch.head - ch.count + HistoryLen
                                          ELSE ch.head - ch.count
    <2>1. /\ ch.head + HistoryLen - ch.count \in Nat
          /\ ch.head + HistoryLen - ch.count < HistoryLen + HistoryLen
      BY <1>1
    <2>2. start = IF ch.head + HistoryLen - ch.count < HistoryLen
                    THEN ch.head + HistoryLen - ch.count
                    ELSE ch.head + HistoryLen - ch.count - HistoryLen
      BY <1>1, <2>1, Wrap, SMT
    <2> QED
      BY <1>1, <2>2
  <1>3. ASSUME NEW j \in 1 .. k
        PROVE  (start + (j - 1)) % HistoryLen = CellOf(ch, j) /\ CellOf(ch, j) \in Cells
    <2>1. start \in 0 .. HistoryLen - 1 /\ j - 1 \in 0 .. HistoryLen - 1
      BY <1>1, <1>2
    <2> HIDE DEF start
    <2>2. start + (j - 1) \in Nat /\ start + (j - 1) < HistoryLen + HistoryLen
      BY <1>1, <2>1
    <2>3. (start + (j - 1)) % HistoryLen = IF start + (j - 1) < HistoryLen
                                             THEN start + (j - 1)
                                             ELSE start + (j - 1) - HistoryLen
      BY <1>1, <2>1, <2>2, Wrap, SMT
    <2> QED
      BY <1>1, <1>2, <2>1, <2>3 DEF CellOf, Cells
  <1> QED
    BY <1>3 DEF Oldest

\* The window a reader sees of a channel.

Seen(ch) == Oldest(ch, ch.count)

LEMMA PushFields ==
    ASSUME NEW ch \in Channel, Ring(ch), NEW t \in 0 .. MaxTime
    PROVE  /\ Push(ch, t) \in Channel
           /\ Ring(Push(ch, t))
           /\ Push(ch, t).in_use = ch.in_use
           /\ Push(ch, t).name = ch.name
           /\ Push(ch, t).history = [ch.history EXCEPT ![ch.head] = t]
           /\ Push(ch, t).head = IF ch.head + 1 < HistoryLen THEN ch.head + 1 ELSE 0
           /\ Push(ch, t).count = IF ch.count < HistoryLen THEN ch.count + 1 ELSE ch.count
           /\ Push(ch, t).count > 0
  <1> USE HubAssumption DEF HubAssumption
  <1>1. /\ ch.head \in 0 .. HistoryLen - 1
        /\ ch.count \in 0 .. HistoryLen
        /\ ch.history \in [Cells -> 0 .. MaxTime]
        /\ ch.count < HistoryLen => ch.head = ch.count
    BY DEF Ring, Cells
  <1>2. (ch.head + 1) % HistoryLen = IF ch.head + 1 < HistoryLen THEN ch.head + 1 ELSE 0
    <2>1. ch.head + 1 \in Nat /\ ch.head + 1 < HistoryLen + HistoryLen
      BY <1>1
    <2>2. (ch.head + 1) % HistoryLen = IF ch.head + 1 < HistoryLen THEN ch.head + 1
                                       ELSE ch.head + 1 - HistoryLen
      BY <1>1, <2>1, Wrap, SMT
    <2> QED
      BY <1>1, <2>2
  <1>3. /\ Push(ch, t).in_use = ch.in_use
        /\ Push(ch, t).name = ch.name
        /\ Push(ch, t).history = [ch.history EXCEPT ![ch.head] = t]
        /\ Push(ch, t).head = (ch.head + 1) % HistoryLen
        /\ Push(ch, t).count = IF ch.count < HistoryLen THEN ch.count + 1 ELSE ch.count
    BY DEF Push, Channel
  <1>4. /\ Push(ch, t).head \in Cells
        /\ Push(ch, t).count \in 0 .. HistoryLen
        /\ Push(ch, t).count > 0
        /\ Push(ch, t).history \in [Cells -> 0 .. MaxTime]
    <2>1. Push(ch, t).history \in [Cells -> 0 .. MaxTime]
      BY <1>1, <1>3
    <2>2. Push(ch, t).head \in Cells
      <3>1. Push(ch, t).head = IF ch.head + 1 < HistoryLen THEN ch.head + 1 ELSE 0
        BY <1>2, <1>3, Zenon
      <3> QED
        BY <1>1, <3>1 DEF Cells
    <2>3. Push(ch, t).count \in 0 .. HistoryLen /\ Push(ch, t).count > 0
      BY <1>1, <1>3
    <2> QED
      BY <2>1, <2>2, <2>3
  <1>5. Push(ch, t) \in Channel
    BY <1>2, <1>4 DEF Push, Channel
  <1>6. Ring(Push(ch, t))
    BY <1>1, <1>2, <1>3, <1>4 DEF Ring
  <1> QED
    BY <1>2, <1>3, <1>4, <1>5, <1>6

\* Append and Tail as functions, to compare sequences index by index.
LEMMA AppendIndexed ==
    ASSUME NEW S, NEW s \in Seq(S), NEW e \in S
    PROVE  Append(s, e) = [j \in 1 .. Len(s) + 1 |-> IF j = Len(s) + 1 THEN e ELSE s[j]]
  <1> DEFINE a == Append(s, e)
  <1>1. /\ a \in Seq(S)
        /\ Len(a) = Len(s) + 1
        /\ \A j \in 1 .. Len(s) + 1 : a[j] = IF j = Len(s) + 1 THEN e ELSE s[j]
    OBVIOUS
  <1> HIDE DEF a
  <1>2. a = [j \in 1 .. Len(a) |-> a[j]]
    BY <1>1
  <1>3. a = [j \in 1 .. Len(s) + 1 |-> IF j = Len(s) + 1 THEN e ELSE s[j]]
    BY <1>1, <1>2, Zenon
  <1> QED
    BY <1>3 DEF a

LEMMA SeqElement ==
    ASSUME NEW S, NEW s \in Seq(S), NEW j \in DOMAIN s
    PROVE  s[j] \in S
  OBVIOUS

LEMMA TailIndexed ==
    ASSUME NEW S, NEW s \in Seq(S), Len(s) > 0
    PROVE  /\ Tail(s) \in Seq(S)
           /\ Len(Tail(s)) = Len(s) - 1
           /\ \A j \in 1 .. Len(s) - 1 : Tail(s)[j] = s[j + 1]
  OBVIOUS

\* A publish slides the window of its channel by one sample.
LEMMA PushSlides ==
    ASSUME NEW ch \in Channel, Ring(ch), NEW t \in 0 .. MaxTime
    PROVE  Seen(Push(ch, t)) = Window!Slide(Seen(ch), t)
  <1> USE HubAssumption DEF HubAssumption
  <1> DEFINE new == Push(ch, t)
  <1>1. /\ ch.head \in 0 .. HistoryLen - 1
        /\ ch.count \in 0 .. HistoryLen
        /\ ch.history \in [Cells -> 0 .. MaxTime]
        /\ ch.count < HistoryLen => ch.head = ch.count
    BY DEF Ring, Cells
  <1>2. /\ new.history = [ch.history EXCEPT ![ch.head] = t]
        /\ new.head = IF ch.head + 1 < HistoryLen THEN ch.head + 1 ELSE 0
        /\ new.count = IF ch.count < HistoryLen THEN ch.count + 1 ELSE ch.count
        /\ Ring(new)
    BY PushFields
  <1> SUFFICES Seen(new) = Window!Slide(Seen(ch), t)
    OBVIOUS
  <1> HIDE DEF new
  <1>3. /\ Seen(ch) = [j \in 1 .. ch.count |-> ch.history[CellOf(ch, j)]]
        /\ \A j \in 1 .. ch.count : CellOf(ch, j) \in Cells
    BY <1>1, OldestCells DEF Seen
  <1>4. /\ Seen(new) = [j \in 1 .. new.count |-> new.history[CellOf(new, j)]]
        /\ \A j \in 1 .. new.count : CellOf(new, j) \in Cells
    <2>1. new.count \in 0 .. new.count
      BY <1>1, <1>2
    <2> QED
      BY <1>2, <2>1, OldestCells DEF Seen
  <1>5. Seen(ch) \in Seq(0 .. MaxTime) /\ Len(Seen(ch)) = ch.count
    BY <1>1, <1>3
  <1>6. CASE ch.count < HistoryLen
    <2>1. \A j \in 1 .. new.count : CellOf(new, j) = j - 1
      BY <1>1, <1>2, <1>6 DEF CellOf
    <2>2. \A j \in 1 .. ch.count : CellOf(ch, j) = j - 1
      BY <1>1, <1>6 DEF CellOf
    <2>3. Append(Seen(ch), t) = [j \in 1 .. ch.count + 1 |->
                                    IF j = ch.count + 1 THEN t ELSE Seen(ch)[j]]
      BY <1>5, AppendIndexed
    <2>4. ASSUME NEW j \in 1 .. ch.count + 1
          PROVE  Seen(new)[j] = IF j = ch.count + 1 THEN t ELSE Seen(ch)[j]
      <3>1. j \in 1 .. new.count /\ j - 1 \in Cells
        BY <1>1, <1>2, <1>6 DEF Cells
      <3>2. Seen(new)[j] = new.history[j - 1]
        BY <1>4, <2>1, <3>1
      <3>3. j # ch.count + 1 => j \in 1 .. ch.count /\ Seen(ch)[j] = ch.history[j - 1]
        BY <1>1, <1>3, <2>2
      <3> QED
        BY <1>1, <1>2, <1>6, <3>1, <3>2, <3>3
    <2>5. Seen(new) = [j \in 1 .. ch.count + 1 |-> Seen(new)[j]]
      BY <1>1, <1>2, <1>4, <1>6
    <2>6. Seen(new) = [j \in 1 .. ch.count + 1 |->
                          IF j = ch.count + 1 THEN t ELSE Seen(ch)[j]]
      BY <2>4, <2>5, Zenon
    <2> QED
      BY <1>5, <1>6, <2>3, <2>6 DEF Window!Slide
  <1>7. CASE ~(ch.count < HistoryLen)
    <2>0. ch.count = HistoryLen /\ new.count = HistoryLen
      BY <1>1, <1>2, <1>7
    <2>1. \A j \in 1 .. HistoryLen - 1 :
             CellOf(new, j) = CellOf(ch, j + 1) /\ CellOf(ch, j + 1) # ch.head
      BY <1>1, <1>2, <2>0 DEF CellOf
    <2>2. CellOf(new, HistoryLen) = ch.head
      BY <1>1, <1>2, <2>0 DEF CellOf
    <2>3. Append(Tail(Seen(ch)), t) =
             [j \in 1 .. HistoryLen |-> IF j = HistoryLen THEN t ELSE Tail(Seen(ch))[j]]
      <3>1. /\ Tail(Seen(ch)) \in Seq(0 .. MaxTime)
            /\ Len(Tail(Seen(ch))) = HistoryLen - 1
        BY <1>5, <2>0, TailIndexed
      <3> DEFINE tail == Tail(Seen(ch))
      <3> HIDE DEF tail
      <3>2. Append(tail, t) = [j \in 1 .. Len(tail) + 1 |->
                                  IF j = Len(tail) + 1 THEN t ELSE tail[j]]
        <4>1. tail \in Seq(0 .. MaxTime)
          BY <3>1 DEF tail
        <4> QED
          BY <4>1, AppendIndexed
      <3>3. Len(tail) + 1 = HistoryLen
        BY <3>1 DEF tail
      <3>4. Append(tail, t) = [j \in 1 .. HistoryLen |->
                                  IF j = HistoryLen THEN t ELSE tail[j]]
        BY <3>2, <3>3, Zenon
      <3> QED
        BY <3>4 DEF tail
    <2>4. ASSUME NEW j \in 1 .. HistoryLen
          PROVE  Seen(new)[j] = IF j = HistoryLen THEN t ELSE Tail(Seen(ch))[j]
      <3>1. Seen(new)[j] = new.history[CellOf(new, j)] /\ CellOf(new, j) \in Cells
        BY <1>4, <2>0
      <3>2. j # HistoryLen => j \in 1 .. HistoryLen - 1 /\ j + 1 \in 1 .. ch.count
        BY <2>0
      <3>3. j # HistoryLen => Tail(Seen(ch))[j] = ch.history[CellOf(ch, j + 1)]
        BY <1>3, <1>5, <2>0, <3>2, TailIndexed
      <3> QED
        BY <1>1, <1>2, <2>1, <2>2, <3>1, <3>2, <3>3
    <2>5. Seen(new) = [j \in 1 .. HistoryLen |-> Seen(new)[j]]
      BY <1>4, <2>0
    <2>6. Seen(new) =
             [j \in 1 .. HistoryLen |-> IF j = HistoryLen THEN t ELSE Tail(Seen(ch))[j]]
      BY <2>4, <2>5, Zenon
    <2> QED
      BY <1>5, <1>7, <2>0, <2>3, <2>6 DEF Window!Slide
  <1> QED
    BY <1>6, <1>7

-----------------------------------------------------------------------------
(* The table *)

LEMMA RingOfEntry ==
    ASSUME HubTypeOK, TableShape, NEW i \in Slots, channels[i].in_use
    PROVE  channels[i] \in Channel /\ Ring(channels[i])
  BY DEF HubTypeOK, TableShape, Channel, Ring

LEMMA RegisteredRing ==
    ASSUME NEW n \in Names
    PROVE  /\ Registered(n) \in Channel
           /\ Ring(Registered(n))
           /\ Registered(n).in_use
           /\ Registered(n).name = n
           /\ Registered(n).count = 0
           /\ Seen(Registered(n)) = << >>
  <1> USE HubAssumption DEF HubAssumption
  <1>1. Registered(n) = [in_use |-> TRUE, name |-> n,
                         history |-> [c \in Cells |-> 0], head |-> 0, count |-> 0]
    BY DEF Registered, EmptyRing
  <1>2. Registered(n) \in Channel /\ Ring(Registered(n))
    BY <1>1 DEF Channel, Ring, Cells
  <1>3. Seen(Registered(n)) = << >>
    BY <1>1 DEF Seen, Oldest
  <1> QED
    BY <1>1, <1>2, <1>3

\* What a publish does: it drops the sample, or pushes it on the ring of one
\* entry, the one that holds the name or a blank one that now does.
LEMMA PublishEffect ==
    ASSUME HubTypeOK, TableShape, NEW n \in Names, Publish(n)
    PROVE  /\ now' = now + 1
           /\ now' \in 1 .. MaxTime
           /\ \/ ~Known(n) /\ channels' = channels /\ \A i \in Slots : channels[i].in_use
              \/ \E i \in Slots :
                    /\ channels[i].in_use /\ channels[i].name = n
                    /\ channels' = [channels EXCEPT ![i] = Push(channels[i], now')]
              \/ \E i \in Slots :
                    /\ ~channels[i].in_use /\ ~Known(n)
                    /\ channels' = [channels EXCEPT ![i] = Push(Registered(n), now')]
  <1> USE HubAssumption DEF HubAssumption
  <1>1. Tick
    BY DEF Publish, PublishKnown, PublishNew, PublishDropped
  <1>2. now' = now + 1 /\ now' \in 1 .. MaxTime
    BY <1>1 DEF Tick, HubTypeOK
  <1> QED
    BY <1>2 DEF Publish, PublishKnown, PublishNew, PublishDropped, IsChannel, Holds, IsFree

\* The entry a publish pushed on: well formed, in use, and the only one that
\* changed.
LEMMA TableStep ==
    ASSUME HubTypeOK, TableShape, NEW n \in Names, Publish(n)
    PROVE  HubTypeOK' /\ TableShape'
  <1> USE HubAssumption DEF HubAssumption
  <1>1. now' \in 1 .. MaxTime /\ now' \in 0 .. MaxTime
    BY PublishEffect
  <1>2. ASSUME NEW i \in Slots, NEW ch \in Channel, Ring(ch), ch.in_use, ch.name = n,
               \A j \in Slots : channels[j].in_use /\ channels[j].name = n => j = i,
               channels' = [channels EXCEPT ![i] = Push(ch, now')]
        PROVE  HubTypeOK' /\ TableShape'
    <2> DEFINE new == Push(ch, now')
    <2>1. /\ new \in Channel /\ Ring(new)
          /\ new.in_use /\ new.name = n /\ new.count > 0
      BY <1>1, <1>2, PushFields
    <2> HIDE DEF new
    <2>2. channels' = [channels EXCEPT ![i] = new]
      BY <1>2 DEF new
    <2>3. HubTypeOK'
      BY <1>1, <2>1, <2>2 DEF HubTypeOK
    <2>4. \A j \in Slots : channels'[j] = IF j = i THEN new ELSE channels[j]
      BY <2>2 DEF HubTypeOK
    <2>5. TableShape'
      BY <1>2, <2>1, <2>4 DEF TableShape, Ring
    <2> QED
      BY <2>3, <2>5
  <1>3. CASE channels' = channels
    BY <1>1, <1>3 DEF HubTypeOK, TableShape
  <1>4. ASSUME NEW i \in Slots, channels[i].in_use, channels[i].name = n,
               channels' = [channels EXCEPT ![i] = Push(channels[i], now')]
        PROVE  HubTypeOK' /\ TableShape'
    <2>1. channels[i] \in Channel /\ Ring(channels[i])
      BY <1>4, RingOfEntry
    <2>2. \A j \in Slots : channels[j].in_use /\ channels[j].name = n => j = i
      BY <1>4 DEF TableShape
    <2> QED
      BY <1>2, <1>4, <2>1, <2>2
  <1>5. ASSUME NEW i \in Slots, ~channels[i].in_use, ~Known(n),
               channels' = [channels EXCEPT ![i] = Push(Registered(n), now')]
        PROVE  HubTypeOK' /\ TableShape'
    <2>1. \A j \in Slots : channels[j].in_use /\ channels[j].name = n => j = i
      BY <1>5 DEF Known, Holds
    <2> QED
      BY <1>2, <1>5, <2>1, RegisteredRing
  <1> QED
    BY <1>3, <1>4, <1>5, PublishEffect

\* The empty table (data_hub_init).
LEMMA TableInit == HubInit => HubTypeOK /\ TableShape
  <1> USE HubAssumption DEF HubAssumption
  <1> SUFFICES ASSUME HubInit PROVE HubTypeOK /\ TableShape
    OBVIOUS
  <1>1. FreeChannel \in Channel /\ FreeChannel.in_use = FALSE
    BY DEF FreeChannel, EmptyRing, Channel, Cells
  <1>2. \A i \in Slots : channels[i] = FreeChannel
    BY DEF HubInit
  <1>3. HubTypeOK
    BY <1>1 DEF HubInit, HubTypeOK
  <1>4. TableShape
    BY <1>1, <1>2 DEF TableShape
  <1> QED
    BY <1>3, <1>4

\* Every index of the table is in range and the table has its shape, in every
\* reachable state (data_hub.c: data_hub_publish under s_mutex).
THEOREM HubTableCorrect == HubSpec => [](HubTypeOK /\ TableShape)
  <1>1. HubInit => HubTypeOK /\ TableShape
    BY TableInit
  <1>2. HubTypeOK /\ TableShape /\ [HubNext]_hubVars => (HubTypeOK /\ TableShape)'
    <2>1. ASSUME HubTypeOK, TableShape, UNCHANGED hubVars
          PROVE  (HubTypeOK /\ TableShape)'
      BY <2>1 DEF hubVars, HubTypeOK, TableShape
    <2> QED
      BY <2>1, TableStep DEF HubNext
  <1> QED
    BY <1>1, <1>2, PTL DEF HubSpec

-----------------------------------------------------------------------------
(* The readers *)

\* A lookup that finds a name finds its one entry.
LookupsExact ==
    \A n \in Names, i \in Slots : Holds(i, n) =>
        /\ Known(n)
        /\ ChannelOf(n) = channels[i]
        /\ GetHistory(n, HistoryLen) = Seen(channels[i])

LEMMA LookupUnique == HubTypeOK /\ TableShape => LookupsExact
  <1> USE HubAssumption DEF HubAssumption
  <1> SUFFICES ASSUME HubTypeOK, TableShape, NEW n \in Names, NEW i \in Slots, Holds(i, n)
               PROVE  /\ Known(n)
                      /\ ChannelOf(n) = channels[i]
                      /\ GetHistory(n, HistoryLen) = Seen(channels[i])
    BY DEF LookupsExact
  <1>1. \A j \in Slots : Holds(j, n) => j = i
    BY DEF Holds, TableShape
  <1>2. IsChannel(i, n)
    BY <1>1 DEF IsChannel, Slots
  <1>3. \A j \in Slots : IsChannel(j, n) => j = i
    BY <1>1 DEF IsChannel
  <1>4. (CHOOSE j \in Slots : IsChannel(j, n)) = i
    BY <1>2, <1>3
  <1>5. Known(n) /\ ChannelOf(n) = channels[i]
    BY <1>4 DEF Known, ChannelOf
  <1>6. channels[i].count \in 0 .. HistoryLen
    BY DEF HubTypeOK, Channel
  <1>7. MinOf(channels[i].count, HistoryLen) = channels[i].count
    BY <1>6 DEF MinOf
  <1> QED
    BY <1>5, <1>7 DEF GetHistory, Seen

\* The slot behind head is the last a reader counts to from the oldest one.
LEMMA NewestIsLast ==
    ASSUME NEW ch, Ring(ch), ch.count > 0
    PROVE  Len(Seen(ch)) = ch.count /\ Seen(ch) # << >> /\ Seen(ch)[ch.count] = Newest(ch)
  <1> USE HubAssumption DEF HubAssumption
  <1>1. /\ ch.head \in 0 .. HistoryLen - 1
        /\ ch.count \in 1 .. HistoryLen
    BY DEF Ring, Cells
  <1>2. Seen(ch) = [j \in 1 .. ch.count |-> ch.history[CellOf(ch, j)]]
    BY <1>1, OldestCells DEF Seen
  <1>3. (ch.head + HistoryLen - 1) % HistoryLen = CellOf(ch, ch.count)
    <2>1. /\ ch.head + HistoryLen - 1 \in Nat
          /\ ch.head + HistoryLen - 1 < HistoryLen + HistoryLen
      BY <1>1
    <2>2. (ch.head + HistoryLen - 1) % HistoryLen =
              IF ch.head + HistoryLen - 1 < HistoryLen THEN ch.head + HistoryLen - 1
                                                       ELSE ch.head - 1
      BY <1>1, <2>1, Wrap, SMT
    <2> QED
      BY <1>1, <2>2 DEF CellOf
  <1> QED
    BY <1>1, <1>2, <1>3 DEF Newest

\* get_latest and get_history agree on the last sample, in a ring of any length
\* and however often it wrapped.
THEOREM HubLatestIsLast == HubSpec => []LatestIsLast
  <1>1. HubTypeOK /\ TableShape => LatestIsLast
    <2> SUFFICES ASSUME HubTypeOK, TableShape, NEW n \in Names
                 PROVE  LET h == GetHistory(n, HistoryLen) IN
                        GetLatest(n) = IF h = << >> THEN << >> ELSE <<h[Len(h)]>>
      BY DEF LatestIsLast
    <2>1. CASE ~Known(n)
      BY <2>1 DEF GetHistory, GetLatest
    <2>2. ASSUME NEW i \in Slots, Holds(i, n)
          PROVE  GetLatest(n) = <<Newest(channels[i])>> /\ channels[i].count > 0
                 /\ GetHistory(n, HistoryLen) = Seen(channels[i]) /\ Ring(channels[i])
      <3>1. Known(n) /\ ChannelOf(n) = channels[i]
            /\ GetHistory(n, HistoryLen) = Seen(channels[i])
        BY <2>2, LookupUnique DEF LookupsExact
      <3>2. channels[i].count > 0 /\ Ring(channels[i])
        BY <2>2, RingOfEntry DEF TableShape, Holds
      <3> QED
        BY <3>1, <3>2 DEF GetLatest
    <2>3. CASE Known(n)
      <3>1. PICK i \in Slots : Holds(i, n)
        BY <2>3 DEF Known
      <3> QED
        BY <2>2, <3>1, NewestIsLast
    <2> QED
      BY <2>1, <2>3
  <1> QED
    BY <1>1, HubTableCorrect, PTL

\* The mapped window of the abstract specification.
Win == [n \in Names |-> GetHistory(n, HistoryLen)]

Reg == {n \in Names : Known(n)}

\* What readers see after a publish: the window of one channel has slid.
LEMMA WindowStep ==
    ASSUME HubTypeOK, TableShape, NEW n \in Names, Publish(n)
    PROVE  \/ ~Known(n) /\ UNCHANGED <<Reg, Win>> /\ \A i \in Slots : channels[i].in_use
           \/ /\ Known(n) \/ \E i \in Slots : ~channels[i].in_use
              /\ Reg' = Reg \cup {n}
              /\ Win' = [Win EXCEPT ![n] = Window!Slide(Win[n], now')]
  <1> USE HubAssumption DEF HubAssumption
  <1>1. HubTypeOK' /\ TableShape' /\ now' \in 0 .. MaxTime
    BY TableStep, PublishEffect
  <1>e. LookupsExact /\ LookupsExact'
    BY <1>1, LookupUnique, PTL
  <1>2. ASSUME channels' = channels
        PROVE  UNCHANGED <<Reg, Win>>
    BY <1>2 DEF Reg, Win, Known, Holds, GetHistory, ChannelOf, IsChannel
  <1>3. ASSUME NEW i \in Slots, NEW ch \in Channel, Ring(ch), ch.in_use, ch.name = n,
               \A j \in Slots : channels[j].in_use /\ channels[j].name = n => j = i,
               channels[i].in_use => channels[i].name = n,
               Win[n] = Seen(ch),
               channels' = [channels EXCEPT ![i] = Push(ch, now')]
        PROVE  /\ Reg' = Reg \cup {n}
               /\ Win' = [Win EXCEPT ![n] = Window!Slide(Win[n], now')]
    <2> DEFINE new == Push(ch, now')
    <2>1. new.in_use /\ new.name = n /\ Seen(new) = Window!Slide(Seen(ch), now')
      BY <1>1, <1>3, PushFields, PushSlides
    <2> HIDE DEF new
    <2>2. \A j \in Slots : channels'[j] = IF j = i THEN new ELSE channels[j]
      BY <1>3 DEF HubTypeOK, new
    <2>3. \A j \in Slots, m \in Names :
             Holds(j, m)' <=> IF j = i THEN m = n ELSE Holds(j, m)
      BY <2>1, <2>2 DEF Holds
    <2>4. \A m \in Names : Holds(i, m) => m = n
      BY <1>3 DEF Holds
    <2>5. \A m \in Names : Known(m)' <=> Known(m) \/ m = n
      BY <2>3, <2>4 DEF Known
    <2>6. GetHistory(n, HistoryLen)' = Window!Slide(Win[n], now')
      <3>1. Holds(i, n)'
        BY <2>3
      <3>2. GetHistory(n, HistoryLen)' = Seen(channels'[i])
        BY <1>e, <3>1 DEF LookupsExact
      <3> QED
        BY <1>3, <2>1, <2>2, <3>2
    <2>7. ASSUME NEW m \in Names, m # n
          PROVE  GetHistory(m, HistoryLen)' = Win[m]
      <3>1. CASE Known(m)
        <4>1. PICK j \in Slots : Holds(j, m)
          BY <3>1 DEF Known
        <4>2. j # i /\ Holds(j, m)' /\ channels'[j] = channels[j]
          BY <2>2, <2>3, <2>4, <2>7, <4>1
        <4>3. GetHistory(m, HistoryLen)' = Seen(channels'[j])
          BY <1>e, <4>2 DEF LookupsExact
        <4>4. GetHistory(m, HistoryLen) = Seen(channels[j])
          BY <1>e, <4>1 DEF LookupsExact
        <4> QED
          BY <4>2, <4>3, <4>4 DEF Win
      <3>2. CASE ~Known(m)
        BY <2>5, <2>7, <3>2 DEF GetHistory, Win
      <3> QED
        BY <3>1, <3>2
    <2>8. Reg' = Reg \cup {n}
      BY <2>5 DEF Reg
    <2>9. Win' = [Win EXCEPT ![n] = Window!Slide(Win[n], now')]
      BY <2>6, <2>7 DEF Win
    <2> QED
      BY <2>8, <2>9
  <1>4. ASSUME NEW i \in Slots, channels[i].in_use, channels[i].name = n,
               channels' = [channels EXCEPT ![i] = Push(channels[i], now')]
        PROVE  /\ Known(n)
               /\ Reg' = Reg \cup {n}
               /\ Win' = [Win EXCEPT ![n] = Window!Slide(Win[n], now')]
    <2>1. channels[i] \in Channel /\ Ring(channels[i])
      BY <1>4, RingOfEntry
    <2>2. \A j \in Slots : channels[j].in_use /\ channels[j].name = n => j = i
      BY <1>4 DEF TableShape
    <2>3. Known(n) /\ Win[n] = Seen(channels[i])
      BY <1>e, <1>4 DEF LookupsExact, Holds, Win
    <2> QED
      BY <1>3, <1>4, <2>1, <2>2, <2>3
  <1>5. ASSUME NEW i \in Slots, ~channels[i].in_use, ~Known(n),
               channels' = [channels EXCEPT ![i] = Push(Registered(n), now')]
        PROVE  /\ Reg' = Reg \cup {n}
               /\ Win' = [Win EXCEPT ![n] = Window!Slide(Win[n], now')]
    <2>1. \A j \in Slots : channels[j].in_use /\ channels[j].name = n => j = i
      BY <1>5 DEF Known, Holds
    <2>2. Win[n] = Seen(Registered(n))
      BY <1>5, RegisteredRing DEF Win, GetHistory
    <2> QED
      BY <1>3, <1>5, <2>1, <2>2, RegisteredRing
  <1> QED
    BY <1>2, <1>4, <1>5, PublishEffect

\* The registered names are as many as the entries in use.
LEMMA RegisteredCount ==
    ASSUME HubTypeOK, TableShape
    PROVE  /\ IsFiniteSet(Reg)
           /\ Cardinality(Reg) \in 0 .. MaxChannels
           /\ Cardinality(Reg) = MaxChannels <=> \A i \in Slots : channels[i].in_use
  <1> USE HubAssumption DEF HubAssumption
  <1> DEFINE Used == {i \in Slots : channels[i].in_use}
             nameOf == [i \in Used |-> channels[i].name]
  <1>1. IsFiniteSet(Slots) /\ Cardinality(Slots) = MaxChannels
    BY FS_Interval DEF Slots
  <1>2. /\ IsFiniteSet(Used)
        /\ Cardinality(Used) <= MaxChannels
        /\ Cardinality(Used) = MaxChannels => Used = Slots
    <2>1. Used \in SUBSET Slots
      OBVIOUS
    <2> QED
      BY <1>1, <2>1, FS_Subset
  <1>3. nameOf \in Bijection(Used, Reg)
    <2>1. \A i \in Used : nameOf[i] \in Reg
      BY DEF Reg, Known, Holds, TableShape
    <2>2. \A i, j \in Used : nameOf[i] = nameOf[j] => i = j
      BY DEF TableShape
    <2>3. \A n \in Reg : \E i \in Used : nameOf[i] = n
      BY DEF Reg, Known, Holds
    <2>4. nameOf \in [Used -> Reg]
      BY <2>1
    <2> HIDE DEF nameOf, Used
    <2> QED
      BY <2>2, <2>3, <2>4 DEF Bijection, Injection, IsInjective, Surjection
  <1>4. IsFiniteSet(Reg) /\ Cardinality(Reg) = Cardinality(Used)
    <2>1. ExistsBijection(Used, Reg)
      BY <1>3, Zenon DEF ExistsBijection
    <2> QED
      BY <1>2, <2>1, FS_Bijection
  <1>5. Cardinality(Used) \in Nat
    BY <1>2, FS_CardinalityType
  <1>6. Used = Slots <=> \A i \in Slots : channels[i].in_use
    OBVIOUS
  <1> HIDE DEF Used
  <1> QED
    BY <1>1, <1>2, <1>4, <1>5, <1>6

\* Cardinality is the same operator in the instance.
LEMMA WindowCardinality ==
    ASSUME NEW S
    PROVE  Window!Cardinality(S) = Cardinality(S)
  BY DEF Cardinality, Window!Cardinality

\* The ring table implements the abstract window: through data_hub_get_history
\* every reader sees the last HistoryLen samples of a channel, oldest first,
\* whatever the interleaving of the publishers.
THEOREM HubImplementsWindow == HubSpec => SlidingWindow
  <1> USE HubAssumption DEF HubAssumption
  <1>1. HubInit => Window!Init
    <2> SUFFICES ASSUME HubInit PROVE Window!Init
      OBVIOUS
    <2>1. \A n \in Names : ~Known(n)
      BY DEF HubInit, FreeChannel, EmptyRing, Known, Holds
    <2>2. now = 0
      BY DEF HubInit
    <2> QED
      BY <2>1, <2>2 DEF Window!Init, GetHistory
  <1>2. HubTypeOK /\ TableShape /\ [HubNext]_hubVars
            => [Window!Next]_<<Reg, Win, now>>
    <2>1. ASSUME UNCHANGED hubVars
          PROVE  UNCHANGED <<Reg, Win, now>>
      BY <2>1 DEF hubVars, Reg, Win, Known, Holds, GetHistory, ChannelOf, IsChannel
    <2>2. ASSUME HubTypeOK, TableShape, NEW n \in Names, Publish(n)
          PROVE  Window!Next
      <3>1. now' = now + 1
        BY <2>2, PublishEffect
      <3>2. /\ Cardinality(Reg) \in 0 .. MaxChannels
            /\ Cardinality(Reg) = MaxChannels <=> \A i \in Slots : channels[i].in_use
        BY <2>2, RegisteredCount
      <3>3. Known(n) <=> n \in Reg
        BY DEF Reg
      <3>4. CASE /\ ~Known(n) /\ UNCHANGED <<Reg, Win>>
                 /\ \A i \in Slots : channels[i].in_use
        <4>1. Window!Drop(n)
          BY <3>1, <3>2, <3>3, <3>4, WindowCardinality DEF Window!Drop, Reg, Win
        <4> QED
          BY <4>1 DEF Window!Next
      <3>5. CASE /\ Known(n) \/ \E i \in Slots : ~channels[i].in_use
                 /\ Reg' = Reg \cup {n}
                 /\ Win' = [Win EXCEPT ![n] = Window!Slide(Win[n], now')]
        <4>1. n \in Reg \/ Cardinality(Reg) < MaxChannels
          BY <3>2, <3>3, <3>5
        <4>2. Window!Accept(n)
          BY <3>1, <3>5, <4>1, WindowCardinality DEF Window!Accept, Reg, Win
        <4> QED
          BY <4>2 DEF Window!Next
      <3> QED
        BY <2>2, <3>4, <3>5, WindowStep
    <2> QED
      BY <2>1, <2>2 DEF HubNext
  <1>3. HubSpec => [](HubTypeOK /\ TableShape)
    BY HubTableCorrect
  <1> QED
    BY <1>1, <1>2, <1>3, PTL DEF HubSpec, SlidingWindow, Window!Spec, Reg, Win

-----------------------------------------------------------------------------
(* The listing *)

\* What data_hub_list_channels says of the entry i.
Line(i) == [name |-> channels[i].name, latest |-> Newest(channels[i])]

InUse == {i \in Slots : channels[i].in_use}

\* data_hub_list_channels, given room for the whole table, has one line for each
\* entry in use, and no two of one name.
Lists(l) ==
    /\ l \in Seq([name : Names, latest : 0 .. MaxTime])
    /\ \A j \in DOMAIN l : \E i \in InUse : l[j] = Line(i)
    /\ \A i \in InUse : \E j \in DOMAIN l : l[j] = Line(i)
    /\ \A j, k \in DOMAIN l : l[j].name = l[k].name => j = k

LEMMA NewestType ==
    ASSUME NEW ch, Ring(ch)
    PROVE  Newest(ch) \in 0 .. MaxTime
  <1> USE HubAssumption DEF HubAssumption
  <1>1. ch.head \in 0 .. HistoryLen - 1 /\ ch.history \in [Cells -> 0 .. MaxTime]
    BY DEF Ring, Cells
  <1>2. (ch.head + HistoryLen - 1) % HistoryLen \in Cells
    <2>1. /\ ch.head + HistoryLen - 1 \in Nat
          /\ ch.head + HistoryLen - 1 < HistoryLen + HistoryLen
      BY <1>1
    <2>2. (ch.head + HistoryLen - 1) % HistoryLen =
              IF ch.head + HistoryLen - 1 < HistoryLen THEN ch.head + HistoryLen - 1
                                                       ELSE ch.head - 1
      BY <1>1, <2>1, Wrap, SMT
    <2> QED
      BY <1>1, <2>2 DEF Cells
  <1> QED
    BY <1>1, <1>2 DEF Newest

LEMMA Listing ==
    ASSUME HubTypeOK, TableShape
    PROVE  Lists(ListChannels(MaxChannels))
  <1> USE HubAssumption DEF HubAssumption
  <1> DEFINE table == [i \in 1 .. MaxChannels |-> channels[i - 1]]
             wanted == {ch \in {channels[i] : i \in Slots} : ch.in_use}
             used == Keep(table, wanted)
             l == ListChannels(MaxChannels)
  <1>1. table \in Seq(Channel) /\ Len(table) = MaxChannels
    BY DEF HubTypeOK, Slots
  <1>2. Copied(used, Channel, table, wanted, MaxChannels)
    BY <1>1, KeepIs
  <1>3. /\ used \in Seq(Channel)
        /\ Len(used) \in Nat /\ Len(used) <= MaxChannels
        /\ DOMAIN used = 1 .. Len(used)
    BY <1>2 DEF Copied
  <1>4. \A ch \in wanted : \E i \in InUse : ch = channels[i]
    BY DEF InUse
  <1>5. ASSUME NEW j \in DOMAIN used
        PROVE  \E i \in InUse : used[j] = channels[i]
    BY <1>2, <1>4 DEF Copied
  <1>6. ASSUME NEW i \in InUse
        PROVE  \E j \in DOMAIN used : used[j] = channels[i]
    <2>1. i + 1 \in 1 .. MaxChannels /\ table[i + 1] = channels[i]
      BY DEF InUse, Slots
    <2>2. channels[i] \in wanted
      BY DEF InUse
    <2> HIDE DEF table, wanted, used
    <2> QED
      BY <1>2, <2>1, <2>2 DEF Copied
  <1>7. ASSUME NEW j \in DOMAIN used, NEW k \in DOMAIN used, j < k
        PROVE  used[j].name # used[k].name
    <2> HIDE DEF wanted, used
    <2>1. PICK a \in 1 .. MaxChannels, b \in 1 .. MaxChannels :
              a < b /\ used[j] = table[a] /\ used[k] = table[b]
      BY <1>2, <1>7, Zenon DEF Copied
    <2>2. used[j] \in wanted /\ used[k] \in wanted
      BY <1>2 DEF Copied
    <2>3. /\ a - 1 \in Slots /\ used[j] = channels[a - 1] /\ used[j].in_use
          /\ b - 1 \in Slots /\ used[k] = channels[b - 1] /\ used[k].in_use
          /\ a - 1 # b - 1
      BY <2>1, <2>2 DEF Slots, wanted
    <2> QED
      BY <2>3 DEF TableShape
  <1> HIDE DEF table, wanted
  <1>8. l = [j \in 1 .. Len(used) |-> [name |-> used[j].name, latest |-> Newest(used[j])]]
    <2>1. ASSUME NEW a \in Nat, a <= MaxChannels PROVE MinOf(a, MaxChannels) = a
      BY <2>1 DEF MinOf
    <2>2. MinOf(Len(used), MaxChannels) = Len(used)
      BY <1>3, <2>1
    <2> QED
      BY <2>2 DEF ListChannels, table, wanted
  <1> HIDE DEF used, l
  <1>9. ASSUME NEW j \in DOMAIN l
        PROVE  j \in DOMAIN used /\ l[j] = [name |-> used[j].name, latest |-> Newest(used[j])]
    BY <1>3, <1>8
  <1>10. ASSUME NEW i \in InUse
         PROVE  Line(i) \in [name : Names, latest : 0 .. MaxTime]
    <2>1. channels[i].name \in Names /\ Ring(channels[i])
      BY RingOfEntry DEF TableShape, InUse
    <2> QED
      BY <2>1, NewestType DEF Line
  <1>11. \A j \in DOMAIN l : \E i \in InUse : l[j] = Line(i)
    BY <1>5, <1>9 DEF Line
  <1>12. \A i \in InUse : \E j \in DOMAIN l : l[j] = Line(i)
    <2> SUFFICES ASSUME NEW i \in InUse PROVE \E j \in DOMAIN l : l[j] = Line(i)
      OBVIOUS
    <2>1. PICK j \in DOMAIN used : used[j] = channels[i]
      BY <1>6
    <2>2. j \in DOMAIN l
      BY <1>3, <1>8
    <2> QED
      BY <1>9, <2>1, <2>2 DEF Line
  <1>13. l \in Seq([name : Names, latest : 0 .. MaxTime])
    <2>1. DOMAIN l = 1 .. Len(used)
      BY <1>8
    <2>2. \A j \in 1 .. Len(used) : l[j] \in [name : Names, latest : 0 .. MaxTime]
      BY <1>10, <1>11, <2>1
    <2>3. l = [j \in 1 .. Len(used) |-> l[j]]
      BY <1>8
    <2> HIDE DEF l
    <2> QED
      BY <1>3, <2>2, <2>3
  <1>14. ASSUME NEW j \in DOMAIN l, NEW k \in DOMAIN l, l[j].name = l[k].name
         PROVE  j = k
    <2>1. j \in Nat /\ k \in Nat
      BY <1>3, <1>9
    <2>2. l[j].name = used[j].name /\ l[k].name = used[k].name
      BY <1>9
    <2> QED
      <3>1. j \in DOMAIN used /\ k \in DOMAIN used /\ used[j].name = used[k].name
        BY <1>9, <1>14, <2>2
      <3>2. ~(j < k) /\ ~(k < j)
        BY <1>7, <3>1
      <3> QED
        BY <2>1, <3>2
  <1>15. Lists(l)
    BY <1>11, <1>12, <1>13, <1>14 DEF Lists
  <1> QED
    BY <1>15 DEF l

\* The lookup of a name that is held: get_latest reports what is in its entry.
LEMMA LatestOf ==
    ASSUME HubTypeOK, TableShape, NEW i \in InUse
    PROVE  /\ channels[i].name \in Names
           /\ Known(channels[i].name)
           /\ GetLatest(channels[i].name) = <<Newest(channels[i])>>
  <1>1. channels[i].name \in Names /\ i \in Slots /\ channels[i].count > 0
    BY DEF InUse, TableShape
  <1>2. Holds(i, channels[i].name)
    BY DEF InUse, Holds
  <1>3. Known(channels[i].name) /\ ChannelOf(channels[i].name) = channels[i]
    BY <1>1, <1>2, LookupUnique DEF LookupsExact
  <1> QED
    BY <1>1, <1>3 DEF GetLatest

\* The three readers agree: what is listed is what is known, each name once and
\* with its latest sample, the one get_history ends with (data_hub.c:
\* list_channels, get_latest, get_history), for tables and rings of any size.
THEOREM HubReadersAgree == HubSpec => []ReadersAgree
  <1>1. ASSUME HubTypeOK, TableShape, LatestIsLast
        PROVE  ReadersAgree
    <2> DEFINE l == ListChannels(MaxChannels)
    <2>1. Lists(l)
      BY <1>1, Listing
    <2> HIDE DEF l
    <2>2. \A j \in DOMAIN l : GetLatest(l[j].name) = <<l[j].latest>>
      BY <1>1, <2>1, LatestOf DEF Lists, Line
    <2>3. ASSUME NEW n \in Names, Known(n)
          PROVE  \E j \in DOMAIN l : l[j].name = n
      BY <2>1, <2>3 DEF Lists, Line, Known, Holds, InUse
    <2>4. \A j \in DOMAIN l : l[j].name \in Names /\ Known(l[j].name)
      BY <1>1, <2>1, LatestOf DEF Lists, Line
    <2>5. {l[j].name : j \in DOMAIN l} = {n \in Names : Known(n)}
      BY <2>3, <2>4
    <2>6. \A j, k \in DOMAIN l : l[j].name = l[k].name => j = k
      BY <2>1 DEF Lists
    <2> QED
      BY <1>1, <2>2, <2>5, <2>6 DEF ReadersAgree, l
  <1> QED
    BY <1>1, HubTableCorrect, HubLatestIsLast, PTL

-----------------------------------------------------------------------------
(* Order *)

Increasing(s) == \A j, k \in DOMAIN s : j < k => s[j] < s[k]

LEMMA SlideIncreasing ==
    ASSUME NEW t \in Nat, NEW s \in Seq(1 .. t), Increasing(s)
    PROVE  /\ Window!Slide(s, t + 1) \in Seq(1 .. t + 1)
           /\ Increasing(Window!Slide(s, t + 1))
  <1> USE HubAssumption DEF HubAssumption
  <1>1. ASSUME NEW u \in Seq(1 .. t), Increasing(u)
        PROVE  Append(u, t + 1) \in Seq(1 .. t + 1) /\ Increasing(Append(u, t + 1))
    <2>1. u \in Seq(1 .. t + 1) /\ t + 1 \in 1 .. t + 1
      OBVIOUS
    <2>2. Append(u, t + 1) = [j \in 1 .. Len(u) + 1 |-> IF j = Len(u) + 1 THEN t + 1 ELSE u[j]]
      BY <2>1, AppendIndexed
    <2>3. \A j \in 1 .. Len(u) : u[j] \in 1 .. t
      BY <1>1
    <2>4. Len(u) \in Nat /\ DOMAIN u = 1 .. Len(u)
      BY <1>1
    <2>5. Increasing(Append(u, t + 1))
      BY <1>1, <2>2, <2>3, <2>4 DEF Increasing
    <2> QED
      BY <2>1, <2>5
  <1>2. CASE Len(s) < HistoryLen
    BY <1>1, <1>2 DEF Window!Slide
  <1>3. CASE ~(Len(s) < HistoryLen)
    <2>1. Len(s) \in Nat /\ Len(s) > 0
      BY <1>3
    <2>2. /\ Tail(s) \in Seq(1 .. t)
          /\ Len(Tail(s)) = Len(s) - 1
          /\ \A j \in 1 .. Len(s) - 1 : Tail(s)[j] = s[j + 1]
      BY <2>1, TailIndexed
    <2>3. DOMAIN Tail(s) = 1 .. Len(s) - 1 /\ DOMAIN s = 1 .. Len(s)
      BY <2>1, <2>2
    <2>4. Increasing(Tail(s))
      BY <2>1, <2>2, <2>3 DEF Increasing
    <2> QED
      BY <1>1, <1>3, <2>2, <2>4 DEF Window!Slide
  <1> QED
    BY <1>2, <1>3

\* Everything a reader can get is a sequence of past, increasing times.
WindowsOrdered == \A n \in Names : Win[n] \in Seq(1 .. now) /\ Increasing(Win[n])

LEMMA WindowsOrderedStep ==
    ASSUME HubTypeOK, TableShape, WindowsOrdered, NEW n \in Names, Publish(n)
    PROVE  WindowsOrdered'
  <1> USE HubAssumption DEF HubAssumption
  <1>1. now \in Nat /\ now' = now + 1
    BY PublishEffect DEF HubTypeOK
  <1>2. \A m \in Names : Win[m] \in Seq(1 .. now')
    BY <1>1 DEF WindowsOrdered
  <1>3. CASE UNCHANGED Win
    BY <1>2, <1>3 DEF WindowsOrdered
  <1>4. CASE Win' = [Win EXCEPT ![n] = Window!Slide(Win[n], now')]
    <2>1. /\ Window!Slide(Win[n], now') \in Seq(1 .. now')
          /\ Increasing(Window!Slide(Win[n], now'))
      BY <1>1, SlideIncreasing DEF WindowsOrdered
    <2>2. ASSUME NEW m \in Names
          PROVE  Win'[m] = IF m = n THEN Window!Slide(Win[n], now') ELSE Win[m]
      BY <1>4 DEF Win
    <2> QED
      BY <1>2, <2>1, <2>2 DEF WindowsOrdered
  <1> QED
    BY <1>3, <1>4, WindowStep

\* data_hub_get_history returns strictly increasing times, none of them a cell
\* that was never written, in every reachable state.
THEOREM HubHistoryOrdered == HubSpec => []HistoryOrdered
  <1> USE HubAssumption DEF HubAssumption
  <1>1. HubInit => WindowsOrdered
    <2> SUFFICES ASSUME HubInit PROVE WindowsOrdered
      OBVIOUS
    <2>1. \A n \in Names : Win[n] = << >>
      BY DEF HubInit, FreeChannel, EmptyRing, Known, Holds, GetHistory, Win
    <2>2. now = 0 /\ << >> \in Seq(1 .. 0) /\ Increasing(<< >>)
      BY DEF HubInit, Increasing
    <2> QED
      BY <2>1, <2>2 DEF WindowsOrdered
  <1>2. HubTypeOK /\ TableShape /\ WindowsOrdered /\ [HubNext]_hubVars => WindowsOrdered'
    <2>1. ASSUME UNCHANGED hubVars
          PROVE  UNCHANGED <<Win, now>>
      BY <2>1 DEF hubVars, Win, Known, Holds, GetHistory, ChannelOf, IsChannel
    <2>2. ASSUME UNCHANGED hubVars, WindowsOrdered
          PROVE  WindowsOrdered'
      BY <2>1, <2>2 DEF WindowsOrdered
    <2> QED
      BY <2>2, WindowsOrderedStep DEF HubNext
  <1>3. WindowsOrdered => HistoryOrdered
    <2> SUFFICES ASSUME WindowsOrdered, NEW n \in Names
                 PROVE  LET h == GetHistory(n, HistoryLen) IN
                            /\ \A j \in DOMAIN h : h[j] \in 1 .. now
                            /\ \A j, k \in DOMAIN h : j < k => h[j] < h[k]
      BY DEF HistoryOrdered
    <2> DEFINE h == GetHistory(n, HistoryLen)
    <2>1. h \in Seq(1 .. now) /\ Increasing(h)
      BY DEF WindowsOrdered, Win
    <2> HIDE DEF h
    <2>2. \A j \in DOMAIN h : h[j] \in 1 .. now
      BY <2>1, SeqElement, Zenon
    <2>3. \A j, k \in DOMAIN h : j < k => h[j] < h[k]
      BY <2>1, Zenon DEF Increasing
    <2> QED
      BY <2>2, <2>3 DEF h
  <1> QED
    BY <1>1, <1>2, <1>3, HubTableCorrect, PTL DEF HubSpec

=============================================================================
