----------------------------- MODULE UartProofs -----------------------------
(***************************************************************************)
(* Proofs about uart_link.  First uart_link_query against dispatch_line,   *)
(* on two cores, for any number of callers, lines and queries: a reply     *)
(* goes to the caller that waits, and is a new one, but for the query that *)
(* gave up too late (`raced`).  The invariant ties where the holder of     *)
(* s_query_mutex is to what the RX task is doing.  Then UartRx: for every  *)
(* buffer size and every stream of bytes the buffer is not overrun, and    *)
(* the lines dispatched are those sent.  The invariant says of the whole   *)
(* stream so far what line[] and `dispatched` hold of it; each byte moves  *)
(* both sides alike.  UartLink takes the steps of UartRx or none.          *)
(***************************************************************************)
EXTENDS UartLink, DataHubProofs, SequenceTheorems

-----------------------------------------------------------------------------
(* Queries *)

\* Where a caller is while it holds s_query_mutex.
Inside == {"buffer", "drain", "arm", "wait", "expired", "ok", "timeout"}
MutexHeld ==
    /\ \A c \in Callers : query[c] \in Inside <=> s_query_mutex = c
    /\ \A c \in Callers : query[c] \in {"drain", "arm", "wait", "expired"} => s_reply_buf = c
    /\ \A c \in Callers : armed[c] <= Arrived

\* The RX task takes a line for a reply only while the holder waits, or has
\* given up and not yet said so.
Waited ==
    /\ s_query_pending \/ Replying =>
          s_query_mutex \in Callers /\ query[s_query_mutex] \in {"wait", "expired"}
    /\ rx = "give" => ~s_query_pending
    /\ \A c \in Callers : query[c] = "wait" /\ s_reply_ready => ~s_query_pending /\ ~Replying

\* A signal in the semaphore of a caller that waits stands for a new line.
Signalled ==
    /\ rx = "copy" => armed[s_query_mutex] < Arrived
    /\ rx \in {"clear", "give"} => armed[s_query_mutex] < reply[s_query_mutex]
    /\ \A c \in Callers : query[c] = "arm" => ~s_reply_ready
    /\ \A c \in Callers : query[c] = "wait" /\ s_reply_ready => armed[c] < reply[c]
    /\ \A c \in Callers : query[c] = "ok" => armed[c] < reply[c]

LinkInv ==
    /\ LinkTypeOK /\ TableShape /\ MutexHeld
    /\ ~raced => Waited /\ Signalled

\* The steps of the RX task, and a byte that arrives.
LEMMA RxSteps ==
    ASSUME LinkInv, Byte \/ Arrive \/ CopyReply \/ ClearPending \/ GiveReply
    PROVE  LinkInv'
  <1>. USE LinkAssumption DEF LinkAssumption, LinkInv, Arrived, Replying
  <1>1. HubTypeOK' /\ TableShape'
    BY DEF Byte, Arrive, CopyReply, ClearPending, GiveReply, HubTypeOK, TableShape, LinkTypeOK,
           hubVars
  <1>2. CASE Byte
    <2>1. Len(dispatched)' = Len(dispatched)
      BY <1>2 DEF Byte, CarriageReturn, EndOfLine, Store, Overrun
    <2>2. UNCHANGED <<linkVars, callVars>>
      BY <1>2 DEF Byte
    <2>. QED
      BY <1>1, <2>1, <2>2 DEF linkVars, callVars, LinkTypeOK, MutexHeld, Waited, Signalled
  <1>3. CASE Arrive
    <2>1. Len(dispatched)' = Len(dispatched) + 1 /\ Len(dispatched) \in Nat
      BY <1>3 DEF Arrive, EndOfLine, LinkTypeOK
    <2>2. LinkTypeOK'
      BY <1>1, <1>3, <2>1 DEF Arrive, callVars, LinkTypeOK
    <2>3. MutexHeld'
      BY <1>3, <2>1 DEF Arrive, callVars, LinkTypeOK, MutexHeld
    <2>4. ASSUME ~raced' PROVE Waited' /\ Signalled'
      BY <1>3, <2>1, <2>4 DEF Arrive, callVars, LinkTypeOK, MutexHeld, Waited, Signalled
    <2>. QED
      BY <1>1, <2>2, <2>3, <2>4
  <1>4. CASE CopyReply
    <2>1. UNCHANGED Len(dispatched)
      BY <1>4 DEF CopyReply, rxVars
    <2>2. LinkTypeOK' /\ MutexHeld'
      BY <1>1, <1>4, <2>1 DEF CopyReply, LinkTypeOK, MutexHeld
    <2>3. ASSUME ~raced' PROVE Waited' /\ Signalled'
      <3>1. s_reply_buf = s_query_mutex /\ s_query_mutex \in Callers
        BY <1>4, <2>3 DEF CopyReply, MutexHeld, Waited
      <3>. QED
        BY <1>4, <2>1, <2>3, <3>1 DEF CopyReply, LinkTypeOK, MutexHeld, Waited, Signalled
    <2>. QED
      BY <1>1, <2>2, <2>3
  <1>5. CASE ClearPending
    <2>1. LinkTypeOK' /\ MutexHeld'
      BY <1>1, <1>5 DEF ClearPending, rxVars, callVars, LinkTypeOK, MutexHeld
    <2>2. ASSUME ~raced' PROVE Waited' /\ Signalled'
      BY <1>5, <2>2 DEF ClearPending, rxVars, callVars, LinkTypeOK, Waited, Signalled
    <2>. QED
      BY <1>1, <2>1, <2>2
  <1>6. CASE GiveReply
    <2>1. LinkTypeOK' /\ MutexHeld'
      BY <1>1, <1>6 DEF GiveReply, rxVars, callVars, LinkTypeOK, MutexHeld
    <2>2. \A c \in Callers : query[c] \in {"arm", "wait"} => c = s_query_mutex
      BY DEF MutexHeld, Inside
    <2>3. ASSUME ~raced' PROVE Waited' /\ Signalled'
      BY <1>6, <2>2, <2>3 DEF GiveReply, rxVars, callVars, LinkTypeOK, Waited, Signalled
    <2>. QED
      BY <1>1, <2>1, <2>3
  <1>. QED
    BY <1>2, <1>3, <1>4, <1>5, <1>6

\* A line nobody waits for.
LEMMA LineHandled ==
    ASSUME LinkInv, HandleLine
    PROVE  LinkInv'
  <1>. USE DEF LinkInv, HandleLine, callVars, rxVars, Arrived, Replying
  <1>1. HubTypeOK' /\ TableShape'
    BY TableStep DEF LinkTypeOK, hubVars, HubTypeOK, TableShape
  <1>2. LinkTypeOK' /\ MutexHeld'
    BY <1>1 DEF LinkTypeOK, MutexHeld
  <1>3. ~raced => Waited' /\ Signalled'
    BY DEF Waited, Signalled
  <1>. QED
    BY <1>1, <1>2, <1>3

\* The steps of a call.
LEMMA CallSteps ==
    ASSUME LinkInv, NEW c \in Callers, Enter(c) \/ Query(c)
    PROVE  LinkInv'
  <1>. USE LinkAssumption DEF LinkAssumption, LinkInv, At, Goes, linkVars, Arrived, Replying
  <1>1. HubTypeOK' /\ TableShape' /\ UNCHANGED rx /\ UNCHANGED Len(dispatched)
    BY DEF Enter, Query, TakeMutex, MutexTimeout, SetBuffer, Drain, Arm, TakeReply,
           ReplyTimeout, Disarm, Return, hubVars, rxVars, HubTypeOK, TableShape, LinkTypeOK
  <1>2. CASE Enter(c)
    <2>1. LinkTypeOK'
      BY <1>1, <1>2 DEF Enter, LinkTypeOK
    <2>2. MutexHeld'
      BY <1>1, <1>2 DEF Enter, LinkTypeOK, MutexHeld, Inside
    <2>3. ASSUME ~raced' PROVE Waited'
      BY <1>1, <1>2, <2>3 DEF Enter, LinkTypeOK, MutexHeld, Inside, Waited
    <2>4. ASSUME ~raced' PROVE Signalled'
      BY <1>1, <1>2, <2>4 DEF Enter, LinkTypeOK, MutexHeld, Inside, Waited, Signalled
    <2>. QED
      BY <1>1, <2>1, <2>2, <2>3, <2>4
  <1>3. CASE TakeMutex(c)
    <2>1. LinkTypeOK'
      BY <1>1, <1>3 DEF TakeMutex, LinkTypeOK
    <2>2. MutexHeld'
      BY <1>1, <1>3 DEF TakeMutex, LinkTypeOK, MutexHeld, Inside
    <2>3. ASSUME ~raced' PROVE Waited'
      BY <1>1, <1>3, <2>3 DEF TakeMutex, LinkTypeOK, MutexHeld, Inside, Waited
    <2>4. ASSUME ~raced' PROVE Signalled'
      BY <1>1, <1>3, <2>4 DEF TakeMutex, LinkTypeOK, MutexHeld, Inside, Waited, Signalled
    <2>. QED
      BY <1>1, <2>1, <2>2, <2>3, <2>4
  <1>4. CASE MutexTimeout(c)
    <2>1. LinkTypeOK'
      BY <1>1, <1>4 DEF MutexTimeout, LinkTypeOK
    <2>2. MutexHeld'
      BY <1>1, <1>4 DEF MutexTimeout, LinkTypeOK, MutexHeld, Inside
    <2>3. ASSUME ~raced' PROVE Waited'
      BY <1>1, <1>4, <2>3 DEF MutexTimeout, LinkTypeOK, MutexHeld, Inside, Waited
    <2>4. ASSUME ~raced' PROVE Signalled'
      BY <1>1, <1>4, <2>4 DEF MutexTimeout, LinkTypeOK, MutexHeld, Inside, Waited, Signalled
    <2>. QED
      BY <1>1, <2>1, <2>2, <2>3, <2>4
  <1>5. CASE SetBuffer(c)
    <2>1. LinkTypeOK'
      BY <1>1, <1>5 DEF SetBuffer, LinkTypeOK
    <2>2. MutexHeld'
      BY <1>1, <1>5 DEF SetBuffer, LinkTypeOK, MutexHeld, Inside
    <2>3. ASSUME ~raced' PROVE Waited'
      BY <1>1, <1>5, <2>3 DEF SetBuffer, LinkTypeOK, MutexHeld, Inside, Waited
    <2>4. ASSUME ~raced' PROVE Signalled'
      BY <1>1, <1>5, <2>4 DEF SetBuffer, LinkTypeOK, MutexHeld, Inside, Waited, Signalled
    <2>. QED
      BY <1>1, <2>1, <2>2, <2>3, <2>4
  <1>6. CASE Drain(c)
    <2>1. LinkTypeOK'
      BY <1>1, <1>6 DEF Drain, LinkTypeOK
    <2>2. MutexHeld'
      BY <1>1, <1>6 DEF Drain, LinkTypeOK, MutexHeld, Inside
    <2>3. ASSUME ~raced' PROVE Waited'
      BY <1>1, <1>6, <2>3 DEF Drain, LinkTypeOK, MutexHeld, Inside, Waited
    <2>4. ASSUME ~raced' PROVE Signalled'
      BY <1>1, <1>6, <2>4 DEF Drain, LinkTypeOK, MutexHeld, Inside, Waited, Signalled
    <2>. QED
      BY <1>1, <2>1, <2>2, <2>3, <2>4
  <1>7. CASE Arm(c)
    <2>0. s_reply_buf # NoCaller /\ Len(dispatched) \in Nat
      BY <1>7 DEF Arm, MutexHeld, LinkTypeOK
    <2>1. LinkTypeOK'
      BY <1>1, <1>7, <2>0 DEF Arm, LinkTypeOK
    <2>2. MutexHeld'
      BY <1>1, <1>7 DEF Arm, LinkTypeOK, MutexHeld, Inside
    <2>3. ASSUME ~raced' PROVE Waited'
      BY <1>1, <1>7, <2>3 DEF Arm, LinkTypeOK, MutexHeld, Inside, Waited, Signalled
    <2>4. ASSUME ~raced' PROVE Signalled'
      BY <1>1, <1>7, <2>4 DEF Arm, LinkTypeOK, MutexHeld, Inside, Waited, Signalled
    <2>. QED
      BY <1>1, <2>1, <2>2, <2>3, <2>4
  <1>8. CASE TakeReply(c)
    <2>1. LinkTypeOK'
      BY <1>1, <1>8 DEF TakeReply, LinkTypeOK
    <2>2. MutexHeld'
      BY <1>1, <1>8 DEF TakeReply, LinkTypeOK, MutexHeld, Inside
    <2>3. ASSUME ~raced' PROVE Waited'
      BY <1>1, <1>8, <2>3 DEF TakeReply, LinkTypeOK, MutexHeld, Inside, Waited
    <2>4. ASSUME ~raced' PROVE Signalled'
      BY <1>1, <1>8, <2>4 DEF TakeReply, LinkTypeOK, MutexHeld, Inside, Waited, Signalled
    <2>. QED
      BY <1>1, <2>1, <2>2, <2>3, <2>4
  <1>9. CASE ReplyTimeout(c)
    <2>1. LinkTypeOK'
      BY <1>1, <1>9 DEF ReplyTimeout, LinkTypeOK
    <2>2. MutexHeld'
      BY <1>1, <1>9 DEF ReplyTimeout, LinkTypeOK, MutexHeld, Inside
    <2>3. ASSUME ~raced' PROVE Waited'
      BY <1>1, <1>9, <2>3 DEF ReplyTimeout, LinkTypeOK, MutexHeld, Inside, Waited
    <2>4. ASSUME ~raced' PROVE Signalled'
      BY <1>1, <1>9, <2>4 DEF ReplyTimeout, LinkTypeOK, MutexHeld, Inside, Waited, Signalled
    <2>. QED
      BY <1>1, <2>1, <2>2, <2>3, <2>4
  <1>10. CASE Disarm(c)
    <2>1. LinkTypeOK'
      BY <1>1, <1>10 DEF Disarm, LinkTypeOK
    <2>2. MutexHeld'
      BY <1>1, <1>10 DEF Disarm, LinkTypeOK, MutexHeld, Inside
    <2>3. ASSUME ~raced' PROVE Waited'
      BY <1>1, <1>10, <2>3 DEF Disarm, LinkTypeOK, MutexHeld, Inside, Waited
    <2>4. ASSUME ~raced' PROVE Signalled'
      BY <1>1, <1>10, <2>4 DEF Disarm, LinkTypeOK, MutexHeld, Inside, Waited, Signalled
    <2>. QED
      BY <1>1, <2>1, <2>2, <2>3, <2>4
  <1>11. CASE Return(c)
    <2>1. LinkTypeOK'
      BY <1>1, <1>11 DEF Return, LinkTypeOK
    <2>2. MutexHeld'
      BY <1>1, <1>11 DEF Return, LinkTypeOK, MutexHeld, Inside
    <2>3. ASSUME ~raced' PROVE Waited'
      BY <1>1, <1>11, <2>3 DEF Return, LinkTypeOK, MutexHeld, Inside, Waited
    <2>4. ASSUME ~raced' PROVE Signalled'
      BY <1>1, <1>11, <2>4 DEF Return, LinkTypeOK, MutexHeld, Inside, Waited, Signalled
    <2>. QED
      BY <1>1, <2>1, <2>2, <2>3, <2>4
  <1>. QED
    BY <1>2, <1>3, <1>4, <1>5, <1>6, <1>7, <1>8, <1>9, <1>10, <1>11 DEF Query

\* With two cores too; what breaks it is in `raced`.
LEMMA LinkInvariant == Spec => []LinkInv
<1>1. Init => LinkInv
  <2>. SUFFICES ASSUME Init PROVE LinkInv
    OBVIOUS
  <2>. USE LinkAssumption DEF LinkAssumption, Init, RxInit, Arrived, Replying
  <2>1. HubTypeOK /\ TableShape
    BY TableInit
  <2>2. reply \in [Callers -> Nat] /\ armed \in [Callers -> Nat] /\ Len(dispatched) = 0
    OBVIOUS
  <2>3. LinkTypeOK
    BY <2>1, <2>2 DEF LinkTypeOK
  <2>. QED
    BY <2>1, <2>2, <2>3 DEF LinkInv, MutexHeld, Inside, Waited, Signalled
<1>2. LinkInv /\ [Next]_vars => LinkInv'
  <2>1. ASSUME LinkInv, UNCHANGED vars PROVE LinkInv'
    BY <2>1 DEF vars, hubVars, rxVars, linkVars, callVars, LinkInv, LinkTypeOK, HubTypeOK,
                TableShape, MutexHeld, Waited, Signalled, Arrived, Replying
  <2>. QED
    BY <2>1, RxSteps, LineHandled, CallSteps DEF Next, RxTask
<1>. QED
  BY <1>1, <1>2, PTL DEF Spec

\* A query that succeeds got a line sent after it began to wait, whatever was
\* late for the queries before it (uart_link_query's drain of the semaphore,
\* dispatch_line), unless one gave up while its reply was being handled and the
\* link has not been at rest since.
THEOREM LinkReplyFresh == Spec => []ReplyFresh
<1>1. LinkInv => ReplyFresh
  BY DEF LinkInv, LinkTypeOK, Signalled, ReplyFresh
<1>. QED
  BY <1>1, LinkInvariant, PTL

\* dispatch_line writes only into the buffer of a call that has not returned, with
\* the same exception.
THEOREM LinkBufferOwned == Spec => BufferOwned
<1>1. LinkInv => [CopyReply => raced \/ query[s_reply_buf] \in {"wait", "expired"}]_vars
  BY DEF LinkInv, MutexHeld, Waited, Replying, CopyReply
<1>. QED
  BY <1>1, LinkInvariant, PTL DEF BufferOwned

-----------------------------------------------------------------------------
(* The line buffer *)

\* Every step of the RX task keeps the line, and the zero that will end it,
\* inside the buffer (uart_link.c, uart_rx_task).
LEMMA RxStep == RxTypeOK /\ [RxNext]_rxVars => RxTypeOK'
  <1>. SUFFICES ASSUME RxTypeOK, [RxNext]_rxVars PROVE RxTypeOK'
    OBVIOUS
  <1>. USE RxAssumption DEF RxAssumption, RxTypeOK, Receive
  <1>1. CASE CarriageReturn
    BY <1>1 DEF CarriageReturn
  <1>2. CASE EndOfLine
    BY <1>2 DEF EndOfLine
  <1>3. ASSUME NEW byte \in Chars, Store(byte) PROVE RxTypeOK'
    BY <1>3 DEF Store
  <1>4. ASSUME NEW byte \in Chars, Overrun(byte) PROVE RxTypeOK'
    BY <1>4 DEF Overrun
  <1>5. CASE UNCHANGED rxVars
    BY <1>5 DEF rxVars
  <1>. QED
    BY <1>1, <1>2, <1>3, <1>4, <1>5 DEF RxNext

\* The write of a byte and the write of the terminating zero are inside line[],
\* for every UART_LINK_LINE_MAX and whatever the MCU sends.
THEOREM RxBuffer == RxSpec => []RxTypeOK
  <1>1. RxInit => RxTypeOK
    BY RxAssumption DEF RxAssumption, RxInit, RxTypeOK
  <1>2. QED
    BY <1>1, RxStep, PTL DEF RxSpec

-----------------------------------------------------------------------------
(* The lines of a stream *)

LEMMA SubSeqAppend ==
    ASSUME NEW T, NEW p \in Seq(T), NEW e \in T, NEW m \in 1 .. Len(p) + 1
    PROVE  /\ SubSeq(Append(p, e), m, Len(p) + 1) = Append(SubSeq(p, m, Len(p)), e)
           /\ \A k \in 0 .. Len(p) : SubSeq(Append(p, e), m, k) = SubSeq(p, m, k)
  <1> DEFINE q == Append(p, e)
             n == Len(p)
  <1>1. /\ n \in Nat /\ Len(q) = n + 1 /\ q \in Seq(T) /\ q[n + 1] = e
        /\ \A i \in 1 .. n : q[i] = p[i] /\ p[i] \in T
        /\ \A i \in 1 .. n + 1 : q[i] \in T
    OBVIOUS
  <1> HIDE DEF q, n
  <1>2. ASSUME NEW k \in 0 .. n PROVE SubSeq(q, m, k) = SubSeq(p, m, k)
    <2>1. /\ SubSeq(q, m, k) = [i \in 1 .. k - m + 1 |-> q[i + m - 1]]
          /\ SubSeq(p, m, k) = [i \in 1 .. k - m + 1 |-> p[i + m - 1]]
      BY <1>1 DEF n
    <2>2. \A i \in 1 .. k - m + 1 : i + m - 1 \in 1 .. n
      BY <1>1 DEF n
    <2> QED
      BY <1>1, <2>1, <2>2
  <1>3. SubSeq(q, m, n + 1) = Append(SubSeq(q, m, n), e)
    <2>1. /\ SubSeq(q, m, n + 1) \in Seq(T) /\ SubSeq(q, m, n) \in Seq(T)
          /\ Len(SubSeq(q, m, n + 1)) = n + 2 - m /\ Len(SubSeq(q, m, n)) = n + 1 - m
          /\ \A i \in 1 .. n + 2 - m : SubSeq(q, m, n + 1)[i] = q[m + i - 1]
          /\ \A i \in 1 .. n + 1 - m : SubSeq(q, m, n)[i] = q[m + i - 1]
      <3>1. /\ \A i \in m .. n + 1 : q[i] \in T
            /\ \A i \in m .. n : q[i] \in T
            /\ m \in Int /\ n \in Int /\ n + 1 \in Int /\ m <= n + 1
        BY <1>1 DEF n
      <3>2. /\ SubSeq(q, m, n + 1) \in Seq(T)
            /\ Len(SubSeq(q, m, n + 1)) = IF m <= n + 1 THEN n + 1 - m + 1 ELSE 0
            /\ \A i \in 1 .. n + 1 - m + 1 : SubSeq(q, m, n + 1)[i] = q[m + i - 1]
        BY <3>1, SubSeqProperties
      <3>3. /\ SubSeq(q, m, n) \in Seq(T)
            /\ Len(SubSeq(q, m, n)) = IF m <= n THEN n - m + 1 ELSE 0
            /\ \A i \in 1 .. n - m + 1 : SubSeq(q, m, n)[i] = q[m + i - 1]
        BY <3>1, SubSeqProperties
      <3>4. n + 1 - m + 1 = n + 2 - m /\ n - m + 1 = n + 1 - m
        BY <3>1
      <3> QED
        BY <3>1, <3>2, <3>3, <3>4
    <2> DEFINE a == SubSeq(q, m, n + 1)
               b == SubSeq(q, m, n)
               c == Append(b, e)
    <2> HIDE DEF a, b
    <2>2. /\ c \in Seq(T) /\ Len(c) = n + 2 - m /\ c[n + 2 - m] = e
          /\ \A i \in 1 .. n + 1 - m : c[i] = b[i]
      <3>1. b \in Seq(T) /\ Len(b) = n + 1 - m /\ Len(b) + 1 = n + 2 - m /\ Len(b) \in Nat
        BY <1>1, <2>1 DEF b
      <3>2. /\ c \in Seq(T) /\ Len(c) = Len(b) + 1 /\ c[Len(b) + 1] = e
            /\ \A i \in 1 .. Len(b) : c[i] = b[i]
        BY <3>1
      <3> QED
        BY <3>1, <3>2
    <2> HIDE DEF c
    <2>3. ASSUME NEW i \in 1 .. n + 2 - m PROVE a[i] = c[i]
      <3>1. CASE i \in 1 .. n + 1 - m
        BY <2>1, <2>2, <2>3, <3>1 DEF a, b
      <3>2. CASE i = n + 2 - m
        <4>1. m + i - 1 = n + 1
          BY <1>1, <3>2
        <4> QED
          BY <1>1, <2>1, <2>2, <3>2, <4>1 DEF a
      <3> QED
        BY <1>1, <3>1, <3>2
    <2>4. a \in Seq(T) /\ Len(a) = n + 2 - m
      BY <2>1 DEF a
    <2>5. a = c
      BY <2>2, <2>3, <2>4, SeqEqual
    <2> QED
      BY <2>5 DEF a, b, c
  <1>4. n \in 0 .. n
    BY <1>1
  <1> QED
    BY <1>2, <1>3, <1>4 DEF q, n

LEMMA EndsType ==
    ASSUME NEW t, Len(t) \in Nat
    PROVE  Ends(t) \in Seq(1 .. Len(t))
  <1> DEFINE s == [j \in 1 .. Len(t) |-> j]
             w == {j \in DOMAIN t : t[j] = LF}
  <1>1. s \in Seq(1 .. Len(t))
    OBVIOUS
  <1> HIDE DEF s, w
  <1>2. Copied(Keep(s, w), 1 .. Len(t), s, w, Len(s))
    BY <1>1, KeepIs
  <1> QED
    BY <1>2 DEF Copied, Ends, s, w

LEMMA EndsAppend ==
    ASSUME NEW T, NEW t \in Seq(T), NEW e \in T
    PROVE  Ends(Append(t, e)) = IF e = LF THEN Append(Ends(t), Len(t) + 1) ELSE Ends(t)
  <1> DEFINE n == Len(t)
             u == Append(t, e)
             s == [j \in 1 .. n |-> j]
             v == {j \in DOMAIN t : t[j] = LF}
             w == {j \in DOMAIN u : u[j] = LF}
  <1>1. /\ n \in Nat /\ Len(u) = n + 1 /\ DOMAIN t = 1 .. n /\ DOMAIN u = 1 .. n + 1
        /\ u[n + 1] = e /\ \A i \in 1 .. n : u[i] = t[i]
    OBVIOUS
  <1>2. s \in Seq(1 .. n + 1) /\ Len(s) = n /\ n + 1 \in 1 .. n + 1 /\ \A i \in 1 .. n : s[i] = i
    BY <1>1
  <1>3. [j \in 1 .. n + 1 |-> j] = Append(s, n + 1)
    BY <1>1, <1>2
  <1>4. Ends(u) = Keep(Append(s, n + 1), w)
    BY <1>1, <1>3 DEF Ends
  <1>5. \A i \in 1 .. n : s[i] \in v <=> s[i] \in w
    <2> SUFFICES ASSUME NEW i \in 1 .. n PROVE s[i] \in v <=> s[i] \in w
      OBVIOUS
    <2>1. s[i] = i /\ i \in 1 .. n + 1 /\ u[i] = t[i]
      BY <1>1, <1>2
    <2> QED
      BY <1>1, <2>1
  <1>6. n + 1 \in w <=> e = LF
    BY <1>1, <1>2
  <1>7. Ends(t) = Keep(s, v)
    BY DEF Ends
  <1> HIDE DEF s, v, w, u
  <1>8. Keep(s, v) = Keep(s, w)
    BY <1>1, <1>2, <1>5, KeepSame
  <1>9. Keep(Append(s, n + 1), w) = Turn(Keep(s, w), n + 1, w)
    BY <1>2, KeepAppend
  <1> QED
    BY <1>4, <1>6, <1>7, <1>8, <1>9 DEF Turn, u

\* The line the stream is in the middle of.
LastEnd(t) == IF Len(Ends(t)) = 0 THEN 0 ELSE Ends(t)[Len(Ends(t))]
Rest(t) == SubSeq(t, LastEnd(t) + 1, Len(t))

LEMMA LastEndType ==
    ASSUME NEW t, Len(t) \in Nat
    PROVE  LastEnd(t) \in 0 .. Len(t) /\ Len(Ends(t)) \in Nat
  <1>1. Ends(t) \in Seq(1 .. Len(t))
    BY EndsType
  <1> QED
    BY <1>1 DEF LastEnd

\* A byte more ends that line, or makes it longer.
LEMMA RestAppend ==
    ASSUME NEW T, NEW t \in Seq(T), NEW e \in T
    PROVE  /\ Rest(t) \in Seq(T)
           /\ Rest(Append(t, e)) = IF e = LF THEN << >> ELSE Append(Rest(t), e)
  <1> DEFINE n == Len(t)
             u == Append(t, e)
             a == LastEnd(t)
  <1>1. n \in Nat /\ Len(u) = n + 1 /\ u \in Seq(T) /\ \A i \in 1 .. n : t[i] \in T
    OBVIOUS
  <1>2. a \in 0 .. n /\ Ends(t) \in Seq(1 .. n)
    BY LastEndType, EndsType
  <1>5. Rest(t) \in Seq(T)
    <2>1. a + 1 \in Int /\ n \in Int /\ \A i \in a + 1 .. n : t[i] \in T
      BY <1>1, <1>2
    <2> QED
      BY <2>1, SubSeqProperties DEF Rest
  <1>3. CASE e = LF
    <2>1. Ends(u) = Append(Ends(t), n + 1)
      BY <1>3, EndsAppend
    <2>2. LastEnd(u) = n + 1
      <3>1. Len(Ends(t)) \in Nat
        BY <1>2
      <3>2. Len(Ends(u)) = Len(Ends(t)) + 1 /\ Ends(u)[Len(Ends(t)) + 1] = n + 1
        BY <1>2, <2>1
      <3> QED
        BY <3>1, <3>2 DEF LastEnd
    <2>3. Rest(u) = << >>
      BY <1>1, <2>2, SubSeqEmpty DEF Rest
    <2> QED
      BY <1>3, <1>5, <2>3
  <1>4. CASE e # LF
    <2>1. LastEnd(u) = a
      BY <1>4, EndsAppend DEF LastEnd
    <2>2. a + 1 \in 1 .. n + 1
      BY <1>1, <1>2
    <2> HIDE DEF a
    <2>3. SubSeq(u, a + 1, n + 1) = Append(SubSeq(t, a + 1, n), e)
      BY <2>2, SubSeqAppend
    <2> QED
      BY <1>1, <1>4, <1>5, <2>1, <2>3 DEF Rest, a
  <1> QED
    BY <1>3, <1>4

\* ... and is then a line of the stream, after those before.
LEMMA LinesAppend ==
    ASSUME NEW T, NEW t \in Seq(T), NEW e \in T
    PROVE  /\ Lines(t) \in Seq(Seq(T))
           /\ Lines(Append(t, e)) = IF e = LF THEN Append(Lines(t), Rest(t)) ELSE Lines(t)
  <1> DEFINE n == Len(t)
             u == Append(t, e)
             E == Ends(t)
             m == Len(E)
             From(k) == IF k = 1 THEN 1 ELSE E[k - 1] + 1
  <1>1. n \in Nat /\ Len(u) = n + 1 /\ \A i \in 1 .. n : t[i] \in T
    OBVIOUS
  <1>2. E \in Seq(1 .. n) /\ m \in Nat /\ \A k \in 1 .. m : E[k] \in 1 .. n
    <2>1. E \in Seq(1 .. n)
      BY <1>1, EndsType
    <2> HIDE DEF E
    <2> QED
      BY <2>1
  <1>3. Lines(t) = [k \in 1 .. m |-> SubSeq(t, From(k), E[k] - 1)]
    BY DEF Lines
  <1>e. Ends(u) = IF e = LF THEN Append(E, n + 1) ELSE E
    BY EndsAppend
  <1>u. Lines(u) = [k \in 1 .. Len(Ends(u)) |->
                       SubSeq(u, IF k = 1 THEN 1 ELSE Ends(u)[k - 1] + 1, Ends(u)[k] - 1)]
    BY DEF Lines
  <1>l. LastEnd(t) = IF m = 0 THEN 0 ELSE E[m]
    BY DEF LastEnd
  <1> HIDE DEF E, m
  <1>4. ASSUME NEW k \in 1 .. m
        PROVE  /\ From(k) \in 1 .. n + 1 /\ E[k] - 1 \in 0 .. n
               /\ SubSeq(u, From(k), E[k] - 1) = SubSeq(t, From(k), E[k] - 1)
               /\ SubSeq(t, From(k), E[k] - 1) \in Seq(T)
    <2>1. k # 1 => k - 1 \in 1 .. m
      BY <1>2
    <2>2. From(k) \in 1 .. n + 1 /\ E[k] - 1 \in 0 .. n
      <3>1. E[k] \in 1 .. n /\ (k # 1 => E[k - 1] \in 1 .. n)
        BY <1>2, <2>1
      <3> QED
        BY <1>1, <3>1
    <2> HIDE DEF From
    <2>3. SubSeq(u, From(k), E[k] - 1) = SubSeq(t, From(k), E[k] - 1)
      BY <2>2, SubSeqAppend
    <2>4. SubSeq(t, From(k), E[k] - 1) \in Seq(T)
      <3>1. /\ From(k) \in Int /\ E[k] - 1 \in Int
            /\ \A i \in From(k) .. E[k] - 1 : t[i] \in T
        BY <1>1, <2>2
      <3> QED
        BY <3>1, SubSeqProperties
    <2> QED
      BY <2>2, <2>3, <2>4
  <1>5. Lines(t) \in Seq(Seq(T)) /\ Len(Lines(t)) = m
    BY <1>2, <1>3, <1>4
  <1>6. CASE e # LF
    <2>1. Lines(u) = [k \in 1 .. m |-> SubSeq(u, From(k), E[k] - 1)]
      BY <1>6, <1>e, <1>u DEF m
    <2> HIDE DEF From
    <2> QED
      BY <1>3, <1>4, <1>5, <1>6, <2>1
  <1>7. CASE e = LF
    <2> DEFINE F == Append(E, n + 1)
    <2>1. /\ Ends(u) = F /\ Len(F) = m + 1 /\ F[m + 1] = n + 1
          /\ \A k \in 1 .. m : F[k] = E[k]
      <3>1. n + 1 \in Nat /\ E \in Seq(Nat)
        <4>1. \A k \in 1 .. m : E[k] \in Nat
          BY <1>1, <1>2
        <4> QED
          BY <1>1, <1>2, <4>1 DEF m
      <3> QED
        BY <1>7, <1>e, <3>1 DEF m
    <2> HIDE DEF F
    <2>2. Lines(u) = [k \in 1 .. m + 1 |->
                         SubSeq(u, IF k = 1 THEN 1 ELSE F[k - 1] + 1, F[k] - 1)]
      BY <1>u, <2>1
    <2>3. ASSUME NEW k \in 1 .. m
          PROVE  SubSeq(u, IF k = 1 THEN 1 ELSE F[k - 1] + 1, F[k] - 1) = Lines(t)[k]
      <3>1. k # 1 => k - 1 \in 1 .. m
        BY <1>2
      <3>2. (IF k = 1 THEN 1 ELSE F[k - 1] + 1) = From(k) /\ F[k] = E[k]
        BY <2>1, <3>1
      <3>3. Lines(t)[k] = SubSeq(t, From(k), E[k] - 1)
        BY <1>3
      <3> HIDE DEF From
      <3> QED
        BY <1>4, <3>2, <3>3
    <2>4. SubSeq(u, IF m + 1 = 1 THEN 1 ELSE F[(m + 1) - 1] + 1, F[m + 1] - 1) = Rest(t)
      <3>1. m # 0 => m \in 1 .. m
        BY <1>2
      <3>2. (IF m + 1 = 1 THEN 1 ELSE F[(m + 1) - 1] + 1) = LastEnd(t) + 1
        <4>1. CASE m = 0
          BY <1>l, <4>1
        <4>2. CASE m # 0
          <5>1. m + 1 # 1 /\ m + 1 - 1 = m
            BY <1>2, <4>2
          <5> QED
            BY <1>l, <2>1, <3>1, <4>2, <5>1
        <4> QED
          BY <4>1, <4>2
      <3>3. F[m + 1] - 1 = n
        BY <1>1, <2>1
      <3>4. LastEnd(t) + 1 \in 1 .. n + 1 /\ n \in 0 .. n
        BY <1>1, LastEndType
      <3>5. SubSeq(u, LastEnd(t) + 1, n) = SubSeq(t, LastEnd(t) + 1, n)
        BY <3>4, SubSeqAppend
      <3> QED
        BY <3>2, <3>3, <3>5 DEF Rest
    <2>5. Rest(t) \in Seq(T)
      BY RestAppend
    <2> DEFINE L == Append(Lines(t), Rest(t))
    <2>6. /\ L \in Seq(Seq(T)) /\ Len(L) = m + 1 /\ L[m + 1] = Rest(t)
          /\ \A k \in 1 .. m : L[k] = Lines(t)[k]
      BY <1>5, <2>5
    <2> HIDE DEF L
    <2>7. \A k \in 1 .. m + 1 :
              L[k] = SubSeq(u, IF k = 1 THEN 1 ELSE F[k - 1] + 1, F[k] - 1)
      <3> DEFINE G(k) == SubSeq(u, IF k = 1 THEN 1 ELSE F[k - 1] + 1, F[k] - 1)
      <3>0. G(m + 1) = Rest(t)
        BY <2>4, Zenon
      <3>1. L[m + 1] = G(m + 1)
        BY <2>6, <3>0
      <3>2. \A k \in 1 .. m : L[k] = G(k)
        BY <2>3, <2>6
      <3> HIDE DEF G
      <3>3. \A k \in 1 .. m + 1 : k \in 1 .. m \/ k = m + 1
        BY <1>2
      <3>4. \A k \in 1 .. m + 1 : L[k] = G(k)
        BY <3>1, <3>2, <3>3
      <3> QED
        BY <3>4 DEF G
    <2>8. L = [k \in 1 .. m + 1 |-> L[k]]
      BY <2>6
    <2>9. Lines(u) = L
      BY <2>2, <2>7, <2>8
    <2> QED
      BY <1>5, <1>7, <2>9 DEF L
  <1> QED
    BY <1>5, <1>6, <1>7

-----------------------------------------------------------------------------
(* What the buffer keeps of a line *)

LEMMA NextRemainder ==
    ASSUME NEW n \in Nat
    PROVE  /\ n % LineMax \in 0 .. LineMax - 1 /\ n % LineMax <= n
           /\ (n + 1) % LineMax = IF n % LineMax < LineMax - 1 THEN (n % LineMax) + 1 ELSE 0
  <1> DEFINE M == LineMax
             r == n % M
             d == n \div M
             s == (n + 1) % M
             c == (n + 1) \div M
  <1>0. M \in Nat \ {0}
    BY RxAssumption DEF RxAssumption
  <1>1. n = M * d + r /\ r \in 0 .. M - 1 /\ d \in Int
    BY <1>0
  <1>2. n + 1 = M * c + s /\ s \in 0 .. M - 1 /\ c \in Int
    BY <1>0
  <1>3. d >= 0
    BY <1>0
  <1> HIDE DEF M, r, d, s, c
  <1>4. ASSUME NEW x \in Int, NEW y \in Int, NEW p \in 0 .. M - 1, NEW q \in 0 .. M - 1,
               M * x + p = M * y + q
        PROVE  p = q
    <2>1. ASSUME NEW k \in Int, k >= 1 PROVE M * k >= M
      <3>1. k - 1 \in Nat /\ M \in Nat /\ M * (k - 1) \in Nat
        BY <1>0, <2>1
      <3>2. M * k = M * (k - 1) + M
        BY <1>0, <2>1
      <3> QED
        BY <1>0, <3>1, <3>2
    <2>2. M * (x - y) = q - p /\ M * (y - x) = p - q
      <3>1. M * (x - y) = M * x - M * y /\ M * (y - x) = M * y - M * x
        BY <1>0
      <3>2. M * x \in Int /\ M * y \in Int
        BY <1>0
      <3> QED
        BY <1>0, <1>4, <3>1, <3>2
    <2>3. q - p < M /\ p - q < M
      BY <1>0
    <2>4. ~(x - y >= 1)
      <3>1. x - y >= 1 => M * (x - y) >= M
        BY <2>1
      <3>2. q - p \in Int /\ M \in Int
        BY <1>0
      <3> QED
        BY <2>2, <2>3, <3>1, <3>2
    <2>5. ~(y - x >= 1)
      <3>1. y - x >= 1 => M * (y - x) >= M
        BY <2>1
      <3>2. p - q \in Int /\ M \in Int
        BY <1>0
      <3> QED
        BY <2>2, <2>3, <3>1, <3>2
    <2>6. x = y
      BY <2>4, <2>5
    <2> QED
      BY <1>0, <1>4, <2>6
  <1>5. M * d \in Nat
    BY <1>0, <1>1, <1>3
  <1>6. r <= n
    BY <1>0, <1>1, <1>5
  <1>7. CASE r < M - 1
    <2>1. n + 1 = M * d + (r + 1) /\ r + 1 \in 0 .. M - 1
      BY <1>0, <1>1, <1>5, <1>7
    <2>2. s = r + 1
      BY <1>1, <1>2, <1>4, <2>1
    <2> QED
      BY <1>1, <1>6, <1>7, <2>2 DEF M, r, s
  <1>8. CASE ~(r < M - 1)
    <2>1. r = M - 1
      BY <1>0, <1>1, <1>8
    <2>2. M * (d + 1) = M * d + M
      BY <1>0, <1>1
    <2>3. n + 1 = M * (d + 1) + 0 /\ 0 \in 0 .. M - 1 /\ d + 1 \in Int
      BY <1>0, <1>1, <1>5, <2>1, <2>2
    <2>4. s = 0
      BY <1>2, <1>4, <2>3
    <2> QED
      BY <1>1, <1>6, <1>8, <2>4 DEF M, r, s
  <1> QED
    BY <1>7, <1>8

\* The part of a line the buffer keeps: all of one that fits; of a longer one the
\* end, with every LineMax bytes from its start taken away.
Kept(l) == SubSeq(l, Len(l) - (Len(l) % LineMax) + 1, Len(l))

\* It is a tail, and all of a line that fits.
LEMMA KeptIsTail ==
    ASSUME NEW l, Len(l) \in Nat
    PROVE  Kept(l) \in Tails(l) /\ (Len(l) < LineMax => Kept(l) = SubSeq(l, 1, Len(l)))
  <1>1. LineMax \in Nat \ {0}
    BY RxAssumption DEF RxAssumption
  <1>2. Len(l) % LineMax \in 0 .. LineMax - 1 /\ Len(l) % LineMax <= Len(l)
    BY NextRemainder
  <1>3. Len(l) - (Len(l) % LineMax) + 1 \in 1 .. Len(l) + 1
    BY <1>1, <1>2
  <1>4. Len(l) < LineMax => Len(l) % LineMax = Len(l)
    BY <1>1
  <1> QED
    <2>1. Len(l) < LineMax => Len(l) - (Len(l) % LineMax) + 1 = 1
      BY <1>2, <1>4
    <2>2. Kept(l) \in Tails(l)
      BY <1>3 DEF Kept, Tails
    <2> QED
      BY <2>1, <2>2 DEF Kept

LEMMA KeptAppend ==
    ASSUME NEW T, NEW p \in Seq(T), NEW e \in T
    PROVE  /\ Kept(p) \in Seq(T) /\ Kept(<< >>) = << >>
           /\ Kept(Append(p, e)) = IF Len(Kept(p)) < LineMax - 1 THEN Append(Kept(p), e) ELSE << >>
  <1> DEFINE n == Len(p)
             r == n % LineMax
             q == Append(p, e)
  <1>1. n \in Nat /\ Len(q) = n + 1 /\ LineMax \in Nat \ {0} /\ \A i \in 1 .. n : p[i] \in T
    BY RxAssumption DEF RxAssumption
  <1> HIDE DEF n
  <1>2. /\ r \in 0 .. LineMax - 1 /\ r <= n
        /\ (n + 1) % LineMax = IF r < LineMax - 1 THEN r + 1 ELSE 0
    BY <1>1, NextRemainder
  <1> HIDE DEF r
  <1>3. Kept(p) \in Seq(T) /\ Len(Kept(p)) = r
    <2>1. /\ n - r + 1 \in Int /\ n \in Int
          /\ \A i \in n - r + 1 .. n : p[i] \in T
      BY <1>1, <1>2
    <2>2. /\ SubSeq(p, n - r + 1, n) \in Seq(T)
          /\ Len(SubSeq(p, n - r + 1, n)) =
                 IF n - r + 1 <= n THEN n - (n - r + 1) + 1 ELSE 0
      BY <2>1, SubSeqProperties
    <2>3. (IF n - r + 1 <= n THEN n - (n - r + 1) + 1 ELSE 0) = r
      BY <1>1, <1>2
    <2> QED
      BY <2>2, <2>3 DEF Kept, n, r
  <1>4. Kept(<< >>) = << >>
    <2>1. Len(<< >>) = 0 /\ 0 % LineMax \in 0 .. LineMax - 1 /\ 0 % LineMax <= 0
      BY NextRemainder
    <2>2. 0 % LineMax = 0
      BY <1>1, <2>1
    <2> QED
      BY <2>1, <2>2, SubSeqEmpty DEF Kept
  <1>5. Kept(q) = SubSeq(q, (n + 1) - ((n + 1) % LineMax) + 1, n + 1)
    BY <1>1 DEF Kept
  <1> HIDE DEF q
  <1>6. CASE r < LineMax - 1
    <2>1. (n + 1) - ((n + 1) % LineMax) + 1 = n - r + 1 /\ n - r + 1 \in 1 .. n + 1
      <3>1. (n + 1) % LineMax = r + 1
        BY <1>2, <1>6
      <3> QED
        BY <1>1, <1>2, <3>1
    <2>2. SubSeq(q, n - r + 1, n + 1) = Append(SubSeq(p, n - r + 1, n), e)
      BY <2>1, SubSeqAppend DEF n, q
    <2>3. Kept(p) = SubSeq(p, n - r + 1, n)
      BY DEF Kept, n, r
    <2> QED
      BY <1>3, <1>4, <1>5, <1>6, <2>1, <2>2, <2>3 DEF q
  <1>7. CASE ~(r < LineMax - 1)
    <2>1. (n + 1) % LineMax = 0
      BY <1>2, <1>7
    <2>2. (n + 1) - 0 + 1 \in Int /\ n + 1 \in Int /\ n + 1 < (n + 1) - 0 + 1
      BY <1>1
    <2>3. SubSeq(q, (n + 1) - 0 + 1, n + 1) = << >>
      BY <2>2, SubSeqEmpty
    <2> QED
      BY <1>3, <1>4, <1>5, <1>7, <2>1, <2>3 DEF q
  <1> QED
    BY <1>6, <1>7

\* What is dispatched of a stream.
Passed(t) == Keep([k \in DOMAIN Lines(t) |-> Kept(Lines(t)[k])], Seq(Chars) \ {<< >>})

LEMMA PassedAppend ==
    ASSUME NEW T, NEW t \in Seq(T), NEW e \in T
    PROVE  /\ e # LF => Passed(Append(t, e)) = Passed(t)
           /\ e = LF => Passed(Append(t, e)) =
                  Turn(Passed(t), Kept(Rest(t)), Seq(Chars) \ {<< >>})
  <1> DEFINE l == Lines(t)
             s == [k \in DOMAIN l |-> Kept(l[k])]
             m == Len(l)
             x == Rest(t)
             a == Append(l, x)
  <1>1. l \in Seq(Seq(T)) /\ m \in Nat /\ x \in Seq(T)
    <2>1. l \in Seq(Seq(T)) /\ x \in Seq(T)
      BY LinesAppend, RestAppend
    <2> HIDE DEF l, x
    <2> QED
      BY <2>1
  <1>2. Lines(Append(t, e)) = IF e = LF THEN a ELSE l
    BY LinesAppend
  <1>3. Passed(t) = Keep(s, Seq(Chars) \ {<< >>})
    BY DEF Passed
  <1> HIDE DEF l, x
  <1>4. CASE e # LF
    BY <1>2, <1>4 DEF Passed, l
  <1>5. CASE e = LF
    <2>1. /\ DOMAIN l = 1 .. m /\ DOMAIN a = 1 .. m + 1 /\ a[m + 1] = x
          /\ \A k \in 1 .. m : a[k] = l[k] /\ l[k] \in Seq(T)
      BY <1>1
    <2> HIDE DEF a
    <2>2. \A p \in Seq(T) : Kept(p) \in Seq(T)
      BY KeptAppend
    <2>3. s \in Seq(Seq(T)) /\ Len(s) = m /\ \A k \in 1 .. m : s[k] = Kept(l[k])
      BY <1>1, <2>1, <2>2
    <2>4. Kept(x) \in Seq(T)
      BY <1>1, <2>2
    <2> HIDE DEF s
    <2>5. [k \in DOMAIN a |-> Kept(a[k])] = Append(s, Kept(x))
      <3> DEFINE b == Append(s, Kept(x))
      <3>1. /\ b \in Seq(Seq(T)) /\ Len(b) = m + 1 /\ b[m + 1] = Kept(x)
            /\ \A k \in 1 .. m : b[k] = s[k]
        BY <2>3, <2>4
      <3> HIDE DEF b
      <3>2. b = [k \in 1 .. m + 1 |-> b[k]]
        BY <3>1
      <3>3. ASSUME NEW k \in 1 .. m + 1 PROVE b[k] = Kept(a[k])
        <4>1. CASE k \in 1 .. m
          BY <2>1, <2>3, <3>1, <4>1
        <4>2. CASE k = m + 1
          BY <2>1, <3>1, <4>2
        <4> QED
          BY <1>1, <4>1, <4>2
      <3>4. [k \in DOMAIN a |-> Kept(a[k])] = b
        BY <2>1, <3>2, <3>3
      <3> QED
        BY <3>4 DEF b
    <2>6. Keep(Append(s, Kept(x)), Seq(Chars) \ {<< >>}) =
              Turn(Keep(s, Seq(Chars) \ {<< >>}), Kept(x), Seq(Chars) \ {<< >>})
      BY <2>3, <2>4, KeepAppend
    <2> QED
      BY <1>2, <1>3, <1>5, <2>5, <2>6 DEF Passed, x
  <1> QED
    BY <1>4, <1>5

-----------------------------------------------------------------------------
(* The reader stays in step *)

\* Of the line it is in the middle of, the reader holds what the buffer keeps.
Held ==
    /\ dispatched = Passed(Text)
    /\ line = Kept(Rest(Text))

LEMMA TextIs ==
    ASSUME RxTypeOK
    PROVE  /\ Text \in Seq(Chars \cup {LF})
           /\ \A b \in Chars \cup {CR, LF} : received' = Append(received, b) =>
                  Text' = IF b = CR THEN Text ELSE Append(Text, b)
  <1> DEFINE W == Chars \cup {LF}
  <1>0. received \in Seq(Chars \cup {CR, LF}) /\ CR \notin W
    BY RxAssumption DEF RxAssumption, RxTypeOK, CR, LF
  <1>1. Text \in Seq(W)
    <2>1. Copied(Text, Chars \cup {CR, LF}, received, W, Len(received))
      BY <1>0, KeepIs DEF Text
    <2>2. Text \in Seq(Chars \cup {CR, LF}) /\ \A j \in DOMAIN Text : Text[j] \in W
      BY <2>1 DEF Copied
    <2> QED
      BY <2>2
  <1>2. ASSUME NEW b \in Chars \cup {CR, LF}, received' = Append(received, b)
        PROVE  Text' = IF b = CR THEN Text ELSE Append(Text, b)
    <2>1. Text' = Turn(Text, b, W)
      BY <1>0, <1>2, KeepAppend DEF Text
    <2>2. b \in W <=> b # CR
      BY <1>0
    <2> QED
      BY <2>1, <2>2 DEF Turn
  <1> QED
    BY <1>1, <1>2

LEMMA HeldStep == RxTypeOK /\ Held /\ [RxNext]_rxVars => Held'
  <1> SUFFICES ASSUME RxTypeOK, Held, [RxNext]_rxVars PROVE Held'
    OBVIOUS
  <1> DEFINE T == Chars \cup {LF}
  <1>0. Text \in Seq(T) /\ LF \in T /\ LF \notin Chars /\ CR # LF /\ CR \notin Chars
        /\ line \in Seq(Chars) /\ Rest(Text) \in Seq(T)
    <2>1. Text \in Seq(T) /\ LF \in T /\ LF \notin Chars /\ CR # LF /\ CR \notin Chars
          /\ line \in Seq(Chars)
      BY RxAssumption, TextIs DEF RxAssumption, RxTypeOK, CR, LF
    <2> QED
      BY <2>1, RestAppend
  <1>1. CASE CarriageReturn
    <2>1. Text' = Text /\ UNCHANGED <<line, dispatched>>
      BY <1>1, TextIs DEF CarriageReturn, Receive
    <2> QED
      BY <2>1 DEF Held, Passed, Rest, LastEnd, Lines, Ends, Kept
  <1>2. CASE EndOfLine
    <2>1. /\ Text' = Append(Text, LF) /\ line' = << >>
          /\ dispatched' = IF line = << >> THEN dispatched ELSE Append(dispatched, line)
      BY <1>0, <1>2, TextIs DEF EndOfLine, Receive
    <2>2. Passed(Append(Text, LF)) = Turn(Passed(Text), Kept(Rest(Text)), Seq(Chars) \ {<< >>})
      BY <1>0, PassedAppend
    <2>3. Rest(Append(Text, LF)) = << >> /\ Kept(<< >>) = << >>
      BY <1>0, RestAppend, KeptAppend
    <2>4. Turn(dispatched, line, Seq(Chars) \ {<< >>}) = dispatched'
      BY <1>0, <2>1 DEF Turn
    <2>5. dispatched' = Passed(Append(Text, LF)) /\ line' = Kept(Rest(Append(Text, LF)))
      BY <2>1, <2>2, <2>3, <2>4 DEF Held
    <2> QED
      BY <2>1, <2>5 DEF Held, Passed, Rest, LastEnd, Lines, Ends, Kept
  <1>3. ASSUME NEW b \in Chars, Store(b) \/ Overrun(b) PROVE Held'
    <2>1. /\ Text' = Append(Text, b) /\ dispatched' = dispatched
          /\ line' = IF Len(line) < LineMax - 1 THEN Append(line, b) ELSE << >>
      <3>1. received' = Append(received, b) /\ b # CR
        BY <1>0, <1>3 DEF Store, Overrun, Receive
      <3>2. Text' = Append(Text, b)
        BY <3>1, TextIs
      <3>3. Len(line) \in Nat /\ LineMax \in Nat
        BY <1>0, RxAssumption DEF RxAssumption
      <3> QED
        BY <1>3, <3>2, <3>3 DEF Store, Overrun
    <2>2. b \in T /\ b # LF
      BY <1>0
    <2>3. Passed(Append(Text, b)) = Passed(Text)
      BY <1>0, <2>2, PassedAppend
    <2>4. Rest(Append(Text, b)) = Append(Rest(Text), b)
      BY <1>0, <2>2, RestAppend
    <2>5. Kept(Append(Rest(Text), b)) =
              IF Len(Kept(Rest(Text))) < LineMax - 1 THEN Append(Kept(Rest(Text)), b) ELSE << >>
      BY <1>0, <2>2, KeptAppend
    <2>6. dispatched' = Passed(Append(Text, b)) /\ line' = Kept(Rest(Append(Text, b)))
      BY <2>1, <2>3, <2>4, <2>5 DEF Held
    <2> QED
      BY <2>1, <2>6 DEF Held, Passed, Rest, LastEnd, Lines, Ends, Kept
  <1>4. CASE UNCHANGED rxVars
    <2>1. received' = received /\ UNCHANGED <<line, dispatched>>
      BY <1>4 DEF rxVars
    <2>2. Text' = Text
      BY <2>1 DEF Text
    <2> QED
      BY <2>1, <2>2 DEF Held, Passed, Rest, LastEnd, Lines, Ends, Kept
  <1> QED
    BY <1>1, <1>2, <1>3, <1>4 DEF RxNext

LEMMA RxHeld == RxSpec => [](RxTypeOK /\ Held)
  <1>1. RxInit => Held
    <2> SUFFICES ASSUME RxInit PROVE Held
      OBVIOUS
    <2>1. received = << >> /\ line = << >> /\ dispatched = << >>
      BY DEF RxInit
    <2>2. Text = << >>
      BY <2>1, KeepEmpty DEF Text
    <2>3. Ends(<< >>) = << >>
      <3>1. [j \in 1 .. Len(<< >>) |-> j] = << >>
        OBVIOUS
      <3> QED
        BY <3>1, KeepEmpty DEF Ends
    <2>4. Lines(<< >>) = << >>
      BY <2>3 DEF Lines
    <2>5. Passed(<< >>) = << >>
      <3>1. [k \in DOMAIN << >> |-> Kept((<< >>)[k])] = << >>
        OBVIOUS
      <3> QED
        BY <2>4, <3>1, KeepEmpty DEF Passed
    <2>6. Rest(<< >>) = << >>
      BY <2>3, SubSeqEmpty DEF Rest, LastEnd
    <2>7. Kept(<< >>) = << >>
      <3>1. << >> \in Seq({LF}) /\ LF \in {LF}
        OBVIOUS
      <3> QED
        BY <3>1, KeptAppend
    <2> QED
      BY <2>1, <2>2, <2>5, <2>6, <2>7 DEF Held
  <1>2. QED
    BY <1>1, HeldStep, RxBuffer, PTL DEF RxSpec

LEMMA HeldInStep == RxTypeOK /\ Held => InStep
  <1> SUFFICES ASSUME RxTypeOK, Held PROVE InStep
    OBVIOUS
  <1> DEFINE L == SentLines
             part == [k \in DOMAIN L |-> Kept(L[k])]
  <1>1. L \in Seq(Seq(Chars \cup {LF}))
    <2>1. Text \in Seq(Chars \cup {LF}) /\ LF \in Chars \cup {LF}
      BY TextIs
    <2> QED
      BY <2>1, LinesAppend DEF SentLines
  <1>2. dispatched = Keep(part, Seq(Chars) \ {<< >>})
    BY DEF Held, Passed, SentLines
  <1> HIDE DEF L
  <1>3. ASSUME NEW k \in DOMAIN L
        PROVE  Kept(L[k]) \in Tails(L[k]) /\ (Len(L[k]) < LineMax => Kept(L[k]) = L[k])
    <2>1. L[k] \in Seq(Chars \cup {LF})
      BY <1>1
    <2>2. Len(L[k]) \in Nat /\ SubSeq(L[k], 1, Len(L[k])) = L[k]
      BY <2>1
    <2> QED
      BY <2>2, KeptIsTail
  <1>4. part \in [DOMAIN L -> UNION {Tails(L[k]) : k \in DOMAIN L}]
    BY <1>3
  <1>5. \A k \in DOMAIN L : part[k] = Kept(L[k])
    OBVIOUS
  <1> HIDE DEF part
  <1> QED
    BY <1>2, <1>3, <1>4, <1>5 DEF InStep, L

\* The lines dispatched are those the MCU sent, in order, none merged, split or
\* taken from two: an overlong line costs no other (uart_link.c, uart_rx_task).
THEOREM RxInStep == RxSpec => []InStep
  BY RxHeld, HeldInStep, PTL

\* Queries and dispatch_line let the RX task take its own steps, and so change
\* nothing of this: what holds of UartRx holds of the whole.
THEOREM LinkInStep == Spec => []InStep
  <1>1. Init => RxInit
    BY DEF Init
  <1>2. [Next]_vars => [RxNext]_rxVars
    BY DEF Next, vars, Byte, Arrive, RxTask, CopyReply, ClearPending, GiveReply, HandleLine,
           Enter, Query, TakeMutex, MutexTimeout, SetBuffer, Drain, Arm, TakeReply, ReplyTimeout,
           Disarm, Return, RxNext
  <1>3. Spec => RxSpec
    BY <1>1, <1>2, PTL DEF Spec, RxSpec
  <1> QED
    BY <1>3, RxInStep, PTL

=============================================================================
