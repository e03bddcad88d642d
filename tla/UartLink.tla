------------------------------ MODULE UartLink ------------------------------
(***************************************************************************)
(* components/uart_link as a whole: the RX task, which puts bytes together *)
(* to lines (UartRx) and runs dispatch_line, against uart_link_query,      *)
(* called by any task.  s_query_mutex keeps the callers apart;             *)
(* s_query_pending, s_reply_buf and the reply buffer itself are shared     *)
(* with the RX task under no lock, only s_reply_ready_sem ties the two     *)
(* together.  xTaskCreate pins uart_rx to no core, so the two run in       *)
(* parallel: every access is a step of its own.                            *)
(*                                                                         *)
(* A line is numbered by its dispatch; a reply buffer is represented by    *)
(* the number of the line it was last filled from, 0 when the call has     *)
(* found it untouched.                                                     *)
(***************************************************************************)
EXTENDS DataHub, UartRx

CONSTANTS
    Callers,     \* tasks that call uart_link_query
    NoCaller,
    MaxQueries   \* bound on the number of calls

ASSUME LinkAssumption ==
    /\ NoCaller \notin Callers
    /\ MaxQueries \in Nat
    /\ MaxTime >= MaxBytes

VARIABLES
    s_query_mutex,    \* its holder, or NoCaller
    s_reply_ready,    \* s_reply_ready_sem, a binary semaphore
    s_query_pending,
    s_reply_buf,      \* whose reply_buf it is, or NoCaller before the first query
    s_mcu_present,
    rx,               \* where the RX task is
    query,            \* query[c]: where caller c is in uart_link_query
    reply,            \* reply[c]: reply_buf of c
    armed,            \* history: armed[c] is Arrived when c set s_query_pending
    raced,            \* history: a query gave up while the RX task had taken a line for
                      \* its reply, and since then none has begun after that was over
    queries           \* number of calls so far

linkVars == <<s_query_mutex, s_reply_ready, s_query_pending, s_reply_buf, s_mcu_present, rx>>
callVars == <<query, reply, armed, raced, queries>>
vars == <<hubVars, rxVars, linkVars, callVars>>

Kinds == {"idn?", "other?", "push", "text"}

\* Number of lines dispatched so far, the current one included.
Arrived == Len(dispatched)

\* The RX task has taken the current line for a reply.
Replying == rx \in {"copy", "clear", "give"}

Init ==
    /\ HubInit /\ RxInit
    /\ s_query_mutex = NoCaller
    /\ s_reply_ready = FALSE /\ s_query_pending = FALSE
    /\ s_reply_buf = NoCaller
    /\ s_mcu_present = FALSE
    /\ rx = "read"
    /\ query = [c \in Callers |-> "idle"]
    /\ reply = [c \in Callers |-> 0]
    /\ armed = [c \in Callers |-> 0]
    /\ raced = FALSE /\ queries = 0

-----------------------------------------------------------------------------
(* The RX task: uart_rx_task and dispatch_line *)

\* A byte that ends no line, or an empty one.
Byte ==
    /\ rx = "read"
    /\ \/ CarriageReturn
       \/ line = << >> /\ EndOfLine
       \/ \E byte \in Chars : Store(byte) \/ Overrun(byte)
    /\ UNCHANGED <<hubVars, linkVars, callVars>>

\* A line is complete and the RX task looks at s_query_pending.
Arrive ==
    /\ rx = "read"
    /\ line # << >> /\ EndOfLine
    /\ rx' = IF s_query_pending THEN "copy" ELSE "handle"
    /\ UNCHANGED <<hubVars, s_query_mutex, s_reply_ready, s_query_pending, s_reply_buf,
                   s_mcu_present, callVars>>

CopyReply ==
    /\ rx = "copy"
    /\ reply' = [reply EXCEPT ![s_reply_buf] = Arrived]
    /\ rx' = "clear"
    /\ UNCHANGED <<hubVars, rxVars, s_query_mutex, s_reply_ready, s_query_pending, s_reply_buf,
                   s_mcu_present, query, armed, raced, queries>>

ClearPending ==
    /\ rx = "clear"
    /\ s_query_pending' = FALSE
    /\ rx' = "give"
    /\ UNCHANGED <<hubVars, rxVars, s_query_mutex, s_reply_ready, s_reply_buf, s_mcu_present,
                   callVars>>

GiveReply ==
    /\ rx = "give"
    /\ s_reply_ready' = TRUE
    /\ rx' = "read"
    /\ UNCHANGED <<hubVars, rxVars, s_query_mutex, s_query_pending, s_reply_buf, s_mcu_present,
                   callVars>>

\* A line nobody waits for: the MCU's query is answered or dropped, anything
\* else is evidence of an MCU, and published if it can be parsed.
HandleLine ==
    /\ rx = "handle"
    /\ rx' = "read"
    /\ \E kind \in Kinds :
          \/ /\ kind \in {"idn?", "other?"}
             /\ UNCHANGED <<hubVars, s_mcu_present>>
          \/ /\ kind = "text"
             /\ s_mcu_present' = TRUE
             /\ UNCHANGED hubVars
          \/ /\ kind = "push"
             /\ s_mcu_present' = TRUE
             /\ \E n \in Names : Publish(n)
    /\ UNCHANGED <<rxVars, s_query_mutex, s_reply_ready, s_query_pending, s_reply_buf, callVars>>

RxTask == CopyReply \/ ClearPending \/ GiveReply \/ HandleLine

-----------------------------------------------------------------------------
(* uart_link_query *)

At(c, here) == query[c] = here
Goes(c, there) == query' = [query EXCEPT ![c] = there]

\* The caller's buffer may hold anything when the call begins: represented by 0.
Enter(c) ==
    /\ At(c, "idle")
    /\ queries < MaxQueries /\ queries' = queries + 1
    /\ reply' = [reply EXCEPT ![c] = 0]
    /\ Goes(c, "mutex")
    /\ UNCHANGED <<hubVars, rxVars, linkVars, armed, raced>>

TakeMutex(c) ==
    /\ At(c, "mutex")
    /\ s_query_mutex = NoCaller
    /\ s_query_mutex' = c
    /\ raced' = (raced /\ (s_query_pending \/ Replying))
    /\ Goes(c, "buffer")
    /\ UNCHANGED <<hubVars, rxVars, s_reply_ready, s_query_pending, s_reply_buf, s_mcu_present, rx,
                   reply, armed, queries>>

\* Its turn did not come within timeout_ms.
MutexTimeout(c) ==
    /\ At(c, "mutex")
    /\ s_query_mutex # NoCaller
    /\ Goes(c, "idle")
    /\ UNCHANGED <<hubVars, rxVars, linkVars, reply, armed, raced, queries>>

SetBuffer(c) ==
    /\ At(c, "buffer")
    /\ s_reply_buf' = c
    /\ Goes(c, "drain")
    /\ UNCHANGED <<hubVars, rxVars, s_query_mutex, s_reply_ready, s_query_pending, s_mcu_present, rx,
                   reply, armed, raced, queries>>

\* Mutant: the stale signal is left.
Drain_Nothing(c) ==
    /\ At(c, "drain")
    /\ Goes(c, "arm")
    /\ UNCHANGED <<hubVars, rxVars, linkVars, reply, armed, raced, queries>>

Drain(c) ==
    /\ At(c, "drain")
    /\ s_reply_ready' = FALSE
    /\ Goes(c, "arm")
    /\ UNCHANGED <<hubVars, rxVars, s_query_mutex, s_query_pending, s_reply_buf, s_mcu_present, rx,
                   reply, armed, raced, queries>>

\* s_query_pending is set; sending the command changes nothing here.
Arm(c) ==
    /\ At(c, "arm")
    /\ s_query_pending' = TRUE
    /\ armed' = [armed EXCEPT ![c] = Arrived]
    /\ Goes(c, "wait")
    /\ UNCHANGED <<hubVars, rxVars, s_query_mutex, s_reply_ready, s_reply_buf, s_mcu_present, rx,
                   reply, raced, queries>>

TakeReply(c) ==
    /\ At(c, "wait")
    /\ s_reply_ready
    /\ s_reply_ready' = FALSE
    /\ Goes(c, "ok")
    /\ UNCHANGED <<hubVars, rxVars, s_query_mutex, s_query_pending, s_reply_buf, s_mcu_present, rx,
                   reply, armed, raced, queries>>

\* Mutant: the wait for the reply has no timeout.
ReplyTimeout_Never(c) == FALSE /\ UNCHANGED vars

ReplyTimeout(c) ==
    /\ At(c, "wait")
    /\ ~s_reply_ready
    /\ Goes(c, "expired")
    /\ UNCHANGED <<hubVars, rxVars, linkVars, reply, armed, raced, queries>>

\* Mutant: s_query_pending stays set after a timeout.
Disarm_Pending(c) ==
    /\ At(c, "expired")
    /\ raced' = (raced \/ Replying)
    /\ Goes(c, "timeout")
    /\ UNCHANGED <<hubVars, rxVars, linkVars, reply, armed, queries>>

Disarm(c) ==
    /\ At(c, "expired")
    /\ s_query_pending' = FALSE
    /\ raced' = (raced \/ Replying)
    /\ Goes(c, "timeout")
    /\ UNCHANGED <<hubVars, rxVars, s_query_mutex, s_reply_ready, s_reply_buf, s_mcu_present, rx,
                   reply, armed, queries>>

\* uart_link_init, the one caller there is today, notes that the MCU answered
\* its handshake; that the note is taken with the return makes no difference.
Return(c) ==
    /\ At(c, "ok") \/ At(c, "timeout")
    /\ s_query_mutex' = NoCaller
    /\ s_mcu_present' = (s_mcu_present \/ query[c] = "ok")
    /\ Goes(c, "idle")
    /\ UNCHANGED <<hubVars, rxVars, s_reply_ready, s_query_pending, s_reply_buf, rx, reply,
                   armed, raced, queries>>

Query(c) ==
    \/ TakeMutex(c) \/ MutexTimeout(c) \/ SetBuffer(c) \/ Drain(c) \/ Arm(c)
    \/ TakeReply(c) \/ ReplyTimeout(c) \/ Disarm(c) \/ Return(c)

-----------------------------------------------------------------------------
Next ==
    \/ Byte \/ Arrive \/ RxTask
    \/ \E c \in Callers : Enter(c) \/ Query(c)

Spec == Init /\ [][Next]_vars

\* Both tasks run when they can; every wait of a caller is bounded by
\* timeout_ms.  Nothing makes a line arrive or a call begin.
Fairness == WF_vars(RxTask) /\ \A c \in Callers : WF_vars(Query(c))

FairSpec == Spec /\ Fairness

-----------------------------------------------------------------------------
(* Properties *)

LinkTypeOK ==
    /\ HubTypeOK
    /\ s_query_mutex \in Callers \cup {NoCaller}
    /\ s_reply_buf \in Callers \cup {NoCaller}
    /\ s_reply_ready \in BOOLEAN /\ s_query_pending \in BOOLEAN /\ s_mcu_present \in BOOLEAN
    /\ rx \in {"read", "copy", "clear", "give", "handle"}
    /\ Arrived \in Nat
    /\ query \in [Callers -> {"idle", "mutex", "buffer", "drain", "arm", "wait", "expired",
                              "ok", "timeout"}]
    /\ reply \in [Callers -> Nat] /\ armed \in [Callers -> Nat]
    /\ raced \in BOOLEAN
    /\ s_query_pending \/ rx = "copy" => s_reply_buf # NoCaller

\* The RX task writes into a reply buffer only while the call it belongs to
\* waits: after the return the buffer, of uart_link_init an array on its stack, is
\* no longer one. The one exception is a query that gave up while the RX task had
\* already taken a line for its reply; it is over when a query begins after that
\* line has been dealt with.
BufferOwned ==
    [][ CopyReply => raced \/ query[s_reply_buf] \in {"wait", "expired"} ]_vars

\* A query that succeeds has a line that arrived after it began to wait, not an
\* old one and not an untouched buffer ("the line following the query",
\* uart_link.c), with the same exception: one query that gave up too late spoils
\* no query but those that begin before its line has been dealt with.
ReplyFresh ==
    \A c \in Callers : query[c] = "ok" /\ ~raced => reply[c] > armed[c]

\* A query comes back, whatever the MCU sends or does not send, and whoever
\* else is querying.
QueryReturns == \A c \in Callers : query[c] # "idle" ~> query[c] = "idle"

=============================================================================
