------------------------------- MODULE UartRx -------------------------------
(***************************************************************************)
(* components/uart_link, uart_rx_task: bytes from the companion MCU are    *)
(* put together to lines.  The lines given to dispatch_line are recorded   *)
(* in `dispatched`; what becomes of a line is in UartLink.                 *)
(***************************************************************************)
EXTENDS Filters

CONSTANTS
    Chars,       \* the bytes a line is made of
    LineMax,     \* UART_LINK_LINE_MAX, the size of the line buffer
    MaxBytes     \* bound on the number of bytes received

CR == "CR"
LF == "LF"

ASSUME RxAssumption ==
    /\ LineMax \in Nat \ {0}
    /\ MaxBytes \in Nat
    /\ CR \notin Chars /\ LF \notin Chars

VARIABLES
    line,        \* line[0 .. line_len - 1]
    received,    \* history: every byte read
    dispatched   \* history: the lines dispatched, without the empty ones

rxVars == <<line, received, dispatched>>

RxInit == line = << >> /\ received = << >> /\ dispatched = << >>

Receive(byte) == Len(received) < MaxBytes /\ received' = Append(received, byte)

CarriageReturn == Receive(CR) /\ UNCHANGED <<line, dispatched>>

\* Mutant: the line is not cleared after its dispatch.
EndOfLine_Keep ==
    /\ Receive(LF)
    /\ dispatched' = IF line = << >> THEN dispatched ELSE Append(dispatched, line)
    /\ UNCHANGED line

\* dispatch_line returns at once for an empty line.
EndOfLine ==
    /\ Receive(LF)
    /\ dispatched' = IF line = << >> THEN dispatched ELSE Append(dispatched, line)
    /\ line' = << >>

Store(byte) ==
    /\ Receive(byte)
    /\ Len(line) < LineMax - 1
    /\ line' = Append(line, byte)
    /\ UNCHANGED dispatched

\* No room but for the terminating zero: this byte and the line so far go.
Overrun(byte) ==
    /\ Receive(byte)
    /\ Len(line) >= LineMax - 1
    /\ line' = << >>
    /\ UNCHANGED dispatched

RxNext ==
    \/ CarriageReturn \/ EndOfLine
    \/ \E byte \in Chars : Store(byte) \/ Overrun(byte)

RxSpec == RxInit /\ [][RxNext]_rxVars

-----------------------------------------------------------------------------
(* Properties *)

\* Every index into line[] is inside the buffer, the one of the terminating
\* zero written at '\n' included.
RxTypeOK ==
    /\ line \in Seq(Chars) /\ Len(line) + 1 <= LineMax
    /\ received \in Seq(Chars \cup {CR, LF})

\* What the MCU sent, as lines: the bytes before each LF, without CRs.
Text == Keep(received, Chars \cup {LF})
Ends(text) == Keep([j \in 1 .. Len(text) |-> j], {j \in DOMAIN text : text[j] = LF})
Lines(text) ==
    [k \in 1 .. Len(Ends(text)) |->
        SubSeq(text, IF k = 1 THEN 1 ELSE Ends(text)[k - 1] + 1, Ends(text)[k] - 1)]
SentLines == Lines(Text)

\* What may be left of a line when its beginning is dropped, nothing included.
Tails(l) == {SubSeq(l, j, Len(l)) : j \in 1 .. Len(l) + 1}

\* The reader is in step with the sender: every line that fits the buffer is
\* dispatched whole, in order, none merged or split, whatever came before it; of
\* an overlong line at most a tail is, in its place.
InStep ==
    \E part \in [DOMAIN SentLines -> UNION {Tails(SentLines[k]) : k \in DOMAIN SentLines}] :
        /\ \A k \in DOMAIN SentLines :
              /\ part[k] \in Tails(SentLines[k])
              /\ Len(SentLines[k]) < LineMax => part[k] = SentLines[k]
        /\ dispatched = Keep(part, Seq(Chars) \ {<< >>})

\* "Line too long - drop it and resync on the next '\n'" (uart_rx_task): whatever
\* is dispatched was a line of the sender.  It is not so: only what came before the
\* overrun is dropped, and the tail is dispatched as a line.
WholeLines == \A j \in DOMAIN dispatched : \E k \in DOMAIN SentLines : dispatched[j] = SentLines[k]

=============================================================================
