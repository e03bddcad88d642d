-------------------------- MODULE TelemetryWindow --------------------------
(***************************************************************************)
(* What data_hub promises its readers: for every registered channel, the   *)
(* last HistoryLen samples published on it, oldest first; a table of at    *)
(* most MaxChannels channels that are never removed; and a publish on an   *)
(* unregistered channel that is dropped only when the table is full.       *)
(***************************************************************************)
EXTENDS Integers, Sequences, FiniteSets

CONSTANTS Names, MaxChannels, HistoryLen

VARIABLES
    registered,   \* the channels readers can see
    window,       \* window[n]: the samples a reader of n gets
    time          \* the time of the last publish

Init ==
    /\ registered = {}
    /\ window = [n \in Names |-> << >>]
    /\ time = 0

\* The sequence with s at its end, without its oldest element if it was full.
Slide(seq, s) == IF Len(seq) < HistoryLen THEN Append(seq, s) ELSE Append(Tail(seq), s)

Accept(n) ==
    /\ n \in registered \/ Cardinality(registered) < MaxChannels
    /\ registered' = registered \cup {n}
    /\ time' = time + 1
    /\ window' = [window EXCEPT ![n] = Slide(window[n], time')]

Drop(n) ==
    /\ n \notin registered
    /\ Cardinality(registered) = MaxChannels
    /\ time' = time + 1
    /\ UNCHANGED <<registered, window>>

Next == \E n \in Names : Accept(n) \/ Drop(n)

Spec == Init /\ [][Next]_<<registered, window, time>>

=============================================================================
