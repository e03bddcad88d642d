------------------------------ MODULE Filters ------------------------------
(***************************************************************************)
(* The loops that copy some entries of an array to another: the channels   *)
(* in use (data_hub_list_channels), the samples after a bookmark           *)
(* (flush_channel).                                                        *)
(***************************************************************************)
EXTENDS Integers, Sequences

\* The elements of seq that are wanted, in their order. kept[i] is what the
\* first i entries leave.
Keep(seq, wanted) ==
    LET kept[i \in 0 .. Len(seq)] ==
            IF i = 0 THEN << >>
            ELSE IF seq[i] \in wanted THEN Append(kept[i - 1], seq[i]) ELSE kept[i - 1]
    IN  kept[Len(seq)]

=============================================================================
