----------------------------- MODULE MCDataHub -----------------------------
(* DataHub for TLC: more channel names than table entries, and enough       *)
(* publishes for a ring to wrap twice.                                      *)
EXTENDS DataHub

=============================================================================
