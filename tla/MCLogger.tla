------------------------------ MODULE MCLogger ------------------------------
(* Logger for TLC: names and their lengths.                                 *)
EXTENDS Logger, TLC

CONSTANTS logcsv, other, long54, long62, long64, torn

\* log.csv and a name like it; 54 characters, too many for the ".1" of the
\* backup; 62 characters, too many for the card and for the backup buffer;
\* 64, too many for s_log_path.
MCNameLen == logcsv :> 7 @@ other :> 7 @@ torn :> 7 @@ long54 :> 54 @@ long62 :> 62 @@ long64 :> 64

\* The callers are alike (not used with temporal properties).
CallerSymmetry == Permutations(Callers)

=============================================================================
