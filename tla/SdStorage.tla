----------------------------- MODULE SdStorage -----------------------------
(***************************************************************************)
(* components/sd_storage: the files on the SD card.  s_mutex is held from  *)
(* fopen to fclose (remove to rename, around the format), so each call is  *)
(* one atomic step of the calling task; the calls below are the action of  *)
(* that step, with the value the call returns as the parameter `err`.      *)
(* sd_storage_exists and sd_storage_file_size take no lock: they read the  *)
(* state between two such steps.                                           *)
(*                                                                         *)
(* A path is [name, gen, len]: gen counts the ".1" suffixes, len is its    *)
(* strlen.  A file is the sequence of its rows.                            *)
(***************************************************************************)
EXTENDS Integers, Sequences

CONSTANTS
    Faults,      \* what may go wrong on the card: a subset of AllFaults
    MaxFaults    \* bound on the number of times it does

\* append, create: fopen "ab" or "wb" fails.  short: fwrite is cut short.
\* close: the data buffered by a complete fwrite is lost when fclose fails.
\* rename, erase, format: that call fails.  read: fopen "rb" fails, or fread
\* returns less than there is.
AllFaults == {"append", "create", "short", "close", "rename", "erase", "format", "read"}

ASSUME FaultAssumption == Faults \subseteq AllFaults /\ MaxFaults \in Nat

VARIABLES
    files,   \* the card: a function from the paths that exist to their rows
    faults   \* number of faults so far

card == <<files, faults>>

NoFault == UNCHANGED faults
Fault(kind) == kind \in Faults /\ faults < MaxFaults /\ faults' = faults + 1

Results == {"ESP_OK", "ESP_FAIL"}

MountPointLen == 7      \* strlen("/sdcard")
PathBufLen == 64        \* SD_STORAGE_PATH_LEN

\* build_path accepts the path: not empty, and it fits with mount point and "/".
Addressable(p) == p.len > 0 /\ MountPointLen + 1 + p.len < PathBufLen

\* sd_storage_exists
Exists(p) == Addressable(p) /\ p \in DOMAIN files

\* sd_storage_file_size, in rows
FileSize(p) == Len(files[p])

Rows(p) == IF p \in DOMAIN files THEN files[p] ELSE << >>

CardWith(p, rows) == [q \in DOMAIN files \cup {p} |-> IF q = p THEN rows ELSE files[q]]

CardWithout(p) == [q \in DOMAIN files \ {p} |-> files[q]]

-----------------------------------------------------------------------------
\* Mutant: the file is opened "wb" for an append too.
Write_Truncate(p, rows, append, err) ==
    IF Addressable(p)
      THEN NoFault /\ err = "ESP_OK" /\ files' = CardWith(p, rows)
      ELSE err = "ESP_FAIL" /\ UNCHANGED card

\* sd_storage_write.  fopen "wb" empties the file, "ab" keeps its rows.  The
\* result compares what fwrite took with what it was given; what fclose
\* returns is ignored.
Write(p, rows, append, err) ==
    LET base == IF append THEN Rows(p) ELSE << >>
        Stored(k) == files' = CardWith(p, base \o SubSeq(rows, 1, k))
    IN
    \/ /\ ~Addressable(p)
       /\ err = "ESP_FAIL"
       /\ UNCHANGED card
    \/ /\ Addressable(p)
       /\ \/ NoFault /\ err = "ESP_OK" /\ Stored(Len(rows))
          \/ /\ Fault(IF append THEN "append" ELSE "create")
             /\ err = "ESP_FAIL"
             /\ UNCHANGED files
          \/ Fault("short") /\ err = "ESP_FAIL" /\ \E k \in 0 .. Len(rows) - 1 : Stored(k)
          \/ Fault("close") /\ err = "ESP_OK" /\ \E k \in 0 .. Len(rows) - 1 : Stored(k)

\* sd_storage_rename.  The target is removed before rename() runs, also when
\* there turns out to be nothing to rename; a card that fails may refuse either.
Rename(old, new, err) ==
    \/ /\ ~Addressable(old) \/ ~Addressable(new)
       /\ err = "ESP_FAIL"
       /\ UNCHANGED card
    \/ /\ Addressable(old) /\ Addressable(new)
       /\ \/ /\ old \in DOMAIN files
             /\ NoFault
             /\ err = "ESP_OK"
             /\ files' = [q \in (DOMAIN files \ {old}) \cup {new} |->
                             IF q = new THEN files[old] ELSE files[q]]
          \/ /\ old \notin DOMAIN files /\ NoFault
             /\ err = "ESP_FAIL"
             /\ files' = CardWithout(new)
          \/ /\ Fault("rename")
             /\ err = "ESP_FAIL"
             /\ files' = CardWithout(new) \/ UNCHANGED files

\* sd_storage_erase: a file that is gone by now is an error, too.
Erase(p, err) ==
    \/ p \in DOMAIN files /\ NoFault /\ err = "ESP_OK" /\ files' = CardWithout(p)
    \/ p \notin DOMAIN files /\ err = "ESP_FAIL" /\ UNCHANGED card
    \/ p \in DOMAIN files /\ Fault("erase") /\ err = "ESP_FAIL" /\ UNCHANGED files

\* sd_storage_format
Format(err) ==
    \/ NoFault /\ err = "ESP_OK" /\ files' = << >>
    \/ Fault("format") /\ err = "ESP_FAIL" /\ UNCHANGED files

=============================================================================
