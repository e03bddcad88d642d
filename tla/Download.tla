------------------------------ MODULE Download ------------------------------
(***************************************************************************)
(* download_handler of web_server.c beside the logger: the httpd task      *)
(* reads a file by name, one chunk per sd_storage_read, while the logger   *)
(* task appends to it or rotates it and users remove it. Only the single   *)
(* read holds the card's mutex. Sizes and offsets are in rows.             *)
(***************************************************************************)
EXTENDS Logger, SequencesExt

CONSTANTS Chunk          \* rows in one read

ASSUME DownloadAssumption == Chunk \in Nat \ {0}

VARIABLES
    dl,        \* the request: where it is, its file, the offset, what was sent
    had,       \* history: rows the file had when the request came
    replaced   \* history: the file was renamed or removed since

downloadVars == <<dl, had, replaced>>

NoDownload == [at |-> "idle", path |-> NoPath, offset |-> 0, sent |-> << >>]

DownloadInit == Init /\ dl = NoDownload /\ had = 0 /\ replaced = FALSE

\* The file must exist, or the answer is 404.
DownloadBegins(p) ==
    /\ dl.at = "idle" /\ pc # "boot"
    /\ Exists(p)
    /\ dl' = [NoDownload EXCEPT !.at = "read", !.path = p]
    /\ had' = FileSize(p) /\ replaced' = FALSE
    /\ UNCHANGED vars

Ended == dl' = NoDownload /\ had' = 0 /\ replaced' = FALSE

\* What the file has at the offset, and what sd_storage_read makes of it: all
\* of it, or less when the card fails, or nothing.
Piece == SubSeq(Rows(dl.path), dl.offset + 1,
                IF dl.offset + Chunk < Len(Rows(dl.path)) THEN dl.offset + Chunk
                                                          ELSE Len(Rows(dl.path)))

Pieces == {Piece} \cup IF "read" \in Faults
                       THEN {SubSeq(Piece, 1, k) : k \in 0 .. Len(Piece)}
                       ELSE {}

\* Mutant: the offset advances by the chunk, not by what was read.
ReadChunk_ByChunk ==
    /\ dl.at = "read"
    /\ \E got \in Pieces \ {<< >>} :
          dl' = [dl EXCEPT !.offset = @ + Chunk, !.sent = @ \o got]
    /\ UNCHANGED <<vars, had, replaced>>

\* ... and httpd_resp_send_chunk.
ReadChunk ==
    /\ dl.at = "read"
    /\ \E got \in Pieces \ {<< >>} :
          dl' = [dl EXCEPT !.offset = @ + Len(got), !.sent = @ \o got]
    /\ UNCHANGED <<vars, had, replaced>>

\* Nothing left, or a file that is gone by now, ends the answer.
ReadEnd == dl.at = "read" /\ Piece = << >> /\ Ended /\ UNCHANGED vars

\* A read that fails ends it in the same way: the client cannot tell.
ReadFails == dl.at = "read" /\ Piece # << >> /\ << >> \in Pieces /\ Ended /\ UNCHANGED vars

\* The client has gone away.
SendFails == dl.at = "read" /\ dl.sent # << >> /\ Ended /\ UNCHANGED vars

\* A step that renames, empties or removes the file, whatever comes of it.
Replaces(p) ==
    \/ RotateRename /\ p \in {s_log_path, s_backup_path}
    \/ RotateHeader /\ p = s_log_path
    \/ \E c \in Callers : \/ StartHeader(c) /\ p = s_log_path
                          \/ DeleteErase(c) /\ p = call[c].path
                          \/ ClearFormat(c)

\* The rest of the system; a power loss takes the request with it.
Elsewhere ==
    /\ Next
    /\ IF pc # "boot" /\ pc' = "boot"
       THEN Ended
       ELSE /\ UNCHANGED <<dl, had>>
            /\ replaced' = (replaced \/ (dl.at # "idle" /\ Replaces(dl.path)))

DownloadNext == \/ Elsewhere
                \/ \E p \in DOMAIN files : DownloadBegins(p)
                \/ ReadChunk \/ ReadEnd \/ ReadFails \/ SendFails

DownloadSpec == DownloadInit /\ [][DownloadNext]_<<vars, downloadVars>>

-----------------------------------------------------------------------------
\* Whatever ends it, a download is the file's beginning, with no row missing or
\* twice, although the logger appends to the file between two chunks and reads
\* fall short; one that found nothing left is at least as long as the file was
\* when it was asked for.  It needs that the file was not rotated, emptied or
\* removed meanwhile: then the rows of two files follow each other.
DownloadWhole ==
    [][ /\ (ReadEnd \/ ReadFails \/ SendFails) /\ ~replaced => IsPrefix(dl.sent, Rows(dl.path))
        /\ ReadEnd /\ ~replaced => Len(dl.sent) >= had ]_<<vars, downloadVars>>
=============================================================================
