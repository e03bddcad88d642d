------------------------------ MODULE Entries ------------------------------
(***************************************************************************)
(* What is entered by hand, beside the readouts: a date in the picker of   *)
(* set_time_screen.c, a network's name and password in the form of         *)
(* wifi_provision.c. They meet the readouts nowhere, so it is enough that  *)
(* one is entered while the hub has no channel and the tiles are shown.    *)
(***************************************************************************)
EXTENDS Readouts

VARIABLE entry     \* the last entry: its kind, what was given, what is used,
                   \* and (history) whether it had arrived whole

NoEntry == [kind |-> "none", given |-> <<>>, used |-> <<>>, whole |-> TRUE]

\* set_time_apply_cb, on the days the rollers offer: each month has 31.
Picked == (2024..2035) \X (1..12) \X (1..31)
ApplyDate(given) ==
    entry' = [kind |-> "date", given |-> given,
              used |-> days_from_civil(given[1], given[2], given[3]), whole |-> TRUE]

\* portal_save_handler reads the body once and takes what had come of it by then:
\* it may end anywhere in the name's field, which the form has first, or in the
\* password's. wifi_bringup_task gives the driver what was stored of the two.
Arrivals(name, pass) ==
    {<<SubSeq(Form(name), 1, n), <<>>>> : n \in 0..Len(Form(name))}
    \cup {<<Form(name), SubSeq(Form(pass), 1, n)>> : n \in 0..Len(Form(pass))}
SaveForm(name, pass) ==
    /\ Len(Form(name)) + Len(Form(pass)) <= BodyMax
    /\ \E got \in Arrivals(name, pass) :
         /\ SsidAccepted(got[1])
         /\ entry' = [kind |-> "form", given |-> <<name, pass>>,
                      used |-> <<InDriver(Stored(got[1])), InDriver(Stored(got[2]))>>,
                      whole |-> got = <<Form(name), Form(pass)>>]

Enter ==
    /\ entry = NoEntry /\ view = "tiles" /\ order = <<>>
    /\ \/ \E given \in Picked : ApplyDate(given)
       \/ \E name, pass \in BoundedSeq(Typed, FormLen) : SaveForm(name, pass)
    /\ UNCHANGED vars

\* Another screen, or the restart that follows the form.
Leave == entry # NoEntry /\ entry' = NoEntry /\ UNCHANGED vars

EntriesInit == ReadoutsInit /\ entry = NoEntry
EntriesNext == Enter \/ Leave \/ (entry = NoEntry /\ Next /\ UNCHANGED entry)
EntriesSpec == EntriesInit /\ [][EntriesNext]_<<vars, entry>>

-----------------------------------------------------------------------------
\* An entry is used as it was meant. The date is the calendar's in every year
\* the picker offers, and a day its month does not have (30 February can be
\* selected) runs on into the next month. The network joined is the one typed
\* in, whatever the browser had to escape, if the name leaves the driver's
\* field one byte and the password fits its field in escaped form, and if the
\* one httpd_req_recv returned the whole body: of a body that had come in part
\* the handler saves that part without a word (the cut name or password is
\* what is joined with). Even then a password is not given to a network of
\* another name: where any of it arrived, the name is as typed in.
UsedAsMeant ==
    LET given == entry.given
        used  == entry.used
    IN  /\ entry.kind = "date" =>
                used = MonthStart(given[1], given[2]) + given[3] - 1
        /\ entry.kind = "form" =>
              /\ Len(given[1]) < FieldMax /\ (entry.whole \/ used[2] # <<>>)
                    => used[1] = given[1]
              /\ Len(Form(given[2])) < FieldMax /\ entry.whole
                    => used[2] = given[2]
=============================================================================
