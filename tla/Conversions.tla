---------------------------- MODULE Conversions ----------------------------
(***************************************************************************)
(* The firmware's pure computations, as operators: the picker's date, the  *)
(* portal's form and the graph's points, with what they stand for.         *)
(***************************************************************************)
EXTENDS Integers, Sequences, SequencesExt

CONSTANTS GRAPH_MAX_POINTS,   \* the chart's buffer
          FieldMax,           \* characters a field of the form can hold
          BodyMax,            \* characters of the two fields the handler has room for
          FormLen             \* bound on what is entered into one

ASSUME ConversionAssumption ==
    /\ {GRAPH_MAX_POINTS, FieldMax} \subseteq Nat \ {0} /\ {BodyMax, FormLen} \subseteq Nat

\* C's integer division, which rounds towards zero.
Quot(a, b) == IF a >= 0 THEN a \div b ELSE -((-a) \div b)

-----------------------------------------------------------------------------
\* set_time_screen.c: days since 1970-01-01.
days_from_civil(y, m, d) ==
    LET year == IF m <= 2 THEN y - 1 ELSE y
        era  == Quot(IF year >= 0 THEN year ELSE year - 399, 400)
        yoe  == year - era * 400
        doy  == (153 * (m + (IF m > 2 THEN -3 ELSE 9)) + 2) \div 5 + d - 1
    IN  era * 146097 + yoe * 365 + yoe \div 4 - yoe \div 100 + doy - 719468

Leap(y) == y % 4 = 0 /\ (y % 100 # 0 \/ y % 400 = 0)
MonthLength(y, m) == CASE m = 2            -> IF Leap(y) THEN 29 ELSE 28
                       [] m \in {4, 6, 9, 11} -> 30
                       [] OTHER            -> 31
\* Days before a year, counted year by year, and before a month of it.
YearStart[y \in 1970..2035] ==
    IF y = 1970 THEN 0 ELSE YearStart[y - 1] + (IF Leap(y - 1) THEN 366 ELSE 365)
MonthStart(y, m) ==
    LET before[n \in 1..12] == IF n = 1 THEN 0 ELSE before[n - 1] + MonthLength(y, n - 1)
    IN  YearStart[y] + before[m]

-----------------------------------------------------------------------------
\* wifi_provision.c: a form as the browser sends it. A letter stands for
\* itself, a space for "+", every other character for three.
Letters == {"x", "y"}
Typed   == Letters \cup {" ", "%"}
Encoded(c) == CASE c \in Letters -> <<c>> [] c = " " -> <<"+">>
                [] OTHER         -> <<"%", "2", "5">>
Form(text) == FlattenSeq([i \in 1..Len(text) |-> Encoded(text[i])])

\* url_decode, in place. Mutant: it continues with the first digit of an
\* escape instead of after the second.
url_decode_ShortSkip(s) ==
    LET from[i \in 1..(Len(s) + 3)] ==
            IF i > Len(s) THEN <<>>
            ELSE IF s[i] = "+" THEN <<" ">> \o from[i + 1]
            ELSE IF s[i] = "%" /\ i + 2 <= Len(s) THEN <<"%">> \o from[i + 1]
            ELSE <<s[i]>> \o from[i + 1]
    IN  from[1]

url_decode(s) ==
    LET escape(i) == s[i] = "%" /\ i + 2 <= Len(s) /\ <<s[i + 1], s[i + 2]>> = <<"2", "5">>
        from[i \in 1..(Len(s) + 3)] ==
            IF i > Len(s) THEN <<>>
            ELSE IF s[i] = "+" THEN <<" ">> \o from[i + 1]
            ELSE IF escape(i)  THEN <<"%">> \o from[i + 3]
            ELSE <<s[i]>> \o from[i + 1]
    IN  from[1]

\* httpd_query_key_value copies what fits; portal_save_handler refuses a name
\* that did not fit, but takes what there is of such a password.
Field(sent) == SubSeq(sent, 1, IF Len(sent) > FieldMax THEN FieldMax ELSE Len(sent))
SsidAccepted(sent) == sent # <<>> /\ Len(sent) <= FieldMax
Stored(sent) == url_decode(Field(sent))

\* wifi_bringup_task leaves the last byte of the driver's field unused.
InDriver(s) == SubSeq(s, 1, IF Len(s) > FieldMax - 1 THEN FieldMax - 1 ELSE Len(s))

-----------------------------------------------------------------------------
\* graph_screen.c: how many points a tick and a span ask for, within the
\* buffer.
graph_compute_effective(tick_s, span_s) ==
    LET wanted == span_s \div (IF tick_s = 0 THEN 1 ELSE tick_s)
        atLeast == IF wanted = 0 THEN 1 ELSE wanted
        points == IF atLeast > GRAPH_MAX_POINTS THEN GRAPH_MAX_POINTS ELSE atLeast
    IN  [points |-> points, span_s |-> points * tick_s,
         capped |-> atLeast > GRAPH_MAX_POINTS]
=============================================================================
