------------------------------ MODULE Readouts ------------------------------
(***************************************************************************)
(* What the measurement and graph screens show of data_hub: statistics     *)
(* since Start or Reset, a chart of the last points, and the settings that *)
(* choose channel, tick and span. Screens.tla has the navigation; here the *)
(* screens are the values of view. Everything but Publish, by the UART     *)
(* task, runs on LVGL's task.                                              *)
(*                                                                         *)
(* Values are in thousandths; the chart's are in hundredths.               *)
(***************************************************************************)
EXTENDS Conversions

CONSTANTS Channels, Values,
          s_tick_seconds, s_span_seconds,   \* the choices, in order
          MaxSamples,                       \* bound on samples per visit
          None

ASSUME ReadoutsAssumption ==
    /\ Values \subseteq Int /\ None \notin Channels \cup Int
    /\ MaxSamples \in Nat
    /\ s_tick_seconds \in Seq(Nat \ {0}) /\ s_tick_seconds # <<>>
    /\ s_span_seconds \in Seq(Nat \ {0}) /\ s_span_seconds # <<>>

VARIABLES
    order, latest,                    \* data_hub: channels as they appeared
    view,
    measured, stats, taken,           \* s_measurement_channel, _stats; history
    s_selected_channel, s_tick_idx, s_span_idx,
    chart,                            \* [points, series, min, max]: s_chart
    seen,                             \* [has, min, max] since entry
    period, plotted,                  \* s_sample_timer's; history
    s_channel_names, rollers          \* the settings screen

hubVars     == <<order, latest>>
measureVars == <<measured, stats, taken>>
chosenVars  == <<s_selected_channel, s_tick_idx, s_span_idx>>
graphVars   == <<chart, seen, period, plotted>>
configVars  == <<s_channel_names, rollers>>
vars == <<hubVars, view, measureVars, chosenVars, graphVars, configVars>>

NoStats  == [running |-> FALSE, has |-> FALSE, min |-> 0, max |-> 0,
             sum |-> 0, count |-> 0]
NoChart  == [points |-> 1, series |-> <<>>, min |-> 0, max |-> 100]
NoSample == [has |-> FALSE, min |-> 0, max |-> 0]

\* The settings' rollers when the screen is not shown: they do not exist.
NoRollers == [channel |-> 1, tick |-> 1, span |-> 1]

\* (int32_t)(value * GRAPH_VALUE_SCALE)
Scaled(v) == Quot(v, 10)

ReadoutsInit ==
    /\ order = <<>> /\ latest = [c \in Channels |-> None]
    /\ view = "tiles"
    /\ measured = None /\ stats = NoStats /\ taken = <<>>
    /\ s_selected_channel = None /\ s_tick_idx = 1 /\ s_span_idx = 1
    /\ chart = NoChart /\ seen = NoSample /\ period = 0 /\ plotted = <<>>
    /\ s_channel_names = <<>> /\ rollers = NoRollers

\* data_hub_publish: a new channel goes to the end of the list.
Publish(c, v) ==
    /\ latest' = [latest EXCEPT ![c] = v]
    /\ order' = IF latest[c] = None THEN Append(order, c) ELSE order
    /\ UNCHANGED <<view, measureVars, chosenVars, graphVars, configVars>>

-----------------------------------------------------------------------------
\* measurement_screen.c. Statistics start fresh on entry.
OpenMeasurement(c) ==
    /\ view = "tiles" /\ c \in Range(order)
    /\ view' = "measurement"
    /\ measured' = c /\ stats' = NoStats /\ taken' = <<>>
    /\ UNCHANGED <<hubVars, chosenVars, graphVars, configVars>>

\* Mutant: the first sample sets only the minimum.
With_MinOnly(s, v) ==
    [s EXCEPT !.has = TRUE,
              !.min = IF ~s.has \/ v < @ THEN v ELSE @,
              !.max = IF s.has /\ v > @ THEN v ELSE @,
              !.sum = @ + v, !.count = @ + 1]

\* The statistics s with the value v.
With(s, v) ==
    [running |-> s.running, has |-> TRUE,
     min |-> IF ~s.has \/ v < s.min THEN v ELSE s.min,
     max |-> IF ~s.has \/ v > s.max THEN v ELSE s.max,
     sum |-> s.sum + v, count |-> s.count + 1]

\* measurement_refresh_timer_cb takes the latest value, new or not.
MeasurementTick ==
    /\ view = "measurement" /\ Len(taken) < MaxSamples
    /\ stats.running
    /\ stats' = With(stats, latest[measured])
    /\ taken' = Append(taken, latest[measured])
    /\ UNCHANGED <<hubVars, view, measured, chosenVars, graphVars, configVars>>

measurement_reset ==
    /\ view = "measurement"
    /\ stats' = [NoStats EXCEPT !.running = stats.running]
    /\ taken' = <<>>
    /\ UNCHANGED <<hubVars, view, measured, chosenVars, graphVars, configVars>>

measurement_run ==
    /\ view = "measurement"
    /\ stats' = [stats EXCEPT !.running = ~@]
    /\ UNCHANGED <<hubVars, view, measured, taken, chosenVars, graphVars, configVars>>

-----------------------------------------------------------------------------
\* graph_screen_create, for a channel, a tick and a span: an empty chart and
\* a new timer, whatever was there before.
Created(tick, span) ==
    LET e == graph_compute_effective(s_tick_seconds[tick], s_span_seconds[span])
    IN  /\ view' = "graph"
        /\ chart' = [NoChart EXCEPT !.points = e.points]
        /\ seen' = NoSample /\ plotted' = <<>>
        /\ period' = s_tick_seconds[tick] * 1000

\* From a tile: graph_screen_set_channel, then the screen.
OpenGraph(c) ==
    /\ view = "tiles" /\ c \in Range(order)
    /\ s_selected_channel' = c
    /\ Created(s_tick_idx, s_span_idx)
    /\ UNCHANGED <<hubVars, measureVars, s_tick_idx, s_span_idx, configVars>>

\* Mutant: whether the axis has a height is asked before rounding.
Axis_BeforeRounding(s) ==
    [min |-> Scaled(s.min),
     max |-> IF s.min = s.max THEN Scaled(s.min) + 100 ELSE Scaled(s.max)]

\* The axis for the extremes s: never of height zero.
Axis(s) ==
    [min |-> Scaled(s.min),
     max |-> IF Scaled(s.min) = Scaled(s.max) THEN Scaled(s.min) + 100 ELSE Scaled(s.max)]

\* A series of at most n with one more value, as lv_chart shifts it. Mutant:
\* the newest value replaces the last one.
Shifted_Overwrite(series, v, n) ==
    IF Len(series) < n THEN Append(series, v) ELSE [series EXCEPT ![n] = v]

Shifted(series, v, n) ==
    IF Len(series) < n THEN Append(series, v) ELSE Append(Tail(series), v)

graph_sample_timer_cb ==
    /\ view = "graph" /\ Len(plotted) < MaxSamples
    /\ LET v == latest[s_selected_channel]
           s == [has |-> TRUE,
                 min |-> IF ~seen.has \/ v < seen.min THEN v ELSE seen.min,
                 max |-> IF ~seen.has \/ v > seen.max THEN v ELSE seen.max]
       IN  /\ seen' = s
           /\ chart' = [points |-> chart.points,
                        series |-> Shifted(chart.series, Scaled(v), chart.points),
                        min |-> Axis(s).min, max |-> Axis(s).max]
           /\ plotted' = Append(plotted, [channel |-> s_selected_channel, value |-> v])
    /\ UNCHANGED <<hubVars, view, measureVars, chosenVars, period, configVars>>

-----------------------------------------------------------------------------
\* The settings list the channels of this moment; the rollers start at what
\* is selected (graph_config_find_channel_index: the first, if none is).
OpenConfig ==
    /\ view = "graph"
    /\ view' = "config"
    /\ s_channel_names' = order
    /\ rollers' = [channel |-> IF s_selected_channel \in Range(order)
                               THEN CHOOSE i \in DOMAIN order : order[i] = s_selected_channel
                               ELSE 1,
                   tick |-> s_tick_idx, span |-> s_span_idx]
    /\ chart' = NoChart /\ plotted' = <<>>
    /\ UNCHANGED <<hubVars, measureVars, chosenVars, seen, period>>

Roll(r) ==
    /\ view = "config"
    /\ rollers' = r
    /\ UNCHANGED <<hubVars, view, measureVars, chosenVars, graphVars, s_channel_names>>

Rolled == [channel : DOMAIN s_channel_names, tick : DOMAIN s_tick_seconds,
           span : DOMAIN s_span_seconds]

\* graph_config_apply_cb, then screen_pop, which builds the graph afresh.
Apply ==
    /\ view = "config"
    /\ s_selected_channel' = s_channel_names[rollers.channel]
    /\ s_tick_idx' = rollers.tick /\ s_span_idx' = rollers.span
    /\ Created(rollers.tick, rollers.span)
    /\ rollers' = NoRollers
    /\ UNCHANGED <<hubVars, measureVars, s_channel_names>>

\* The next screen deletes this one's widgets; statistics and timer stay.
Back ==
    /\ \/ /\ view = "measurement" /\ view' = "tiles"
          /\ taken' = <<>> /\ UNCHANGED <<graphVars, rollers>>
       \/ /\ view = "graph" /\ view' = "tiles"
          /\ chart' = NoChart /\ plotted' = <<>>
          /\ UNCHANGED <<seen, period, taken, rollers>>
       \/ /\ view = "config" /\ Created(s_tick_idx, s_span_idx)
          /\ rollers' = NoRollers /\ UNCHANGED taken
    /\ UNCHANGED <<hubVars, measured, stats, chosenVars, s_channel_names>>

Next == \/ \E c \in Channels, v \in Values : Publish(c, v)
        \/ \E c \in Channels : OpenMeasurement(c) \/ OpenGraph(c)
        \/ MeasurementTick \/ measurement_reset \/ measurement_run
        \/ graph_sample_timer_cb \/ OpenConfig \/ Apply \/ Back
        \/ \E r \in Rolled : Roll(r)

Spec == ReadoutsInit /\ [][Next]_vars

-----------------------------------------------------------------------------
\* The values the variables take; the chart never asks for more points than
\* its buffer has, and the rollers stay within their lists.
LatestTypeOK ==
    /\ order \in Seq(Channels) /\ latest \in [Channels -> Values \cup {None}]
    /\ view \in {"tiles", "measurement", "graph", "config"}

MeasureTypeOK ==
    /\ measured \in Channels \cup {None} /\ taken \in Seq(Values)
    /\ stats \in [running : BOOLEAN, has : BOOLEAN, min : Int, max : Int, sum : Int,
                  count : Nat]

ChosenTypeOK ==
    /\ s_selected_channel \in Channels \cup {None}
    /\ s_tick_idx \in DOMAIN s_tick_seconds /\ s_span_idx \in DOMAIN s_span_seconds

GraphTypeOK ==
    /\ chart \in [points : 1..GRAPH_MAX_POINTS, series : Seq(Int), min : Int, max : Int]
    /\ seen \in [has : BOOLEAN, min : Int, max : Int]
    /\ period \in Nat /\ plotted \in Seq([channel : Channels, value : Values])

ConfigTypeOK ==
    /\ s_channel_names \in Seq(Channels)
    /\ view = "config" => rollers \in Rolled

ReadoutsTypeOK ==
    LatestTypeOK /\ MeasureTypeOK /\ ChosenTypeOK /\ GraphTypeOK /\ ConfigTypeOK

\* The average shown lies between the minimum and the maximum beside it, and
\* no sum is left to start from when there is nothing to show.
AverageInRange ==
    /\ stats.has => /\ stats.count > 0
                    /\ stats.count * stats.min <= stats.sum
                    /\ stats.sum <= stats.count * stats.max
    /\ ~stats.has => stats.sum = 0 /\ stats.count = 0

\* The sum of a sequence of values, from its beginning.
Total(values) ==
    LET total[i \in 0 .. Len(values)] == IF i = 0 THEN 0 ELSE total[i - 1] + values[i]
    IN  total[Len(values)]

\* MIN, MAX and AVG are those of the samples taken while running since the
\* visit began or Reset was tapped, in whatever order Start, Stop, Reset and
\* the timer come.
StatsOfTaken ==
    /\ AverageInRange
    /\ view = "measurement" =>
        /\ stats.has = (taken # <<>>)
        /\ stats.count = Len(taken)
        /\ stats.sum = Total(taken)
        /\ stats.has => /\ {stats.min, stats.max} \subseteq Range(taken)
                        /\ \A v \in Range(taken) : stats.min <= v /\ v <= stats.max

\* Every point of the chart lies on its axis, which has a height, for the
\* whole visit and for values that round to the same hundredth.
ChartInAxis ==
    chart.min < chart.max /\
    \A i \in DOMAIN chart.series : chart.min <= chart.series[i] /\ chart.series[i] <= chart.max

\* The graph in view runs on the tick and covers the span that are selected,
\* on whichever way it was entered: within its buffer, no more than the span
\* but one point and, unless that caps it, no less by a whole tick.
ChartAsSelected ==
    view = "graph" =>
        LET tick == s_tick_seconds[s_tick_idx]
            span == s_span_seconds[s_span_idx]
        IN  /\ period = tick * 1000
            /\ chart.points \in 1..GRAPH_MAX_POINTS
            /\ chart.points * tick <= span \/ chart.points = 1
            /\ span - chart.points * tick < tick \/ chart.points = GRAPH_MAX_POINTS

\* The chart is the last points of this visit, in order, all of them of the
\* channel in the title -- also after the settings changed it -- and as many
\* as the settings ask for.
ChartIsTail ==
    LET n == Len(plotted)
        from == IF n > chart.points THEN n - chart.points ELSE 0
    IN  /\ ChartAsSelected
        /\ Len(chart.series) = n - from
        /\ \A i \in DOMAIN chart.series : chart.series[i] = Scaled(plotted[from + i].value)
        /\ view = "graph" => \A i \in 1..n : plotted[i].channel = s_selected_channel
=============================================================================
