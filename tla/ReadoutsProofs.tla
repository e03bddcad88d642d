--------------------------- MODULE ReadoutsProofs ---------------------------
(***************************************************************************)
(* Proofs about what the measurement and graph screens show, for any       *)
(* channels, values, choices and sizes: the average lies between the       *)
(* extremes, the chart on its axis, and the chart is the end of the visit; *)
(* the statistics are those of the samples taken; and, for every date of   *)
(* the picker and every text of a form, that what is entered is used as it *)
(* was meant.                                                              *)
(*                                                                         *)
(* What a recursive function computes is shown by Climb (FiltersProofs):   *)
(* first that a function obeying the recursion exists, then its values.    *)
(***************************************************************************)
EXTENDS Entries, FiltersProofs, SequenceTheorems

\* What is shown or offered has a sample.
Sampled(c) == c \in Channels /\ latest[c] \in Values
ShownSampled ==
    /\ \A i \in DOMAIN order : Sampled(order[i])
    /\ \A i \in DOMAIN s_channel_names : Sampled(s_channel_names[i])
    /\ view = "measurement" => Sampled(measured)
    /\ view \in {"graph", "config"} => Sampled(s_selected_channel) /\ order # <<>>
    /\ view = "config" => s_channel_names # <<>>

\* The axis is that of the extremes seen, and they enclose the chart.
ChartOnAxis ==
    /\ chart.min < chart.max
    /\ chart.series # <<>> => seen.has /\ chart.min = Axis(seen).min /\ chart.max = Axis(seen).max
    /\ seen.has => seen.min <= seen.max
    /\ \A i \in DOMAIN chart.series :
            Scaled(seen.min) <= chart.series[i] /\ chart.series[i] <= Scaled(seen.max)

ReadoutsInv ==
    ReadoutsTypeOK /\ ShownSampled /\ AverageInRange /\ ChartOnAxis /\ ChartIsTail

-----------------------------------------------------------------------------
\* Rounding to hundredths keeps the order.
LEMMA ScaledMonotone ==
    ASSUME NEW a \in Int, NEW b \in Int, a <= b
    PROVE  Scaled(a) \in Int /\ Scaled(b) \in Int /\ Scaled(a) <= Scaled(b)
  BY DEF Scaled, Quot

LEMMA TimesMonotone ==
    ASSUME NEW n \in Nat, NEW a \in Int, NEW b \in Int, a <= b
    PROVE  n * a <= n * b
  <1>1. n * (b - a) >= 0
    OBVIOUS
  <1>. QED
    BY <1>1

\* One value more: the average stays between the extremes.
LEMMA WithInRange ==
    ASSUME stats \in [running : BOOLEAN, has : BOOLEAN, min : Int, max : Int, sum : Int,
                      count : Nat],
           AverageInRange, NEW v \in Int, stats' = With(stats, v)
    PROVE  AverageInRange'
  <1>1. CASE ~stats.has
    BY <1>1 DEF AverageInRange, With
  <1>2. CASE stats.has
    <2>. DEFINE low == IF v < stats.min THEN v ELSE stats.min
                high == IF v > stats.max THEN v ELSE stats.max
                n == stats.count
    <2>1. /\ n \in Nat \ {0} /\ low \in Int /\ high \in Int /\ stats.sum \in Int
          /\ low <= v /\ v <= high /\ low <= stats.min /\ stats.max <= high
          /\ stats.min \in Int /\ stats.max \in Int
          /\ n * stats.min <= stats.sum /\ stats.sum <= n * stats.max
      BY <1>2 DEF AverageInRange
    <2>2. /\ stats'.has /\ stats'.count = n + 1 /\ stats'.sum = stats.sum + v
          /\ stats'.min = low /\ stats'.max = high
      BY <1>2 DEF With
    <2>. HIDE DEF low, high, n
    <2>3. n * low <= n * stats.min /\ n * stats.max <= n * high
      BY <2>1, TimesMonotone
    <2>4. (n + 1) * low = n * low + low /\ (n + 1) * high = n * high + high
      BY <2>1
    <2>5. n * low \in Int /\ n * high \in Int /\ n * stats.min \in Int /\ n * stats.max \in Int
      BY <2>1
    <2>6. (n + 1) * low <= stats.sum + v /\ stats.sum + v <= (n + 1) * high
      BY <2>1, <2>3, <2>4, <2>5
    <2>. QED
      BY <2>1, <2>2, <2>6 DEF AverageInRange
  <1>. QED
    BY <1>1, <1>2

LEMMA WithTyped ==
    ASSUME NEW s \in [running : BOOLEAN, has : BOOLEAN, min : Int, max : Int, sum : Int,
                      count : Nat],
           NEW v \in Int
    PROVE  With(s, v) \in [running : BOOLEAN, has : BOOLEAN, min : Int, max : Int, sum : Int,
                           count : Nat]
  <1>. DEFINE low == IF ~s.has \/ v < s.min THEN v ELSE s.min
              high == IF ~s.has \/ v > s.max THEN v ELSE s.max
  <1>1. With(s, v) = [running |-> s.running, has |-> TRUE, min |-> low, max |-> high,
                      sum |-> s.sum + v, count |-> s.count + 1]
    BY DEF With
  <1>2. /\ s.running \in BOOLEAN /\ low \in Int /\ high \in Int
        /\ s.sum + v \in Int /\ s.count + 1 \in Nat
    OBVIOUS
  <1>. HIDE DEF low, high
  <1>. QED
    BY <1>1, <1>2

\* The points for a tick and a span fit the buffer and cover the span.
LEMMA EffectivePoints ==
    ASSUME NEW tick \in Nat \ {0}, NEW span \in Nat \ {0}
    PROVE  LET points == graph_compute_effective(tick, span).points
           IN  /\ points \in 1..GRAPH_MAX_POINTS
               /\ points * tick <= span \/ points = 1
               /\ span - points * tick < tick \/ points = GRAPH_MAX_POINTS
  <1>. DEFINE wanted == span \div tick
  <1>1. wanted \in Nat /\ wanted * tick <= span /\ span < wanted * tick + tick
    OBVIOUS
  <1>2. GRAPH_MAX_POINTS \in Nat \ {0}
    BY ConversionAssumption DEF ConversionAssumption
  <1>. HIDE DEF wanted
  <1>. QED
    BY <1>1, <1>2 DEF graph_compute_effective

\* Where the last points of a visit of n samples begin.
StartOf(n) == IF n > chart.points THEN n - chart.points ELSE 0

\* One sample more on the chart: its points are still the last of the visit.
LEMMA ShiftedTail ==
    ASSUME GraphTypeOK, ChartIsTail,
           NEW p \in [channel : Channels, value : Values],
           NEW new, new = Shifted(chart.series, Scaled(p.value), chart.points)
    PROVE  /\ new \in Seq(Int)
           /\ Append(plotted, p) \in Seq([channel : Channels, value : Values])
           /\ Len(Append(plotted, p)) = Len(plotted) + 1
           /\ Len(new) = (Len(plotted) + 1) - StartOf(Len(plotted) + 1)
           /\ \A i \in DOMAIN new :
                  new[i] = Scaled(Append(plotted, p)[StartOf(Len(plotted) + 1) + i].value)
  <1>. DEFINE n == Len(plotted)
              from == IF n > chart.points THEN n - chart.points ELSE 0
              v == Scaled(p.value)
  <1>0. p.value \in Int
    BY ReadoutsAssumption DEF ReadoutsAssumption
  <1>1. /\ n \in Nat /\ chart.points \in Nat \ {0} /\ chart.series \in Seq(Int)
        /\ v \in Int
    <2>1. n \in Nat /\ chart.points \in Nat \ {0} /\ chart.series \in Seq(Int)
      BY ConversionAssumption DEF GraphTypeOK, ConversionAssumption
    <2>2. v \in Int
      BY <1>0, ScaledMonotone
    <2>. QED
      BY <2>1, <2>2
  <1>2. /\ Len(chart.series) = n - from
        /\ \A i \in 1..(n - from) : chart.series[i] = Scaled(plotted[from + i].value)
    BY <1>1 DEF ChartIsTail
  <1>3. /\ Append(plotted, p) \in Seq([channel : Channels, value : Values])
        /\ Len(Append(plotted, p)) = n + 1
        /\ \A i \in 1..n : Append(plotted, p)[i] = plotted[i]
        /\ Append(plotted, p)[n + 1] = p
    BY DEF GraphTypeOK
  <1>. HIDE DEF v, n
  <1>4. CASE n < chart.points
    <2>1. /\ Shifted(chart.series, v, chart.points) = Append(chart.series, v)
          /\ from = 0 /\ ~(n + 1 > chart.points)
      BY <1>1, <1>2, <1>4 DEF Shifted
    <2>2. /\ Append(chart.series, v) \in Seq(Int) /\ Len(Append(chart.series, v)) = n + 1
          /\ \A i \in 1..n : Append(chart.series, v)[i] = chart.series[i]
          /\ Append(chart.series, v)[n + 1] = v
      BY <1>1, <1>2, <2>1
    <2>3. \A i \in 1..(n + 1) :
              Append(chart.series, v)[i] = Scaled(Append(plotted, p)[i].value)
      BY <1>1, <1>2, <1>3, <2>1, <2>2 DEF v
    <2>. QED
      BY <1>1, <1>3, <2>1, <2>2, <2>3 DEF v, n, StartOf
  <1>5. CASE n >= chart.points
    <2>0. from = n - chart.points /\ n - from = chart.points
      BY <1>1, <1>5
    <2>1. Shifted(chart.series, v, chart.points) = Append(Tail(chart.series), v)
      BY <1>1, <1>2, <2>0 DEF Shifted
    <2>2. /\ Tail(chart.series) \in Seq(Int) /\ Len(Tail(chart.series)) = chart.points - 1
          /\ \A i \in 1..(chart.points - 1) : Tail(chart.series)[i] = chart.series[i + 1]
      BY <1>1, <1>2, <2>0
    <2>3. /\ Append(Tail(chart.series), v) \in Seq(Int)
          /\ Len(Append(Tail(chart.series), v)) = chart.points
          /\ \A i \in 1..(chart.points - 1) :
                 Append(Tail(chart.series), v)[i] = chart.series[i + 1]
          /\ Append(Tail(chart.series), v)[chart.points] = v
      BY <1>1, <2>2
    <2>4. \A i \in 1..chart.points :
              Append(Tail(chart.series), v)[i]
                  = Scaled(Append(plotted, p)[n + 1 - chart.points + i].value)
      <3>1. ASSUME NEW i \in 1..(chart.points - 1)
            PROVE  Append(Tail(chart.series), v)[i]
                       = Scaled(Append(plotted, p)[n + 1 - chart.points + i].value)
        <4>0. i + 1 \in 1..(n - from)
          BY <1>1, <2>0
        <4>1. chart.series[i + 1] = Scaled(plotted[from + (i + 1)].value)
          BY <1>2, <4>0
        <4>2. from + (i + 1) = n + 1 - chart.points + i /\ from + (i + 1) \in 1..n
          BY <1>1, <1>5, <2>0
        <4>. QED
          BY <1>3, <2>3, <4>1, <4>2
      <3>2. Append(Tail(chart.series), v)[chart.points]
                = Scaled(Append(plotted, p)[n + 1 - chart.points + chart.points].value)
        BY <1>1, <1>3, <2>3 DEF v
      <3>3. \A i \in 1..chart.points : i \in 1..(chart.points - 1) \/ i = chart.points
        BY <1>1
      <3>. QED
        BY <3>1, <3>2, <3>3
    <2>5. n + 1 > chart.points /\ (n + 1) - (n + 1 - chart.points) = chart.points
      BY <1>1, <1>5
    <2>6. DOMAIN Append(Tail(chart.series), v) = 1..chart.points
      BY <2>3
    <2>7. (IF n + 1 > chart.points THEN n + 1 - chart.points ELSE 0) = n + 1 - chart.points
      BY <2>5
    <2>8. new = Append(Tail(chart.series), v)
      BY <2>1 DEF v
    <2>9. Len(new) = (n + 1) - StartOf(n + 1)
      BY <1>1, <2>3, <2>5, <2>7, <2>8 DEF StartOf
    <2>10. \A i \in DOMAIN new : new[i] = Scaled(Append(plotted, p)[StartOf(n + 1) + i].value)
      <3>1. StartOf(n + 1) = n + 1 - chart.points
        BY <1>1, <2>5 DEF StartOf
      <3>. QED
        BY <2>4, <2>6, <2>8, <3>1, Zenon
    <2>11. new \in Seq(Int)
      BY <2>3, <2>8
    <2>. QED
      BY <1>3, <2>9, <2>10, <2>11 DEF n
  <1>6. n < chart.points \/ n >= chart.points
    BY <1>1
  <1>. QED
    BY <1>4, <1>5, <1>6, Zenon


-----------------------------------------------------------------------------
\* The first boot.
LEMMA ReadoutsStart ==
    ASSUME ReadoutsInit
    PROVE  ReadoutsInv
  <1>. USE ReadoutsAssumption, ConversionAssumption
       DEF ReadoutsInit, ReadoutsAssumption, ConversionAssumption
  <1>1. ReadoutsTypeOK
    <2>1. LatestTypeOK /\ ChosenTypeOK /\ ConfigTypeOK
      BY DEF LatestTypeOK, ChosenTypeOK, ConfigTypeOK
    <2>2. MeasureTypeOK /\ GraphTypeOK
      BY DEF MeasureTypeOK, GraphTypeOK, NoStats, NoChart, NoSample
    <2>. QED
      BY <2>1, <2>2 DEF ReadoutsTypeOK
  <1>2. ShownSampled /\ AverageInRange /\ ChartOnAxis
    BY DEF ShownSampled, AverageInRange, ChartOnAxis, NoStats, NoChart, NoSample
  <1>3. ChartIsTail
    BY DEF ChartIsTail, ChartAsSelected, NoChart
  <1>. QED
    BY <1>1, <1>2, <1>3 DEF ReadoutsInv

\* A graph screen just built: an empty chart for the tick and span selected.
LEMMA CreatedFresh ==
    ASSUME ReadoutsInv, NEW tick \in DOMAIN s_tick_seconds, NEW span \in DOMAIN s_span_seconds,
           Created(tick, span), s_tick_idx' = tick, s_span_idx' = span
    PROVE  GraphTypeOK' /\ ChartOnAxis' /\ ChartIsTail'
  <1>. DEFINE points == graph_compute_effective(s_tick_seconds[tick], s_span_seconds[span]).points
  <1>1. s_tick_seconds[tick] \in Nat \ {0} /\ s_span_seconds[span] \in Nat \ {0}
    BY ReadoutsAssumption DEF ReadoutsAssumption
  <1>2. /\ points \in 1..GRAPH_MAX_POINTS
        /\ points * s_tick_seconds[tick] <= s_span_seconds[span] \/ points = 1
        /\ \/ s_span_seconds[span] - points * s_tick_seconds[tick] < s_tick_seconds[tick]
           \/ points = GRAPH_MAX_POINTS
    BY <1>1, EffectivePoints
  <1>3. /\ view' = "graph" /\ seen' = NoSample /\ plotted' = <<>>
        /\ chart' = [points |-> points, series |-> <<>>, min |-> 0, max |-> 100]
        /\ period' = s_tick_seconds[tick] * 1000
    BY DEF Created, NoChart
  <1>. HIDE DEF points
  <1>4. points \in Nat \ {0}
    BY <1>2, ConversionAssumption DEF ConversionAssumption
  <1>5. GraphTypeOK'
    BY <1>1, <1>2, <1>3 DEF GraphTypeOK, NoSample
  <1>6. ChartOnAxis'
    BY <1>3 DEF ChartOnAxis, NoSample
  <1>7. ChartIsTail'
    <2>1. ChartAsSelected'
      BY <1>2, <1>3 DEF ChartAsSelected
    <2>. QED
      BY <1>3, <1>4, <2>1 DEF ChartIsTail
  <1>. QED
    BY <1>5, <1>6, <1>7

LEMMA PublishKeeps ==
    ASSUME ReadoutsInv, NEW c \in Channels, NEW v \in Values, Publish(c, v)
    PROVE  ReadoutsInv'
  <1>. USE DEF ReadoutsInv, Publish, hubVars, measureVars,
               chosenVars, graphVars, configVars
  <1>1. LatestTypeOK'
    BY DEF ReadoutsTypeOK, LatestTypeOK
  <1>2. MeasureTypeOK'
    BY DEF ReadoutsTypeOK, MeasureTypeOK
  <1>3. ChosenTypeOK' /\ ConfigTypeOK'
    BY DEF ReadoutsTypeOK, ChosenTypeOK, ConfigTypeOK, Rolled
  <1>4. GraphTypeOK'
    BY DEF ReadoutsTypeOK, GraphTypeOK
  <1>5. ShownSampled'
    BY DEF ReadoutsTypeOK, LatestTypeOK, ShownSampled, Sampled
  <1>6. AverageInRange'
    BY DEF AverageInRange
  <1>7. ChartOnAxis'
    BY DEF ChartOnAxis
  <1>8. ChartIsTail'
    BY DEF ChartIsTail, ChartAsSelected
  <1>. QED
    BY <1>1, <1>2, <1>3, <1>4, <1>5, <1>6, <1>7, <1>8 DEF ReadoutsTypeOK

LEMMA OpenMeasurementKeeps ==
    ASSUME ReadoutsInv, NEW c \in Channels, OpenMeasurement(c)
    PROVE  ReadoutsInv'
  <1>. USE DEF ReadoutsInv, OpenMeasurement, hubVars, measureVars,
               chosenVars, graphVars, configVars
  <1>1. LatestTypeOK'
    BY DEF ReadoutsTypeOK, LatestTypeOK
  <1>2. MeasureTypeOK'
    BY DEF ReadoutsTypeOK, MeasureTypeOK, NoStats
  <1>3. ChosenTypeOK' /\ ConfigTypeOK'
    BY DEF ReadoutsTypeOK, ChosenTypeOK, ConfigTypeOK, Rolled
  <1>4. GraphTypeOK'
    BY DEF ReadoutsTypeOK, GraphTypeOK
  <1>5. ShownSampled'
    BY DEF ReadoutsTypeOK, LatestTypeOK, ShownSampled, Sampled, Range
  <1>6. AverageInRange'
    BY DEF AverageInRange, NoStats
  <1>7. ChartOnAxis'
    BY DEF ChartOnAxis
  <1>8. ChartIsTail'
    BY DEF ChartIsTail, ChartAsSelected
  <1>. QED
    BY <1>1, <1>2, <1>3, <1>4, <1>5, <1>6, <1>7, <1>8 DEF ReadoutsTypeOK

LEMMA MeasurementTickKeeps ==
    ASSUME ReadoutsInv, MeasurementTick
    PROVE  ReadoutsInv'
  <1>. USE DEF ReadoutsInv, MeasurementTick, hubVars, measureVars,
               chosenVars, graphVars, configVars
  <1>1. LatestTypeOK'
    BY DEF ReadoutsTypeOK, LatestTypeOK
  <1>2. MeasureTypeOK'
    <2>1. /\ latest[measured] \in Values /\ latest[measured] \in Int
          /\ stats \in [running : BOOLEAN, has : BOOLEAN, min : Int, max : Int, sum : Int,
                        count : Nat]
          /\ measured \in Channels \cup {None} /\ taken \in Seq(Values)
      BY ReadoutsAssumption
         DEF ReadoutsAssumption, ShownSampled, Sampled, ReadoutsTypeOK, MeasureTypeOK
    <2>2. stats' \in [running : BOOLEAN, has : BOOLEAN, min : Int, max : Int, sum : Int,
                      count : Nat]
      BY <2>1, WithTyped
    <2>. QED
      BY <2>1, <2>2 DEF MeasureTypeOK
  <1>3. ChosenTypeOK' /\ ConfigTypeOK'
    BY DEF ReadoutsTypeOK, ChosenTypeOK, ConfigTypeOK, Rolled
  <1>4. GraphTypeOK'
    BY DEF ReadoutsTypeOK, GraphTypeOK
  <1>5. ShownSampled'
    BY DEF ReadoutsTypeOK, LatestTypeOK, ShownSampled, Sampled
  <1>6. AverageInRange'
    BY ReadoutsAssumption, WithInRange DEF ReadoutsTypeOK, MeasureTypeOK, ShownSampled, Sampled, ReadoutsAssumption
  <1>7. ChartOnAxis'
    BY DEF ChartOnAxis
  <1>8. ChartIsTail'
    BY DEF ChartIsTail, ChartAsSelected
  <1>. QED
    BY <1>1, <1>2, <1>3, <1>4, <1>5, <1>6, <1>7, <1>8 DEF ReadoutsTypeOK

LEMMA MeasurementButtonsKeep ==
    ASSUME ReadoutsInv, measurement_reset \/ measurement_run
    PROVE  ReadoutsInv'
  <1>. USE DEF ReadoutsInv, measurement_reset, measurement_run, hubVars, measureVars,
               chosenVars, graphVars, configVars
  <1>1. LatestTypeOK'
    BY DEF ReadoutsTypeOK, LatestTypeOK
  <1>2. MeasureTypeOK'
    <2>0. /\ stats \in [running : BOOLEAN, has : BOOLEAN, min : Int, max : Int, sum : Int,
                        count : Nat]
          /\ measured \in Channels \cup {None} /\ taken \in Seq(Values)
      BY DEF ReadoutsTypeOK, MeasureTypeOK
    <2>1. CASE measurement_reset
      <3>1. stats' = [running |-> stats.running, has |-> FALSE, min |-> 0, max |-> 0,
                      sum |-> 0, count |-> 0]
        BY <2>1 DEF NoStats
      <3>2. stats.running \in BOOLEAN /\ measured' = measured /\ taken' = <<>>
        BY <2>0, <2>1
      <3>. QED
        BY <2>0, <3>1, <3>2 DEF MeasureTypeOK
    <2>2. CASE measurement_run
      BY <2>0, <2>2 DEF MeasureTypeOK
    <2>. QED
      BY <2>1, <2>2
  <1>3. ChosenTypeOK' /\ ConfigTypeOK'
    BY DEF ReadoutsTypeOK, ChosenTypeOK, ConfigTypeOK, Rolled
  <1>4. GraphTypeOK'
    BY DEF ReadoutsTypeOK, GraphTypeOK
  <1>5. ShownSampled'
    BY DEF ReadoutsTypeOK, LatestTypeOK, ShownSampled, Sampled
  <1>6. AverageInRange'
    BY DEF AverageInRange, NoStats, ReadoutsTypeOK, MeasureTypeOK
  <1>7. ChartOnAxis'
    BY DEF ChartOnAxis
  <1>8. ChartIsTail'
    BY DEF ChartIsTail, ChartAsSelected
  <1>. QED
    BY <1>1, <1>2, <1>3, <1>4, <1>5, <1>6, <1>7, <1>8 DEF ReadoutsTypeOK

LEMMA OpenGraphKeeps ==
    ASSUME ReadoutsInv, NEW c \in Channels, OpenGraph(c)
    PROVE  ReadoutsInv'
  <1>. USE DEF ReadoutsInv, OpenGraph, hubVars, measureVars,
               chosenVars, graphVars, configVars
  <1>1. GraphTypeOK' /\ ChartOnAxis' /\ ChartIsTail'
    BY CreatedFresh DEF ReadoutsTypeOK, ChosenTypeOK
  <1>2. LatestTypeOK' /\ MeasureTypeOK' /\ ChosenTypeOK' /\ ConfigTypeOK'
    BY DEF ReadoutsTypeOK, LatestTypeOK, MeasureTypeOK, ChosenTypeOK, ConfigTypeOK, Created
  <1>3. ShownSampled'
    BY DEF ReadoutsTypeOK, LatestTypeOK, ShownSampled, Sampled, Range, Created
  <1>4. AverageInRange'
    BY DEF AverageInRange
  <1>. QED
    BY <1>1, <1>2, <1>3, <1>4 DEF ReadoutsTypeOK

LEMMA OpenConfigKeeps ==
    ASSUME ReadoutsInv, OpenConfig
    PROVE  ReadoutsInv'
  <1>. USE DEF ReadoutsInv, OpenConfig, hubVars, measureVars,
               chosenVars, graphVars, configVars
  <1>1. LatestTypeOK'
    BY DEF ReadoutsTypeOK, LatestTypeOK
  <1>2. MeasureTypeOK'
    BY DEF ReadoutsTypeOK, MeasureTypeOK
  <1>3. ChosenTypeOK' /\ ConfigTypeOK'
    BY DEF ReadoutsTypeOK, ChosenTypeOK, ConfigTypeOK, LatestTypeOK, Rolled, ShownSampled, Range
  <1>4. GraphTypeOK'
    BY ConversionAssumption DEF ReadoutsTypeOK, GraphTypeOK, NoChart, ConversionAssumption
  <1>5. ShownSampled'
    BY DEF ReadoutsTypeOK, LatestTypeOK, ShownSampled, Sampled
  <1>6. AverageInRange'
    BY DEF AverageInRange
  <1>7. ChartOnAxis'
    BY DEF ChartOnAxis, NoChart
  <1>8. ChartIsTail'
    BY DEF ChartIsTail, ChartAsSelected, NoChart
  <1>. QED
    BY <1>1, <1>2, <1>3, <1>4, <1>5, <1>6, <1>7, <1>8 DEF ReadoutsTypeOK

LEMMA RollKeeps ==
    ASSUME ReadoutsInv, NEW r \in Rolled, Roll(r)
    PROVE  ReadoutsInv'
  <1>. USE DEF ReadoutsInv, Roll, hubVars, measureVars,
               chosenVars, graphVars, configVars
  <1>1. LatestTypeOK'
    BY DEF ReadoutsTypeOK, LatestTypeOK
  <1>2. MeasureTypeOK'
    BY DEF ReadoutsTypeOK, MeasureTypeOK
  <1>3. ChosenTypeOK' /\ ConfigTypeOK'
    BY DEF ReadoutsTypeOK, ChosenTypeOK, ConfigTypeOK, Rolled
  <1>4. GraphTypeOK'
    BY DEF ReadoutsTypeOK, GraphTypeOK
  <1>5. ShownSampled'
    BY DEF ReadoutsTypeOK, LatestTypeOK, ShownSampled, Sampled
  <1>6. AverageInRange'
    BY DEF AverageInRange
  <1>7. ChartOnAxis'
    BY DEF ChartOnAxis
  <1>8. ChartIsTail'
    BY DEF ChartIsTail, ChartAsSelected
  <1>. QED
    BY <1>1, <1>2, <1>3, <1>4, <1>5, <1>6, <1>7, <1>8 DEF ReadoutsTypeOK

LEMMA ApplyKeeps ==
    ASSUME ReadoutsInv, Apply
    PROVE  ReadoutsInv'
  <1>. USE DEF ReadoutsInv, Apply, hubVars, measureVars,
               chosenVars, graphVars, configVars
  <1>1. /\ rollers.channel \in DOMAIN s_channel_names /\ rollers.tick \in DOMAIN s_tick_seconds
        /\ rollers.span \in DOMAIN s_span_seconds
    BY DEF ReadoutsTypeOK, ConfigTypeOK, Rolled
  <1>2. GraphTypeOK' /\ ChartOnAxis' /\ ChartIsTail'
    BY <1>1, CreatedFresh
  <1>3. LatestTypeOK' /\ MeasureTypeOK'
    BY DEF ReadoutsTypeOK, LatestTypeOK, MeasureTypeOK, Created
  <1>4. ChosenTypeOK' /\ ConfigTypeOK'
    BY <1>1 DEF ReadoutsTypeOK, ChosenTypeOK, ConfigTypeOK, Created
  <1>5. ShownSampled'
    BY <1>1 DEF ReadoutsTypeOK, LatestTypeOK, ShownSampled, Sampled, Created
  <1>6. AverageInRange'
    BY DEF AverageInRange
  <1>. QED
    BY <1>1, <1>2, <1>3, <1>4, <1>5, <1>6 DEF ReadoutsTypeOK

LEMMA GraphSampleKeeps ==
    ASSUME ReadoutsInv, graph_sample_timer_cb
    PROVE  ReadoutsInv'
  <1>. USE DEF ReadoutsInv, hubVars, measureVars, chosenVars, configVars
  <1>. DEFINE v == latest[s_selected_channel]
              low == IF ~seen.has \/ v < seen.min THEN v ELSE seen.min
              high == IF ~seen.has \/ v > seen.max THEN v ELSE seen.max
              p == [channel |-> s_selected_channel, value |-> v]
  <1>1. /\ view = "graph" /\ s_selected_channel \in Channels /\ v \in Values
        /\ Values \subseteq Int /\ v \in Int
    BY ReadoutsAssumption DEF ReadoutsAssumption, ShownSampled, Sampled, graph_sample_timer_cb
  <1>2. /\ seen' = [has |-> TRUE, min |-> low, max |-> high]
        /\ chart' = [points |-> chart.points,
                     series |-> Shifted(chart.series, Scaled(v), chart.points),
                     min |-> Axis(seen').min, max |-> Axis(seen').max]
        /\ plotted' = Append(plotted, p)
        /\ UNCHANGED <<hubVars, view, measureVars, chosenVars, period, configVars>>
    BY DEF graph_sample_timer_cb
  <1>3. /\ chart.points \in 1..GRAPH_MAX_POINTS /\ chart.series \in Seq(Int)
        /\ seen.has \in BOOLEAN /\ seen.min \in Int /\ seen.max \in Int
        /\ p \in [channel : Channels, value : Values]
    BY <1>1 DEF ReadoutsTypeOK, GraphTypeOK
  <1>4. /\ low \in Int /\ high \in Int /\ low <= v /\ v <= high /\ low <= high
        /\ seen.has => low <= seen.min /\ seen.max <= high
    BY <1>1, <1>3 DEF ChartOnAxis
  <1>5. /\ chart'.series \in Seq(Int)
        /\ Len(plotted') = Len(plotted) + 1
        /\ plotted' \in Seq([channel : Channels, value : Values])
        /\ Len(chart'.series) = Len(plotted') - StartOf(Len(plotted'))
        /\ \A i \in DOMAIN chart'.series :
               chart'.series[i] = Scaled(plotted'[StartOf(Len(plotted')) + i].value)
    <2>1. GraphTypeOK /\ ChartIsTail
      BY DEF ReadoutsTypeOK
    <2>2. chart'.series = Shifted(chart.series, Scaled(p.value), chart.points)
      BY <1>2
    <2>3. plotted' = Append(plotted, p) /\ p \in [channel : Channels, value : Values]
      BY <1>2, <1>3
    <2>. HIDE DEF p, v
    <2>4. /\ chart'.series \in Seq(Int)
          /\ Append(plotted, p) \in Seq([channel : Channels, value : Values])
          /\ Len(Append(plotted, p)) = Len(plotted) + 1
          /\ Len(chart'.series) = (Len(plotted) + 1) - StartOf(Len(plotted) + 1)
          /\ \A i \in DOMAIN chart'.series :
                 chart'.series[i] = Scaled(Append(plotted, p)[StartOf(Len(plotted) + 1) + i].value)
      BY <2>1, <2>2, <2>3, ShiftedTail, Zenon
    <2>5. Len(plotted') = Len(plotted) + 1
      BY <2>3, <2>4
    <2>6. Len(chart'.series) = Len(plotted') - StartOf(Len(plotted'))
      BY <2>4, <2>5
    <2>7. \A i \in DOMAIN chart'.series :
              chart'.series[i] = Scaled(plotted'[StartOf(Len(plotted')) + i].value)
      BY <2>3, <2>4, <2>5
    <2>8. plotted' \in Seq([channel : Channels, value : Values])
      BY <2>3, <2>4
    <2>. QED
      BY <2>4, <2>5, <2>6, <2>7, <2>8
  <1>6. /\ chart'.points = chart.points /\ chart'.min = Axis(seen').min
        /\ chart'.max = Axis(seen').max
    BY <1>2
  <1>7. /\ seen'.has /\ seen'.min = low /\ seen'.max = high
        /\ Scaled(low) \in Int /\ Scaled(high) \in Int /\ Scaled(low) <= Scaled(high)
        /\ Scaled(low) <= Scaled(v) /\ Scaled(v) <= Scaled(high) /\ Scaled(v) \in Int
        /\ seen.has => Scaled(low) <= Scaled(seen.min) /\ Scaled(seen.max) <= Scaled(high)
        /\ Scaled(seen.min) \in Int /\ Scaled(seen.max) \in Int
    <2>1. seen'.has /\ seen'.min = low /\ seen'.max = high
      BY <1>2
    <2>. HIDE DEF low, high, v
    <2>2. /\ Scaled(low) \in Int /\ Scaled(high) \in Int /\ Scaled(low) <= Scaled(high)
          /\ Scaled(low) <= Scaled(v) /\ Scaled(v) <= Scaled(high) /\ Scaled(v) \in Int
      BY <1>1, <1>4, ScaledMonotone
    <2>3. Scaled(seen.min) \in Int /\ Scaled(seen.max) \in Int
      BY <1>3, ScaledMonotone
    <2>4. seen.has => Scaled(low) <= Scaled(seen.min) /\ Scaled(seen.max) <= Scaled(high)
      BY <1>3, <1>4, ScaledMonotone
    <2>. QED
      BY <2>1, <2>2, <2>3, <2>4
  <1>. HIDE DEF low, high, v
  <1>8. chart'.min \in Int /\ chart'.max \in Int /\ chart'.min < chart'.max
    BY <1>6, <1>7 DEF Axis
  <1>9. ReadoutsTypeOK'
    <2>1. GraphTypeOK'
      <3>1. chart' = [points |-> chart'.points, series |-> chart'.series,
                      min |-> chart'.min, max |-> chart'.max]
        BY <1>2
      <3>2. seen' \in [has : BOOLEAN, min : Int, max : Int]
        BY <1>2, <1>4
      <3>3. period' \in Nat
        BY <1>2 DEF ReadoutsTypeOK, GraphTypeOK
      <3>. QED
        BY <1>3, <1>5, <1>6, <1>8, <3>1, <3>2, <3>3 DEF GraphTypeOK
    <2>2. LatestTypeOK' /\ MeasureTypeOK' /\ ChosenTypeOK' /\ ConfigTypeOK'
      BY <1>2 DEF ReadoutsTypeOK, LatestTypeOK, MeasureTypeOK, ChosenTypeOK, ConfigTypeOK, Rolled
    <2>. QED
      BY <2>1, <2>2 DEF ReadoutsTypeOK
  <1>10. ShownSampled' /\ AverageInRange'
    BY <1>2 DEF ShownSampled, Sampled, AverageInRange
  <1>11. \A i \in DOMAIN chart'.series :
             Scaled(seen'.min) <= chart'.series[i] /\ chart'.series[i] <= Scaled(seen'.max)
    <2>1. ASSUME NEW i \in DOMAIN chart.series
          PROVE  Scaled(low) <= chart.series[i] /\ chart.series[i] <= Scaled(high)
      <3>1. seen.has /\ Scaled(seen.min) <= chart.series[i] /\ chart.series[i] <= Scaled(seen.max)
        BY <1>3 DEF ChartOnAxis
      <3>2. chart.series[i] \in Int
        BY <1>3
      <3>. QED
        BY <1>7, <3>1, <3>2
    <2>2. \A i \in DOMAIN chart'.series :
              chart'.series[i] = Scaled(v) \/ \E j \in DOMAIN chart.series : chart'.series[i] = chart.series[j]
      <3>1. chart.points \in Nat \ {0}
        BY <1>3, ConversionAssumption DEF ConversionAssumption
      <3>2. CASE Len(chart.series) < chart.points
        BY <1>2, <1>3, <1>7, <3>2 DEF Shifted
      <3>3. CASE ~(Len(chart.series) < chart.points)
        <4>1. chart.series # <<>> /\ chart'.series = Append(Tail(chart.series), Scaled(v))
          BY <1>2, <1>3, <3>1, <3>3 DEF Shifted
        <4>2. /\ Tail(chart.series) \in Seq(Int)
              /\ \A k \in DOMAIN Tail(chart.series) :
                     k + 1 \in DOMAIN chart.series /\ Tail(chart.series)[k] = chart.series[k + 1]
          BY <1>3, <4>1
        <4>3. \A i \in DOMAIN chart'.series :
                  \/ chart'.series[i] = Scaled(v)
                  \/ i \in DOMAIN Tail(chart.series) /\ chart'.series[i] = Tail(chart.series)[i]
          BY <1>7, <4>1, <4>2
        <4>. QED
          BY <4>2, <4>3
      <3>. QED
        BY <3>2, <3>3
    <2>. QED
      BY <1>7, <2>1, <2>2
  <1>12. ChartOnAxis'
    BY <1>4, <1>6, <1>7, <1>8, <1>11 DEF ChartOnAxis
  <1>13. ChartIsTail'
    <2>1. ChartAsSelected'
      BY <1>2, <1>6 DEF ChartIsTail, ChartAsSelected
    <2>2. \A i \in 1..Len(plotted') : plotted'[i].channel = s_selected_channel
      <3>1. \A i \in 1..Len(plotted) : plotted[i].channel = s_selected_channel
        BY <1>1 DEF ChartIsTail
      <3>2. plotted \in Seq([channel : Channels, value : Values])
        BY DEF ReadoutsTypeOK, GraphTypeOK
      <3>3. \A i \in 1..Len(plotted') : (i \in 1..Len(plotted) /\ plotted'[i] = plotted[i]) \/ plotted'[i] = p
        BY <1>2, <1>3, <3>2
      <3>. QED
        BY <3>1, <3>3
    <2>. QED
      BY <1>2, <1>5, <1>6, <2>1, <2>2 DEF ChartIsTail, StartOf
  <1>. QED
    BY <1>9, <1>10, <1>12, <1>13

LEMMA BackKeeps ==
    ASSUME ReadoutsInv, Back
    PROVE  ReadoutsInv'
  <1>. USE DEF ReadoutsInv, hubVars, measureVars, chosenVars, graphVars, configVars
  <1>1. CASE view = "measurement" /\ view' = "tiles" /\ taken' = <<>> /\ UNCHANGED <<graphVars, rollers>>
    <2>1. ReadoutsTypeOK'
      BY <1>1 DEF Back, ReadoutsTypeOK, LatestTypeOK, MeasureTypeOK, ChosenTypeOK, GraphTypeOK,
                  ConfigTypeOK
    <2>2. ShownSampled' /\ AverageInRange' /\ ChartOnAxis'
      BY <1>1 DEF Back, ShownSampled, Sampled, AverageInRange, ChartOnAxis
    <2>3. ChartIsTail'
      BY <1>1 DEF Back, ChartIsTail, ChartAsSelected
    <2>. QED
      BY <2>1, <2>2, <2>3
  <1>2. CASE /\ view = "graph" /\ view' = "tiles" /\ chart' = NoChart /\ plotted' = <<>>
             /\ UNCHANGED <<seen, period, taken, rollers>>
    <2>1. ReadoutsTypeOK'
      <3>1. GraphTypeOK'
        BY <1>2, ConversionAssumption
           DEF Back, ReadoutsTypeOK, GraphTypeOK, NoChart, ConversionAssumption
      <3>2. LatestTypeOK' /\ MeasureTypeOK' /\ ChosenTypeOK' /\ ConfigTypeOK'
        BY <1>2 DEF Back, ReadoutsTypeOK, LatestTypeOK, MeasureTypeOK, ChosenTypeOK, ConfigTypeOK
      <3>. QED
        BY <3>1, <3>2 DEF ReadoutsTypeOK
    <2>2. ShownSampled' /\ AverageInRange' /\ ChartOnAxis'
      BY <1>2 DEF Back, ShownSampled, Sampled, AverageInRange, ChartOnAxis, NoChart
    <2>3. ChartIsTail'
      BY <1>2 DEF Back, ChartIsTail, ChartAsSelected, NoChart
    <2>. QED
      BY <2>1, <2>2, <2>3
  <1>3. CASE view = "config" /\ Created(s_tick_idx, s_span_idx)
    <2>1. GraphTypeOK' /\ ChartOnAxis' /\ ChartIsTail'
      BY <1>3, CreatedFresh DEF Back, ReadoutsTypeOK, ChosenTypeOK
    <2>2. LatestTypeOK' /\ MeasureTypeOK' /\ ChosenTypeOK' /\ ConfigTypeOK'
      BY <1>3 DEF Back, Created, ReadoutsTypeOK, LatestTypeOK, MeasureTypeOK, ChosenTypeOK,
                  ConfigTypeOK
    <2>3. ShownSampled' /\ AverageInRange'
      BY <1>3 DEF Back, Created, ShownSampled, Sampled, AverageInRange
    <2>. QED
      BY <2>1, <2>2, <2>3 DEF ReadoutsTypeOK
  <1>. QED
    BY <1>1, <1>2, <1>3 DEF Back

LEMMA ReadoutsIdle ==
    ASSUME ReadoutsInv, UNCHANGED vars
    PROVE  ReadoutsInv'
  <1>. USE DEF ReadoutsInv, vars, hubVars, measureVars, chosenVars, graphVars, configVars
  <1>1. ReadoutsTypeOK'
    BY DEF ReadoutsTypeOK, LatestTypeOK, MeasureTypeOK, ChosenTypeOK, GraphTypeOK,
           ConfigTypeOK, Rolled
  <1>2. ShownSampled' /\ AverageInRange' /\ ChartOnAxis'
    BY DEF ShownSampled, Sampled, AverageInRange, ChartOnAxis
  <1>3. ChartIsTail'
    BY DEF ChartIsTail, ChartAsSelected
  <1>. QED
    BY <1>1, <1>2, <1>3

\* What is known of the measurement and graph screens in every state.
THEOREM ReadoutsInvariant == Spec => []ReadoutsInv
  <1>1. ReadoutsInit => ReadoutsInv
    BY ReadoutsStart
  <1>2. ReadoutsInv /\ [Next]_vars => ReadoutsInv'
    BY PublishKeeps, OpenMeasurementKeeps, MeasurementTickKeeps, MeasurementButtonsKeep,
       OpenGraphKeeps, OpenConfigKeeps, RollKeeps, ApplyKeeps, GraphSampleKeeps, BackKeeps,
       ReadoutsIdle DEF Next
  <1>. QED
    BY <1>1, <1>2, PTL DEF Spec

\* Every point drawn lies on the chart's axis, whatever was sampled and
\* however it rounds (graph_sample_timer_cb).
THEOREM ReadoutsChartInAxis == Spec => []ChartInAxis
  <1>1. ReadoutsInv => ChartInAxis
    <2>. SUFFICES ASSUME ReadoutsInv PROVE ChartInAxis
      OBVIOUS
    <2>. USE DEF ReadoutsInv, ReadoutsTypeOK, GraphTypeOK
    <2>1. ASSUME NEW i \in DOMAIN chart.series
          PROVE  chart.min <= chart.series[i] /\ chart.series[i] <= chart.max
      <3>1. /\ seen.has /\ chart.min = Axis(seen).min /\ chart.max = Axis(seen).max
            /\ Scaled(seen.min) <= chart.series[i] /\ chart.series[i] <= Scaled(seen.max)
        BY DEF ChartOnAxis
      <3>2. /\ seen.min \in Int /\ seen.max \in Int /\ chart.series[i] \in Int
            /\ chart.min \in Int /\ chart.max \in Int
        OBVIOUS
      <3>3. Scaled(seen.min) \in Int /\ Scaled(seen.max) \in Int
        BY <3>2, ScaledMonotone
      <3>. QED
        BY <3>1, <3>2, <3>3 DEF Axis
    <2>. QED
      BY <2>1 DEF ChartInAxis, ChartOnAxis
  <1>. QED
    BY <1>1, ReadoutsInvariant, PTL

\* The chart shows the last points of the visit, all of the channel selected,
\* on the tick and span selected, in whatever order screens and taps come.
THEOREM ReadoutsChartIsTail == Spec => []ChartIsTail
  <1>1. ReadoutsInv => ChartIsTail
    BY DEF ReadoutsInv
  <1>. QED
    BY <1>1, ReadoutsInvariant, PTL

\* The average shown lies between the minimum and the maximum beside it.
THEOREM ReadoutsAverage == Spec => []AverageInRange
  <1>1. ReadoutsInv => AverageInRange
    BY DEF ReadoutsInv
  <1>. QED
    BY <1>1, ReadoutsInvariant, PTL

-----------------------------------------------------------------------------
(* The statistics are those of the samples taken *)

\* f[i] is the sum of the first i values, for i up to n.
Sums(f, values, n) ==
    f = [i \in 0 .. n |-> IF i = 0 THEN 0 ELSE f[i - 1] + values[i]]

LEMMA SumsExist ==
    ASSUME NEW values
    PROVE  \A n \in Nat : \E f : Sums(f, values, n)
  <1> DEFINE S == {n \in Nat : \E f : Sums(f, values, n)}
  <1>1. 0 \in S
    <2> DEFINE f == [i \in 0 .. 0 |-> 0]
    <2>1. Sums(f, values, 0)
      BY DEF Sums
    <2> QED
      BY <2>1
  <1>2. ASSUME NEW n \in Nat, n \in S PROVE n + 1 \in S
    <2>1. PICK f : Sums(f, values, n)
      BY <1>2
    <2> DEFINE g == [i \in 0 .. n + 1 |-> IF i <= n THEN f[i] ELSE f[n] + values[i]]
    <2>2. ASSUME NEW i \in 0 .. n + 1
          PROVE  g[i] = IF i = 0 THEN 0 ELSE g[i - 1] + values[i]
      <3>1. i \in 0 .. n => f[i] = IF i = 0 THEN 0 ELSE f[i - 1] + values[i]
        BY <2>1 DEF Sums
      <3>2. i # 0 => i - 1 \in 0 .. n
        OBVIOUS
      <3>3. i # 0 => g[i - 1] = f[i - 1]
        BY <3>2
      <3>4. CASE i <= n
        BY <3>1, <3>3, <3>4
      <3>5. CASE i = n + 1
        BY <3>3, <3>5
      <3> QED
        BY <3>4, <3>5
    <2>3. Sums(g, values, n + 1)
      BY <2>2, Zenon DEF Sums
    <2> QED
      BY <2>3
  <1> HIDE DEF S
  <1>3. \A n \in Nat : n \in S
    BY <1>1, <1>2, Climb
  <1> QED
    BY <1>3 DEF S

\* The sum depends on the values alone.
LEMMA SumsAgree ==
    ASSUME NEW f, NEW g, NEW v, NEW w, NEW m \in Nat, NEW n \in Nat, m <= n,
           Sums(f, v, m), Sums(g, w, n), \A i \in 1 .. m : v[i] \in Int /\ v[i] = w[i]
    PROVE  f[m] \in Int /\ f[m] = g[m]
  <1> DEFINE S == {i \in Nat : i <= m => f[i] \in Int /\ f[i] = g[i]}
  <1>1. 0 \in S
    BY DEF Sums
  <1>2. ASSUME NEW i \in Nat, i \in S PROVE i + 1 \in S
    <2> SUFFICES ASSUME i + 1 <= m PROVE f[i + 1] \in Int /\ f[i + 1] = g[i + 1]
      OBVIOUS
    <2>1. i + 1 \in 0 .. m /\ i + 1 \in 0 .. n /\ i + 1 # 0 /\ (i + 1) - 1 = i /\ i + 1 \in 1 .. m
      OBVIOUS
    <2>2. f[i + 1] = f[i] + v[i + 1]
      BY <2>1 DEF Sums
    <2>3. g[i + 1] = g[i] + w[i + 1]
      BY <2>1 DEF Sums
    <2>4. f[i] \in Int /\ f[i] = g[i]
      BY <1>2
    <2>5. v[i + 1] \in Int /\ v[i + 1] = w[i + 1]
      BY <2>1
    <2> QED
      BY <2>2, <2>3, <2>4, <2>5
  <1> HIDE DEF S
  <1>3. m \in S
    BY <1>1, <1>2, Climb
  <1> QED
    BY <1>3 DEF S

LEMMA TotalIs ==
    ASSUME NEW values, Len(values) \in Nat
    PROVE  \E f : Sums(f, values, Len(values)) /\ Total(values) = f[Len(values)]
  <1> DEFINE f == CHOOSE f : Sums(f, values, Len(values))
  <1>1. Sums(f, values, Len(values))
    BY SumsExist
  <1>2. Total(values) = f[Len(values)]
    BY DEF Total, Sums
  <1> HIDE DEF f
  <1> QED
    BY <1>1, <1>2

LEMMA TotalEmpty == Total(<<>>) = 0
  <1>1. PICK f : Sums(f, <<>>, 0) /\ Total(<<>>) = f[0]
    BY TotalIs
  <1> QED
    BY <1>1 DEF Sums

\* A value more adds to the sum.
LEMMA TotalAppend ==
    ASSUME NEW values \in Seq(Int), NEW v \in Int
    PROVE  Total(Append(values, v)) = Total(values) + v
  <1> DEFINE more == Append(values, v)
             n == Len(values)
  <1>2. /\ n \in Nat /\ Len(more) = n + 1 /\ more[n + 1] = v
        /\ \A i \in 1 .. n : values[i] \in Int /\ values[i] = more[i]
    OBVIOUS
  <1> HIDE DEF more
  <1>3. PICK f : Sums(f, values, n) /\ Total(values) = f[n]
    BY <1>2, TotalIs
  <1>4. PICK g : Sums(g, more, n + 1) /\ Total(more) = g[n + 1]
    BY <1>2, TotalIs
  <1> HIDE DEF n
  <1>5. g[n + 1] = g[n] + more[n + 1]
    <2>1. n + 1 \in 0 .. n + 1 /\ n + 1 # 0 /\ (n + 1) - 1 = n
      BY <1>2
    <2> QED
      BY <1>4, <2>1 DEF Sums
  <1>6. g[n] = f[n]
    <2>1. n \in Nat /\ n + 1 \in Nat /\ n <= n + 1
      BY <1>2
    <2>2. /\ Sums(f, values, n) /\ Sums(g, more, n + 1)
          /\ \A i \in 1 .. n : values[i] \in Int /\ values[i] = more[i]
      BY <1>2, <1>3, <1>4
    <2> QED
      BY <2>1, <2>2, SumsAgree
  <1> QED
    BY <1>2, <1>3, <1>4, <1>5, <1>6 DEF more

\* The statistics s are those of the samples t.
Summary(s, t) ==
    /\ s.has = (t # <<>>)
    /\ s.count = Len(t)
    /\ s.sum = Total(t)
    /\ s.has => /\ {s.min, s.max} \subseteq Range(t)
                /\ \A v \in Range(t) : s.min <= v /\ v <= s.max

LEMMA NothingTaken ==
    ASSUME NEW s, s.has = FALSE, s.count = 0, s.sum = 0
    PROVE  Summary(s, <<>>)
  BY TotalEmpty DEF Summary

LEMMA OneMoreTaken ==
    ASSUME NEW s \in [running : BOOLEAN, has : BOOLEAN, min : Int, max : Int, sum : Int,
                      count : Nat],
           NEW t \in Seq(Int), NEW v \in Int, Summary(s, t), ~s.has => s.sum = 0 /\ s.count = 0
    PROVE  Summary(With(s, v), Append(t, v))
  <1> DEFINE u == Append(t, v)
             w == With(s, v)
  <1>1. /\ w.has /\ w.sum = s.sum + v /\ w.count = s.count + 1
        /\ w.min = IF ~s.has \/ v < s.min THEN v ELSE s.min
        /\ w.max = IF ~s.has \/ v > s.max THEN v ELSE s.max
    BY DEF With
  <1>2. u # <<>> /\ Len(u) = Len(t) + 1 /\ Range(u) = Range(t) \cup {v}
    <2>1. /\ Len(t) \in Nat /\ DOMAIN t = 1 .. Len(t) /\ DOMAIN u = 1 .. Len(t) + 1
          /\ Len(u) = Len(t) + 1 /\ u[Len(t) + 1] = v
          /\ \A i \in DOMAIN t : u[i] = t[i]
      OBVIOUS
    <2> HIDE DEF u
    <2>2. \A i \in DOMAIN u : i \in DOMAIN t \/ i = Len(t) + 1
      BY <2>1
    <2>3. \A i \in DOMAIN t : i \in DOMAIN u
      BY <2>1
    <2>4. Len(t) + 1 \in DOMAIN u
      BY <2>1
    <2>5. Range(u) = Range(t) \cup {v}
      BY <2>1, <2>2, <2>3, <2>4, Zenon DEF Range
    <2>6. u # <<>>
      BY <2>1
    <2> QED
      BY <2>1, <2>5, <2>6
  <1>3. Total(u) = Total(t) + v
    BY TotalAppend
  <1>4. Range(t) \subseteq Int /\ s.min \in Int /\ s.max \in Int
    BY DEF Range
  <1> HIDE DEF u, w
  <1>5. CASE ~s.has
    <2>1. Range(t) = {}
      BY <1>5 DEF Summary, Range
    <2>2. w.min = v /\ w.max = v /\ Range(u) = {v}
      BY <1>1, <1>2, <1>5, <2>1
    <2>3. w.count = Len(u) /\ w.sum = Total(u)
      BY <1>1, <1>2, <1>3 DEF Summary
    <2>4. {w.min, w.max} \subseteq Range(u) /\ \A x \in Range(u) : w.min <= x /\ x <= w.max
      BY <2>2
    <2>5. Summary(w, u)
      BY <1>1, <1>2, <2>3, <2>4 DEF Summary
    <2> QED
      BY <2>5 DEF u, w
  <1>6. CASE s.has
    <2>1. {s.min, s.max} \subseteq Range(t) /\ \A x \in Range(t) : s.min <= x /\ x <= s.max
      BY <1>6 DEF Summary
    <2>2. {w.min, w.max} \subseteq Range(u)
      BY <1>1, <1>2, <2>1
    <2>3. ASSUME NEW x \in Range(u) PROVE w.min <= x /\ x <= w.max
      BY <1>1, <1>2, <1>4, <1>6, <2>1, <2>3
    <2>4. w.count = Len(u) /\ w.sum = Total(u)
      BY <1>1, <1>2, <1>3 DEF Summary
    <2>5. Summary(w, u)
      BY <1>1, <1>2, <2>2, <2>3, <2>4 DEF Summary
    <2> QED
      BY <2>5 DEF u, w
  <1> QED
    BY <1>5, <1>6

Summarised == view = "measurement" => Summary(stats, taken)

LEMMA SummarisedStep == ReadoutsInv /\ Summarised /\ [Next]_vars => Summarised'
  <1> SUFFICES ASSUME ReadoutsInv, Summarised, [Next]_vars PROVE Summarised'
    OBVIOUS
  <1>1. /\ stats \in [running : BOOLEAN, has : BOOLEAN, min : Int, max : Int, sum : Int,
                      count : Nat]
        /\ taken \in Seq(Int) /\ Values \subseteq Int
        /\ ~stats.has => stats.sum = 0 /\ stats.count = 0
    <2>1. /\ stats \in [running : BOOLEAN, has : BOOLEAN, min : Int, max : Int, sum : Int,
                         count : Nat]
          /\ taken \in Seq(Values)
      BY DEF ReadoutsInv, ReadoutsTypeOK, MeasureTypeOK
    <2>2. Values \subseteq Int
      BY ReadoutsAssumption DEF ReadoutsAssumption
    <2>3. taken \in Seq(Int)
      BY <2>1, <2>2, SeqMonotonic
    <2>4. ~stats.has => stats.sum = 0 /\ stats.count = 0
      BY DEF ReadoutsInv, AverageInRange
    <2> QED
      BY <2>1, <2>2, <2>3, <2>4
  <1>2. CASE MeasurementTick
    <2>1. latest[measured] \in Int
      BY <1>1, <1>2 DEF MeasurementTick, ReadoutsInv, ShownSampled, Sampled
    <2> QED
      BY <1>1, <1>2, <2>1, OneMoreTaken DEF MeasurementTick, Summarised
  <1>3. CASE measurement_reset
    <2>1. stats' = [running |-> stats.running, has |-> FALSE, min |-> 0, max |-> 0,
                    sum |-> 0, count |-> 0]
      BY <1>3 DEF measurement_reset, NoStats
    <2> QED
      BY <1>3, <2>1, NothingTaken DEF measurement_reset, Summarised
  <1>4. CASE measurement_run
    <2>1. stats' = [running |-> ~stats.running, has |-> stats.has, min |-> stats.min,
                    max |-> stats.max, sum |-> stats.sum, count |-> stats.count]
      BY <1>1, <1>4 DEF measurement_run
    <2> QED
      BY <1>4, <2>1 DEF measurement_run, Summarised, Summary
  <1>5. ASSUME NEW c \in Channels, OpenMeasurement(c) PROVE Summarised'
    BY <1>5, NothingTaken DEF OpenMeasurement, NoStats, Summarised
  <1>6. ASSUME NEW c \in Channels, NEW v \in Values, Publish(c, v) PROVE Summarised'
    BY <1>6 DEF Publish, measureVars, Summarised
  <1>7. ASSUME NEW c \in Channels, OpenGraph(c) PROVE Summarised'
    BY <1>7 DEF OpenGraph, Created, Summarised
  <1>8. CASE graph_sample_timer_cb \/ OpenConfig \/ Apply \/ Back
             \/ \E r \in Rolled : Roll(r)
    BY <1>8 DEF graph_sample_timer_cb, OpenConfig, Apply, Back, Roll, Created, Summarised
  <1>9. CASE UNCHANGED vars
    BY <1>9 DEF vars, measureVars, Summarised
  <1> QED
    BY <1>2, <1>3, <1>4, <1>5, <1>6, <1>7, <1>8, <1>9 DEF Next

\* MIN, MAX and AVG are those of the samples taken since the visit began or
\* Reset was tapped, in whatever order Start, Stop, Reset and the timer come
\* (measurement_refresh_timer_cb, measurement_reset, measurement_run).
THEOREM ReadoutsStats == Spec => []StatsOfTaken
  <1>1. ReadoutsInit => Summarised
    BY DEF ReadoutsInit, Summarised
  <1>2. ReadoutsInv /\ Summarised => StatsOfTaken
    BY DEF ReadoutsInv, Summarised, Summary, StatsOfTaken
  <1> QED
    BY <1>1, <1>2, SummarisedStep, ReadoutsInvariant, PTL DEF Spec

-----------------------------------------------------------------------------
(* The date of the picker *)

LEMMA LeapByFour == \A y \in 1970 .. 2035 : Leap(y) <=> y % 4 = 0
  BY DEF Leap

\* The days before the years, as a formula.
ToYear(y) == 365 * (y - 1970) + ((y - 1969) \div 4)

\* f obeys the recursion of YearStart; of the months in MonthStart.
Starts(f) ==
    f = [y \in 1970 .. 2035 |->
            IF y = 1970 THEN 0 ELSE f[y - 1] + (IF Leap(y - 1) THEN 366 ELSE 365)]
Befores(f, y) ==
    f = [n \in 1 .. 12 |-> IF n = 1 THEN 0 ELSE f[n - 1] + MonthLength(y, n - 1)]

LEMMA YearStartIs == \A y \in 1970 .. 2035 : YearStart[y] = ToYear(y)
  <1>1. \E f : Starts(f)
    <2> DEFINE g == [y \in 1970 .. 2035 |-> ToYear(y)]
    <2>1. ASSUME NEW y \in 1970 .. 2035
          PROVE  g[y] = IF y = 1970 THEN 0 ELSE g[y - 1] + (IF Leap(y - 1) THEN 366 ELSE 365)
      <3>1. CASE y = 1970
        BY <3>1 DEF ToYear
      <3>2. CASE y # 1970
        <4>1. y - 1 \in 1970 .. 2035 /\ g[y - 1] = ToYear(y - 1)
          BY <3>2
        <4>2. Leap(y - 1) <=> (y - 1) % 4 = 0
          BY <4>1, LeapByFour
        <4>3. ToYear(y) = ToYear(y - 1) + (IF (y - 1) % 4 = 0 THEN 366 ELSE 365)
          BY <4>1 DEF ToYear
        <4> QED
          BY <3>2, <4>1, <4>2, <4>3
      <3> QED
        BY <3>1, <3>2
    <2>2. g = [y \in 1970 .. 2035 |-> g[y]]
      OBVIOUS
    <2> HIDE DEF g
    <2>3. Starts(g)
      BY <2>1, <2>2 DEF Starts
    <2> QED
      BY <2>3
  <1>2. Starts(YearStart)
    BY <1>1 DEF YearStart, Starts
  <1> DEFINE S == {n \in Nat : n <= 65 => YearStart[1970 + n] = ToYear(1970 + n)}
  <1>3. 0 \in S
    BY <1>2 DEF ToYear, Starts
  <1>4. ASSUME NEW n \in Nat, n \in S PROVE n + 1 \in S
    <2> SUFFICES ASSUME n + 1 <= 65 PROVE YearStart[1970 + (n + 1)] = ToYear(1970 + (n + 1))
      OBVIOUS
    <2> DEFINE y == 1970 + (n + 1)
    <2>1. y \in 1970 .. 2035 /\ y # 1970 /\ y - 1 = 1970 + n /\ y - 1 \in 1970 .. 2035
      OBVIOUS
    <2>2. YearStart[y - 1] = ToYear(y - 1)
      BY <1>4, <2>1
    <2>3. Leap(y - 1) <=> (y - 1) % 4 = 0
      BY <2>1, LeapByFour
    <2> HIDE DEF y, S
    <2>4. YearStart[y] = YearStart[y - 1] + (IF Leap(y - 1) THEN 366 ELSE 365)
      BY <1>2, <2>1 DEF Starts
    <2>5. ToYear(y) = ToYear(y - 1) + (IF (y - 1) % 4 = 0 THEN 366 ELSE 365)
      BY <2>1 DEF ToYear
    <2>6. YearStart[y] = ToYear(y)
      BY <2>2, <2>3, <2>4, <2>5
    <2> QED
      BY <2>6 DEF y
  <1> HIDE DEF S
  <1>5. \A n \in Nat : n \in S
    BY <1>3, <1>4, Climb
  <1>6. ASSUME NEW y \in 1970 .. 2035 PROVE YearStart[y] = ToYear(y)
    <2>1. y - 1970 \in S /\ y - 1970 \in Nat /\ y - 1970 <= 65 /\ 1970 + (y - 1970) = y
      BY <1>5
    <2> QED
      BY <2>1 DEF S
  <1> QED
    BY <1>6

\* The days before a month, with l for the leap day.
ToMonth(m, l) ==
    CASE m = 1  -> 0       [] m = 2  -> 31      [] m = 3  -> 59 + l   [] m = 4  -> 90 + l
      [] m = 5  -> 120 + l [] m = 6  -> 151 + l [] m = 7  -> 181 + l  [] m = 8  -> 212 + l
      [] m = 9  -> 243 + l [] m = 10 -> 273 + l [] m = 11 -> 304 + l  [] m = 12 -> 334 + l

LEMMA MonthStartIs ==
    ASSUME NEW y \in 2024 .. 2035, NEW m \in 1 .. 12
    PROVE  MonthStart(y, m) = ToYear(y) + ToMonth(m, IF y % 4 = 0 THEN 1 ELSE 0)
  <1> DEFINE l == IF y % 4 = 0 THEN 1 ELSE 0
             g == [n \in 1 .. 12 |-> ToMonth(n, l)]
             before == CHOOSE f : Befores(f, y)
  <1>1. l \in {0, 1} /\ (Leap(y) <=> l = 1)
    BY LeapByFour
  <1> HIDE DEF l
  <1>2. \A n \in 2 .. 12 : ToMonth(n, l) = ToMonth(n - 1, l) + MonthLength(y, n - 1)
    BY <1>1 DEF ToMonth, MonthLength
  <1>3. Befores(g, y)
    <2>1. ASSUME NEW n \in 1 .. 12
          PROVE  g[n] = IF n = 1 THEN 0 ELSE g[n - 1] + MonthLength(y, n - 1)
      <3>1. CASE n = 1
        BY <3>1 DEF ToMonth
      <3>2. CASE n # 1
        BY <3>2, <1>2
      <3> QED
        BY <3>1, <3>2
    <2>2. g = [n \in 1 .. 12 |-> g[n]]
      OBVIOUS
    <2> HIDE DEF g
    <2> QED
      BY <2>1, <2>2 DEF Befores
  <1>4. Befores(before, y)
    BY <1>3
  <1>5. MonthStart(y, m) = YearStart[y] + before[m]
    BY DEF MonthStart, Befores
  <1> HIDE DEF before
  <1>6. before[1] = 0 /\ \A n \in 2 .. 12 : before[n] = before[n - 1] + MonthLength(y, n - 1)
    BY <1>4 DEF Befores
  <1> DEFINE S == {n \in Nat : n + 1 <= 12 => before[n + 1] = ToMonth(n + 1, l)}
  <1>7. 0 \in S
    BY <1>6 DEF ToMonth
  <1>8. ASSUME NEW n \in Nat, n \in S PROVE n + 1 \in S
    <2> SUFFICES ASSUME (n + 1) + 1 <= 12 PROVE before[(n + 1) + 1] = ToMonth((n + 1) + 1, l)
      OBVIOUS
    <2> DEFINE k == (n + 1) + 1
    <2>1. k \in 2 .. 12 /\ k - 1 = n + 1
      OBVIOUS
    <2>2. before[k - 1] = ToMonth(k - 1, l)
      BY <1>8, <2>1
    <2> HIDE DEF k, S
    <2>3. before[k] = ToMonth(k, l)
      BY <1>2, <1>6, <2>1, <2>2
    <2> QED
      BY <2>3 DEF k
  <1> HIDE DEF S
  <1>9. before[m] = ToMonth(m, l)
    <2>1. m - 1 \in Nat /\ m - 1 \in S /\ (m - 1) + 1 = m
      BY <1>7, <1>8, Climb
    <2> QED
      BY <2>1 DEF S
  <1>10. YearStart[y] = ToYear(y)
    BY YearStartIs
  <1> QED
    BY <1>5, <1>9, <1>10 DEF l

\* The arithmetic of days_from_civil, month by month.
LEMMA DaysAre ==
    ASSUME NEW y \in 2024 .. 2035, NEW m \in 1 .. 12, NEW d \in 1 .. 31
    PROVE  days_from_civil(y, m, d) = ToYear(y) + ToMonth(m, IF y % 4 = 0 THEN 1 ELSE 0) + d - 1
  <1> DEFINE doy == (153 * (m + (IF m > 2 THEN -3 ELSE 9)) + 2) \div 5
             year == IF m <= 2 THEN y - 1 ELSE y
             yoe == year - 2000
  <1>1. year \in 2023 .. 2035 /\ Quot(year, 400) = 5
    BY DEF Quot
  <1>2. days_from_civil(y, m, d)
            = 5 * 146097 + yoe * 365 + yoe \div 4 - yoe \div 100 + (doy + d - 1) - 719468
    BY <1>1 DEF days_from_civil
  <1>3. yoe \div 100 = 0
    BY <1>1
  <1>4. CASE m <= 2
    <2>1. doy = IF m = 1 THEN 306 ELSE 337
      BY <1>4
    <2> QED
      BY <1>2, <1>3, <1>4, <2>1 DEF ToYear, ToMonth
  <1>5. CASE m > 2
    <2>1. doy = ToMonth(m, 0) - 59
      BY <1>5 DEF ToMonth
    <2>2. ToMonth(m, 1) = ToMonth(m, 0) + 1
      BY <1>5 DEF ToMonth
    <2>3. ToMonth(m, 0) \in Int
      BY <1>5 DEF ToMonth
    <2> QED
      BY <1>2, <1>3, <1>5, <2>1, <2>2, <2>3 DEF ToYear
  <1> QED
    BY <1>4, <1>5

LEMMA DateAsMeant ==
    ASSUME NEW given \in Picked
    PROVE  days_from_civil(given[1], given[2], given[3])
               = MonthStart(given[1], given[2]) + given[3] - 1
  <1>1. given[1] \in 2024 .. 2035 /\ given[2] \in 1 .. 12 /\ given[3] \in 1 .. 31
    BY DEF Picked
  <1> QED
    BY <1>1, MonthStartIs, DaysAre

-----------------------------------------------------------------------------
(* The form and its decoding *)

\* f[i] is the first i of the sequences, one after the other.
Joined(f, seqs, n) ==
    f = [i \in 1 .. n |-> IF i = 1 THEN seqs[i] ELSE f[i - 1] \o seqs[i]]

LEMMA JoinedExists ==
    ASSUME NEW seqs
    PROVE  \A n \in Nat : \E f : Joined(f, seqs, n)
  <1> DEFINE S == {n \in Nat : \E f : Joined(f, seqs, n)}
  <1>1. 0 \in S
    <2> DEFINE f == [i \in 1 .. 0 |-> 0]
    <2>1. Joined(f, seqs, 0)
      BY DEF Joined
    <2> QED
      BY <2>1
  <1>2. ASSUME NEW n \in Nat, n \in S PROVE n + 1 \in S
    <2>1. PICK f : Joined(f, seqs, n)
      BY <1>2
    <2> DEFINE g == [i \in 1 .. n + 1 |->
                        IF i <= n THEN f[i] ELSE IF i = 1 THEN seqs[i] ELSE f[n] \o seqs[i]]
    <2>2. ASSUME NEW i \in 1 .. n + 1
          PROVE  g[i] = IF i = 1 THEN seqs[i] ELSE g[i - 1] \o seqs[i]
      <3>1. i \in 1 .. n => f[i] = IF i = 1 THEN seqs[i] ELSE f[i - 1] \o seqs[i]
        BY <2>1 DEF Joined
      <3>2. i # 1 => i - 1 \in 1 .. n
        OBVIOUS
      <3>3. i # 1 => g[i - 1] = f[i - 1]
        BY <3>2
      <3>4. CASE i <= n
        BY <3>1, <3>3, <3>4
      <3>5. CASE i = n + 1
        BY <3>3, <3>5
      <3> QED
        BY <3>4, <3>5
    <2>3. g = [i \in 1 .. n + 1 |-> g[i]]
      OBVIOUS
    <2> HIDE DEF g
    <2>4. Joined(g, seqs, n + 1)
      BY <2>2, <2>3 DEF Joined
    <2> QED
      BY <2>4
  <1> HIDE DEF S
  <1>3. \A n \in Nat : n \in S
    BY <1>1, <1>2, Climb
  <1> QED
    BY <1>3 DEF S

\* The characters a form is sent with.
Sent == {"x", "y", "+", "%", "2", "5"}

LEMMA EncodedIs ==
    ASSUME NEW c \in Typed
    PROVE  /\ Encoded(c) \in Seq(Sent)
           /\ Len(Encoded(c)) \in {1, 3}
           /\ c \in {"x", "y"} => Encoded(c) = <<c>>
           /\ c = " " => Encoded(c) = <<"+">>
           /\ c = "%" => Encoded(c) = <<"%", "2", "5">>
  <1>1. c \in {"x", "y"} => Encoded(c) = <<c>>
    BY DEF Encoded, Letters
  <1>2. c = " " => Encoded(c) = <<"+">>
    BY DEF Encoded, Letters
  <1>3. c = "%" => Encoded(c) = <<"%", "2", "5">>
    BY DEF Encoded, Letters
  <1>4. CASE c \in {"x", "y"}
    <2>1. <<c>> \in Seq(Sent) /\ Len(<<c>>) = 1
      BY <1>4 DEF Sent
    <2>2. c # " " /\ c # "%"
      BY <1>4
    <2> QED
      BY <1>1, <1>4, <2>1, <2>2, Zenon
  <1>5. CASE c = " "
    <2>1. <<"+">> \in Seq(Sent) /\ Len(<<"+">>) = 1
      BY DEF Sent
    <2>2. c \notin {"x", "y"} /\ c # "%"
      BY <1>5
    <2> QED
      BY <1>2, <1>5, <2>1, <2>2, Zenon
  <1>6. CASE c = "%"
    <2>1. <<"%", "2", "5">> \in Seq(Sent) /\ Len(<<"%", "2", "5">>) = 3
      BY DEF Sent
    <2>2. c \notin {"x", "y"} /\ c # " "
      BY <1>6
    <2> QED
      BY <1>3, <1>6, <2>1, <2>2, Zenon
  <1> QED
    BY <1>4, <1>5, <1>6 DEF Typed, Letters

\* The characters of text stand in form one after the other, escaped, the k-th
\* behind p[k - 1].
LaidOut(form, p, text, n) ==
    /\ form \in Seq(Sent)
    /\ p \in [0 .. n -> Nat] /\ p[0] = 0 /\ p[n] = Len(form)
    /\ \A k \in 1 .. n :
          /\ p[k] = p[k - 1] + Len(Encoded(text[k]))
          /\ p[k] <= Len(form)
          /\ \A j \in 1 .. Len(Encoded(text[k])) : form[p[k - 1] + j] = Encoded(text[k])[j]

\* One more character.
LEMMA LayOut ==
    ASSUME NEW n \in Nat, NEW text, text[n + 1] \in Typed, NEW form, NEW p,
           LaidOut(form, p, text, n)
    PROVE  \E q : LaidOut(form \o Encoded(text[n + 1]), q, text, n + 1)
  <1> DEFINE e == Encoded(text[n + 1])
             more == form \o e
             q == [k \in 0 .. n + 1 |-> IF k <= n THEN p[k] ELSE Len(more)]
  <1>1. e \in Seq(Sent) /\ Len(e) \in Nat /\ form \in Seq(Sent) /\ Len(form) \in Nat
    <2>1. e \in Seq(Sent)
      BY EncodedIs
    <2> HIDE DEF e
    <2> QED
      BY <2>1 DEF LaidOut
  <1> HIDE DEF e
  <1>2. /\ more \in Seq(Sent) /\ Len(more) = Len(form) + Len(e)
        /\ \A j \in 1 .. Len(form) : more[j] = form[j]
        /\ \A j \in 1 .. Len(e) : more[Len(form) + j] = e[j]
    BY <1>1
  <1> HIDE DEF more
  <1>3. /\ q \in [0 .. n + 1 -> Nat] /\ q[n + 1] = Len(more)
        /\ \A k \in 0 .. n : q[k] = p[k] /\ p[k] \in Nat
    BY <1>1, <1>2 DEF LaidOut
  <1> HIDE DEF q
  <1>4. ASSUME NEW k \in 1 .. n + 1
        PROVE  /\ q[k] = q[k - 1] + Len(Encoded(text[k]))
               /\ q[k] <= Len(more)
               /\ \A j \in 1 .. Len(Encoded(text[k])) :
                     more[q[k - 1] + j] = Encoded(text[k])[j]
    <2>1. CASE k \in 1 .. n
      <3>1. /\ p[k] = p[k - 1] + Len(Encoded(text[k]))
            /\ p[k] <= Len(form)
            /\ \A j \in 1 .. Len(Encoded(text[k])) : form[p[k - 1] + j] = Encoded(text[k])[j]
        BY <2>1 DEF LaidOut
      <3>2. k - 1 \in 0 .. n /\ k \in 0 .. n /\ q[k] = p[k] /\ q[k - 1] = p[k - 1]
            /\ p[k] \in Nat /\ p[k - 1] \in Nat
        BY <1>3, <2>1
      <3> DEFINE lk == Len(Encoded(text[k]))
      <3>3. lk = p[k] - p[k - 1] \/ p[k] # p[k - 1] + lk
        <4>1. CASE lk \in Int
          BY <3>2, <4>1
        <4>2. CASE lk \notin Int
          BY <3>1, <3>2, <4>2
        <4> QED
          BY <4>1, <4>2
      <3> HIDE DEF lk
      <3>4. \A j \in 1 .. lk : p[k - 1] + j \in 1 .. Len(form)
        BY <1>1, <3>1, <3>2, <3>3 DEF lk
      <3>5. q[k] = q[k - 1] + lk /\ q[k] <= Len(more)
        BY <1>1, <1>2, <3>1, <3>2 DEF lk
      <3>6. \A j \in 1 .. lk : more[q[k - 1] + j] = Encoded(text[k])[j]
        BY <1>2, <3>1, <3>2, <3>4 DEF lk
      <3> QED
        BY <3>5, <3>6 DEF lk
    <2>2. CASE k = n + 1
      <3>1. k - 1 \in 0 .. n /\ q[k - 1] = p[n] /\ p[n] = Len(form) /\ q[k] = Len(more)
        BY <1>3, <2>2 DEF LaidOut
      <3>2. Encoded(text[k]) = e
        BY <2>2 DEF e
      <3> QED
        BY <1>1, <1>2, <3>1, <3>2
    <2> QED
      BY <2>1, <2>2
  <1>5. q[0] = 0
    BY <1>3 DEF LaidOut
  <1>6. LaidOut(more, q, text, n + 1)
    BY <1>2, <1>3, <1>4, <1>5 DEF LaidOut
  <1> QED
    BY <1>6 DEF more, e

LEMMA FormLaidOut ==
    ASSUME NEW text \in Seq(Typed)
    PROVE  \E p : LaidOut(Form(text), p, text, Len(text))
  <1> DEFINE n == Len(text)
             seqs == [i \in 1 .. n |-> Encoded(text[i])]
  <1>1. n \in Nat /\ \A i \in 1 .. n : text[i] \in Typed /\ seqs[i] = Encoded(text[i])
    OBVIOUS
  <1>2. Len(seqs) = n
    OBVIOUS
  <1>3. LaidOut(<< >>, [k \in 0 .. 0 |-> 0], text, 0)
    BY DEF LaidOut
  <1>4. CASE n = 0
    <2>1. Form(text) = seqs /\ seqs = << >>
      BY <1>2, <1>4 DEF Form, FlattenSeq
    <2> QED
      BY <1>3, <1>4, <2>1
  <1>5. CASE n # 0
    <2> DEFINE f == CHOOSE f : Joined(f, seqs, n)
    <2>1. Joined(f, seqs, n)
      BY <1>1, JoinedExists
    <2>2. Form(text) = f[n]
      BY <1>2, <1>5 DEF Form, FlattenSeq, Joined
    <2> HIDE DEF f, seqs, n
    <2> DEFINE S == {i \in Nat : i + 1 <= n => \E p : LaidOut(f[i + 1], p, text, i + 1)}
    <2>3. 0 \in S
      <3>1. 1 \in 1 .. n
        BY <1>1, <1>5
      <3>2. f[1] = Encoded(text[1]) /\ text[1] \in Typed
        BY <1>1, <2>1, <3>1 DEF Joined
      <3> DEFINE e == Encoded(text[1])
      <3>3. << >> \o e = e
        <4>1. e \in Seq(Sent)
          BY <3>2, EncodedIs
        <4> HIDE DEF e
        <4> QED
          BY <4>1
      <3>4. \E q : LaidOut(<< >> \o Encoded(text[0 + 1]), q, text, 0 + 1)
        <4>1. text[0 + 1] \in Typed /\ 0 \in Nat
          BY <3>2
        <4> QED
          BY <1>3, <4>1, LayOut, Zenon
      <3> QED
        BY <3>2, <3>3, <3>4
    <2>4. ASSUME NEW i \in Nat, i \in S PROVE i + 1 \in S
      <3> SUFFICES ASSUME (i + 1) + 1 <= n
                   PROVE  \E p : LaidOut(f[(i + 1) + 1], p, text, (i + 1) + 1)
        OBVIOUS
      <3> DEFINE k == i + 1
      <3>1. k \in Nat /\ k + 1 \in 1 .. n /\ k + 1 # 1 /\ (k + 1) - 1 = k /\ k <= n
        BY <1>1
      <3>2. PICK p : LaidOut(f[k], p, text, k)
        BY <2>4, <3>1
      <3> HIDE DEF k, S
      <3>3. f[k + 1] = f[k] \o Encoded(text[k + 1]) /\ text[k + 1] \in Typed
        BY <1>1, <2>1, <3>1 DEF Joined
      <3>4. \E q : LaidOut(f[k] \o Encoded(text[k + 1]), q, text, k + 1)
        BY <3>1, <3>2, <3>3, LayOut
      <3> QED
        BY <3>3, <3>4 DEF k
    <2> HIDE DEF S
    <2>5. n - 1 \in Nat /\ n - 1 \in S /\ (n - 1) + 1 = n
      BY <1>1, <1>5, <2>3, <2>4, Climb
    <2>6. \E p : LaidOut(f[n], p, text, n)
      BY <2>5 DEF S
    <2> QED
      BY <2>2, <2>6 DEF n
  <1> QED
    BY <1>4, <1>5

\* What is decoded from the i-th character on, where f[j] is from the j-th on.
One(f, s, i) ==
    IF i > Len(s) THEN << >>
    ELSE IF s[i] = "+" THEN <<" ">> \o f[i + 1]
    ELSE IF s[i] = "%" /\ i + 2 <= Len(s) /\ <<s[i + 1], s[i + 2]>> = <<"2", "5">>
         THEN <<"%">> \o f[i + 3]
    ELSE <<s[i]>> \o f[i + 1]
Decodes(f, s, b) == f = [i \in b .. (Len(s) + 3) |-> One(f, s, i)]

LEMMA DecodesExists ==
    ASSUME NEW s, Len(s) \in Nat
    PROVE  \E f : Decodes(f, s, 1)
  <1> DEFINE n == Len(s)
             S == {m \in Nat : m <= n => \E f : Decodes(f, s, (n + 1) - m)}
  <1>1. 0 \in S
    <2> DEFINE f == [i \in n + 1 .. n + 3 |-> << >>]
    <2>1. \A i \in n + 1 .. n + 3 : One(f, s, i) = << >>
      BY DEF One
    <2>2. f = [i \in n + 1 .. n + 3 |-> f[i]] /\ \A i \in n + 1 .. n + 3 : f[i] = << >>
      OBVIOUS
    <2> HIDE DEF f
    <2>3. Decodes(f, s, n + 1)
      BY <2>1, <2>2 DEF Decodes
    <2> QED
      BY <2>3
  <1>2. ASSUME NEW m \in Nat, m \in S PROVE m + 1 \in S
    <2> SUFFICES ASSUME m + 1 <= n PROVE \E f : Decodes(f, s, (n + 1) - (m + 1))
      OBVIOUS
    <2> DEFINE b == (n + 1) - m
    <2>1. b \in 2 .. n + 1 /\ (n + 1) - (m + 1) = b - 1
      OBVIOUS
    <2>2. PICK f : Decodes(f, s, b)
      BY <1>2
    <2> DEFINE g == [i \in b - 1 .. n + 3 |-> IF i >= b THEN f[i] ELSE One(f, s, i)]
    <2>3. /\ g = [i \in b - 1 .. n + 3 |-> g[i]]
          /\ \A i \in b .. n + 3 : g[i] = f[i]
          /\ g[b - 1] = One(f, s, b - 1)
      BY <2>1
    <2> HIDE DEF g, S
    <2>4. ASSUME NEW i \in b - 1 .. n + 3 PROVE g[i] = One(g, s, i)
      <3>1. One(g, s, i) = One(f, s, i)
        <4>1. CASE i > n
          BY <4>1 DEF One
        <4>2. CASE i <= n
          <5>1. i + 1 \in b .. n + 3 /\ i + 3 \in b .. n + 3
            BY <2>1, <4>2
          <5>2. g[i + 1] = f[i + 1] /\ g[i + 3] = f[i + 3]
            BY <2>3, <5>1
          <5> QED
            BY <5>2 DEF One
        <4> QED
          BY <2>1, <4>1, <4>2
      <3>2. CASE i = b - 1
        BY <2>3, <3>1, <3>2
      <3>3. CASE i \in b .. n + 3
        <4>1. f[i] = One(f, s, i)
          BY <2>2, <3>3 DEF Decodes
        <4> QED
          BY <2>3, <3>1, <3>3, <4>1
      <3> QED
        BY <2>1, <3>2, <3>3
    <2>5. Decodes(g, s, b - 1)
      BY <2>3, <2>4 DEF Decodes
    <2> QED
      BY <2>1, <2>5
  <1> HIDE DEF S
  <1>3. n \in S
    BY <1>1, <1>2, Climb
  <1>4. n \in Nat /\ (n + 1) - n = 1
    OBVIOUS
  <1> QED
    BY <1>3, <1>4 DEF S

LEMMA DecodeIs ==
    ASSUME NEW s, Len(s) \in Nat
    PROVE  \E f : Decodes(f, s, 1) /\ url_decode(s) = f[1]
  <1> DEFINE f == CHOOSE f : Decodes(f, s, 1)
  <1>1. Decodes(f, s, 1)
    BY DecodesExists
  <1>2. url_decode(s) = f[1]
    BY DEF url_decode, Decodes, One
  <1> HIDE DEF f
  <1> QED
    BY <1>1, <1>2

\* A character, in front of those after it.
LEMMA Prepend ==
    ASSUME NEW T, NEW text \in Seq(T), NEW k \in 1 .. Len(text)
    PROVE  <<text[k]>> \o SubSeq(text, k + 1, Len(text)) = SubSeq(text, k, Len(text))
  OBVIOUS

\* What the browser sends of a text is decoded to that text, and is no shorter.
LEMMA DecodeForm ==
    ASSUME NEW text \in Seq(Typed)
    PROVE  /\ url_decode(Form(text)) = text
           /\ Form(text) \in Seq(Sent) /\ Len(text) <= Len(Form(text))
  <1> DEFINE n == Len(text)
             s == Form(text)
  <1>1. PICK p : LaidOut(s, p, text, n)
    BY FormLaidOut
  <1>2. s \in Seq(Sent) /\ Len(s) \in Nat
    BY <1>1 DEF LaidOut
  <1>3. PICK f : Decodes(f, s, 1) /\ url_decode(s) = f[1]
    BY <1>2, DecodeIs
  <1>4. n \in Nat /\ \A k \in 1 .. n : text[k] \in Typed
    OBVIOUS
  <1> HIDE DEF s, n
  <1>5. /\ p \in [0 .. n -> Nat] /\ p[0] = 0 /\ p[n] = Len(s)
        /\ \A k \in 1 .. n :
              /\ p[k] = p[k - 1] + Len(Encoded(text[k]))
              /\ p[k] <= Len(s)
              /\ \A j \in 1 .. Len(Encoded(text[k])) : s[p[k - 1] + j] = Encoded(text[k])[j]
    BY <1>1 DEF LaidOut
  <1>6. ASSUME NEW k \in 1 .. n PROVE f[p[k - 1] + 1] = <<text[k]>> \o f[p[k] + 1]
    <2> DEFINE c == text[k]
               i == p[k - 1] + 1
    <2>1. c \in Typed /\ p[k - 1] \in Nat /\ p[k] \in Nat /\ p[k] <= Len(s)
      BY <1>4, <1>5
    <2>2. i \in 1 .. Len(s) + 3 => f[i] = One(f, s, i)
      BY <1>3 DEF Decodes
    <2>3. /\ p[k] = p[k - 1] + Len(Encoded(c))
          /\ \A j \in 1 .. Len(Encoded(c)) : s[p[k - 1] + j] = Encoded(c)[j]
      BY <1>5
    <2> HIDE DEF c
    <2>4. CASE c \in {"x", "y"}
      <3>1. Encoded(c) = <<c>>
        BY <2>1, <2>4, EncodedIs
      <3>2. p[k] = i /\ s[i] = c
        BY <2>1, <2>3, <3>1
      <3>3. i <= Len(s) /\ i \in 1 .. Len(s) + 3
        BY <1>2, <2>1, <3>2
      <3>4. c # "+" /\ c # "%"
        BY <2>4
      <3>5. One(f, s, i) = <<c>> \o f[i + 1]
        BY <1>2, <2>1, <3>2, <3>3, <3>4 DEF One
      <3> QED
        BY <2>2, <3>2, <3>3, <3>5 DEF c
    <2>5. CASE c = " "
      <3>1. Encoded(c) = <<"+">>
        BY <2>1, <2>5, EncodedIs
      <3>2. p[k] = i /\ s[i] = "+"
        BY <2>1, <2>3, <3>1
      <3>3. i <= Len(s) /\ i \in 1 .. Len(s) + 3
        BY <1>2, <2>1, <3>2
      <3>4. ~(i > Len(s))
        BY <1>2, <2>1, <3>3
      <3> HIDE DEF i
      <3>5. One(f, s, i) = <<" ">> \o f[i + 1]
        BY <3>2, <3>4, Zenon DEF One
      <3>6. f[i] = One(f, s, i)
        BY <2>2, <3>3
      <3> QED
        BY <2>5, <3>2, <3>5, <3>6 DEF c, i
    <2>6. CASE c = "%"
      <3>1. Encoded(c) = <<"%", "2", "5">>
        BY <2>1, <2>6, EncodedIs
      <3>2. p[k] = i + 2 /\ s[i] = "%" /\ s[i + 1] = "2" /\ s[i + 2] = "5"
        <4>1. Len(Encoded(c)) = 3 /\ 1 \in 1 .. 3 /\ 2 \in 1 .. 3 /\ 3 \in 1 .. 3
          BY <3>1
        <4>2. s[p[k - 1] + 1] = "%" /\ s[p[k - 1] + 2] = "2" /\ s[p[k - 1] + 3] = "5"
          BY <2>3, <3>1, <4>1
        <4>3. p[k - 1] + 2 = i + 1 /\ p[k - 1] + 3 = i + 2
          BY <2>1
        <4> QED
          BY <2>1, <2>3, <4>1, <4>2, <4>3
      <3>3. i + 2 <= Len(s) /\ i <= Len(s) /\ i \in 1 .. Len(s) + 3
        BY <1>2, <2>1, <3>2
      <3>4. i + 3 = p[k] + 1 /\ ~(i > Len(s))
        BY <1>2, <2>1, <3>2, <3>3
      <3>5. f[i] = One(f, s, i)
        BY <2>2, <3>3
      <3> HIDE DEF i
      <3>6. <<s[i + 1], s[i + 2]>> = <<"2", "5">>
        BY <3>2
      <3>7. "%" # "+"
        OBVIOUS
      <3>8. One(f, s, i) = <<"%">> \o f[i + 3]
        BY <3>2, <3>3, <3>4, <3>6, <3>7, Zenon DEF One
      <3> QED
        BY <2>6, <3>4, <3>5, <3>8 DEF c, i
    <2> QED
      BY <2>1, <2>4, <2>5, <2>6 DEF Typed, Letters
  <1> DEFINE S == {m \in Nat : m <= n => f[p[n - m] + 1] = SubSeq(text, (n - m) + 1, n)}
  <1>7. 0 \in S
    <2>1. f[Len(s) + 1] = << >>
      <3>1. Len(s) + 1 \in 1 .. Len(s) + 3 /\ Len(s) + 1 > Len(s)
        BY <1>2
      <3>2. f[Len(s) + 1] = One(f, s, Len(s) + 1)
        BY <1>3, <3>1 DEF Decodes
      <3> QED
        BY <3>1, <3>2, Zenon DEF One
    <2>2. SubSeq(text, n + 1, n) = << >>
      BY <1>4
    <2>3. n - 0 = n
      BY <1>4
    <2> QED
      BY <1>5, <2>1, <2>2, <2>3
  <1>8. ASSUME NEW m \in Nat, m \in S PROVE m + 1 \in S
    <2> SUFFICES ASSUME m + 1 <= n
                 PROVE  f[p[n - (m + 1)] + 1] = SubSeq(text, (n - (m + 1)) + 1, n)
      OBVIOUS
    <2> DEFINE k == n - m
    <2>1. k \in 1 .. n /\ n - (m + 1) = k - 1 /\ (k - 1) + 1 = k
      BY <1>4
    <2>2. f[p[k] + 1] = SubSeq(text, k + 1, n)
      BY <1>8, <1>4
    <2> HIDE DEF k, S
    <2>3. f[p[k - 1] + 1] = <<text[k]>> \o SubSeq(text, k + 1, n)
      BY <1>6, <2>1, <2>2
    <2>4. f[p[k - 1] + 1] = SubSeq(text, k, n)
      BY <2>1, <2>3, Prepend DEF n
    <2> QED
      BY <2>1, <2>4
  <1> HIDE DEF S
  <1>9. url_decode(s) = text
    <2>1. n \in S /\ n - n = 0 /\ 0 + 1 = 1
      BY <1>4, <1>7, <1>8, Climb
    <2>2. f[1] = SubSeq(text, 1, n)
      BY <1>4, <1>5, <2>1 DEF S
    <2>3. SubSeq(text, 1, n) = text
      BY DEF n
    <2> QED
      BY <1>3, <2>2, <2>3
  <1> DEFINE R == {k \in Nat : k <= n => k <= p[k]}
  <1>10. n <= Len(s)
    <2>1. 0 \in R
      BY <1>5
    <2>2. ASSUME NEW k \in Nat, k \in R PROVE k + 1 \in R
      <3> SUFFICES ASSUME k + 1 <= n PROVE k + 1 <= p[k + 1]
        OBVIOUS
      <3>1. k + 1 \in 1 .. n /\ (k + 1) - 1 = k /\ k \in 0 .. n /\ k <= p[k]
        BY <1>4, <2>2
      <3>2. p[k + 1] = p[k] + Len(Encoded(text[k + 1])) /\ text[k + 1] \in Typed
        BY <1>4, <1>5, <3>1
      <3>3. Len(Encoded(text[k + 1])) \in {1, 3}
        BY <3>2, EncodedIs
      <3>4. p[k] \in Nat
        BY <1>5, <3>1
      <3> DEFINE l == Len(Encoded(text[k + 1]))
                 a == p[k]
                 b == p[k + 1]
      <3> HIDE DEF l, a, b
      <3>5. b = a + l /\ l \in {1, 3} /\ a \in Nat /\ k <= a
        BY <3>1, <3>2, <3>3, <3>4 DEF l, a, b
      <3>6. k + 1 <= b
        BY <3>5
      <3> QED
        BY <3>6 DEF b
    <2> HIDE DEF R
    <2>3. n \in R
      BY <1>4, <2>1, <2>2, Climb
    <2> QED
      BY <1>4, <1>5, <2>3 DEF R
  <1> QED
    BY <1>2, <1>9, <1>10 DEF s, n

\* A text that fits its field in escaped form and arrived whole is stored as it
\* was typed in, and is the driver's if it leaves the last byte of its field.
LEMMA FormAsMeant ==
    ASSUME NEW text \in Seq(Typed), Len(Form(text)) <= FieldMax, Len(text) < FieldMax
    PROVE  InDriver(Stored(Form(text))) = text
  <1>1. /\ url_decode(Form(text)) = text
        /\ Form(text) \in Seq(Sent) /\ Len(Form(text)) \in Nat /\ FieldMax \in Nat
    BY DecodeForm, ConversionAssumption DEF ConversionAssumption
  <1> DEFINE s == Form(text)
  <1>2. Field(s) = s
    <2>1. ~(Len(s) > FieldMax)
      BY <1>1
    <2>2. Field(s) = SubSeq(s, 1, Len(s))
      BY <2>1 DEF Field
    <2>3. s \in Seq(Sent)
      BY <1>1
    <2> HIDE DEF s
    <2>4. SubSeq(s, 1, Len(s)) = s
      BY <2>3
    <2> QED
      BY <2>2, <2>4
  <1>3. Stored(s) = text
    BY <1>1, <1>2 DEF Stored
  <1>4. InDriver(text) = text
    <2>1. ~(Len(text) > FieldMax - 1)
      BY <1>1
    <2> QED
      BY <2>1 DEF InDriver
  <1> QED
    BY <1>3, <1>4

\* Of a field of which nothing arrived nothing is used.
LEMMA NothingOfNothing == InDriver(Stored(<<>>)) = <<>>
  <1>1. Field(<<>>) = <<>> /\ FieldMax \in Nat \ {0}
    BY ConversionAssumption DEF Field, ConversionAssumption
  <1>2. url_decode(<<>>) = <<>>
    <2>1. PICK f : Decodes(f, <<>>, 1) /\ url_decode(<<>>) = f[1]
      BY DecodeIs
    <2>2. 1 \in 1 .. Len(<<>>) + 3 /\ 1 > Len(<<>>)
      OBVIOUS
    <2>3. f[1] = One(f, <<>>, 1)
      BY <2>1, <2>2 DEF Decodes
    <2> QED
      BY <2>1, <2>2, <2>3, Zenon DEF One
  <1>3. InDriver(<<>>) = <<>>
    BY <1>1 DEF InDriver
  <1> QED
    BY <1>1, <1>2, <1>3 DEF Stored

-----------------------------------------------------------------------------
(* The system with entries *)

LEMMA EntriesOnReadouts == EntriesSpec => Spec
  <1>1. EntriesInit => ReadoutsInit
    BY DEF EntriesInit
  <1>2. [EntriesNext]_<<vars, entry>> => [Next]_vars
    BY DEF EntriesNext, Enter, Leave
  <1> QED
    BY <1>1, <1>2, PTL DEF EntriesSpec, Spec

\* A date is used as the calendar has it, for every day that can be selected, and
\* a network as it was typed in if its body arrived whole, for every pair of
\* texts, every size of the fields and every place a body may be cut at; the
\* name also if any of the password arrived (days_from_civil, portal_save_handler,
\* url_decode and the code that copies around it).
THEOREM EntriesAsMeant == EntriesSpec => []UsedAsMeant
  <1>1. EntriesInit => UsedAsMeant
    BY DEF EntriesInit, NoEntry, UsedAsMeant
  <1>2. UsedAsMeant /\ [EntriesNext]_<<vars, entry>> => UsedAsMeant'
    <2> SUFFICES ASSUME UsedAsMeant, [EntriesNext]_<<vars, entry>> PROVE UsedAsMeant'
      OBVIOUS
    <2>1. ASSUME NEW given \in Picked, ApplyDate(given) PROVE UsedAsMeant'
      BY <2>1, DateAsMeant DEF ApplyDate, UsedAsMeant
    <2>2. ASSUME NEW name \in BoundedSeq(Typed, FormLen), NEW pass \in BoundedSeq(Typed, FormLen),
                 SaveForm(name, pass)
          PROVE  UsedAsMeant'
      <3>1. name \in Seq(Typed) /\ pass \in Seq(Typed)
        BY ConversionAssumption DEF ConversionAssumption, BoundedSeq, SeqOf
      <3>2. PICK got \in Arrivals(name, pass) :
              /\ SsidAccepted(got[1])
              /\ entry' = [kind |-> "form", given |-> <<name, pass>>,
                           used |-> <<InDriver(Stored(got[1])), InDriver(Stored(got[2]))>>,
                           whole |-> got = <<Form(name), Form(pass)>>]
        BY <2>2 DEF SaveForm
      <3> DEFINE joined == InDriver(Stored(got[1]))
                 opened == InDriver(Stored(got[2]))
      <3>3. /\ Len(Form(pass)) \in Nat /\ Len(pass) \in Nat /\ Len(pass) <= Len(Form(pass))
            /\ FieldMax \in Nat
        BY <3>1, DecodeForm, ConversionAssumption DEF ConversionAssumption
      <3>4. ASSUME Len(name) < FieldMax, got[1] = Form(name) PROVE joined = name
        BY <3>1, <3>2, <3>4, FormAsMeant DEF SsidAccepted
      <3>5. got[1] = Form(name) \/ got[2] = <<>>
        BY <3>2 DEF Arrivals
      <3>6. got[2] = <<>> => opened = <<>>
        BY NothingOfNothing
      <3>7. ASSUME Len(name) < FieldMax, got = <<Form(name), Form(pass)>> \/ opened # <<>>
            PROVE  joined = name
        <4>1. got[1] = Form(name)
          BY <3>5, <3>6, <3>7
        <4> QED
          BY <3>4, <3>7, <4>1
      <3>8. ASSUME Len(Form(pass)) < FieldMax, got = <<Form(name), Form(pass)>>
            PROVE  opened = pass
        <4>1. got[2] = Form(pass)
          BY <3>8
        <4>2. Len(Form(pass)) <= FieldMax /\ Len(pass) < FieldMax
          BY <3>3, <3>8
        <4>3. InDriver(Stored(Form(pass))) = pass
          BY <3>1, <4>2, FormAsMeant
        <4> QED
          BY <4>1, <4>3
      <3>9. /\ entry'.kind = "form"
            /\ entry'.given[1] = name /\ entry'.given[2] = pass
            /\ entry'.used[1] = joined /\ entry'.used[2] = opened
            /\ entry'.whole <=> got = <<Form(name), Form(pass)>>
        BY <3>2
      <3> HIDE DEF joined, opened
      <3> QED
        BY <3>7, <3>8, <3>9 DEF UsedAsMeant
    <2>3. CASE Leave
      BY <2>3 DEF Leave, NoEntry, UsedAsMeant
    <2>4. CASE UNCHANGED entry
      BY <2>4 DEF UsedAsMeant
    <2> QED
      BY <2>1, <2>2, <2>3, <2>4 DEF EntriesNext, Enter
  <1> QED
    BY <1>1, <1>2, PTL DEF EntriesSpec

=============================================================================
