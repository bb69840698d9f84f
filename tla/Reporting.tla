------------------------------ MODULE Reporting ------------------------------
(***************************************************************************)
(* The arithmetic of reports, reporting.py: streams of observations of one *)
(* sensor, walked forward once.  A mean is kept as a sum beside a count.   *)
(***************************************************************************)
EXTENDS Historian

CONSTANTS
    Day,     \* the length of a day
    State    \* the unit of a sensor that is on or off

Observations(rows, sensor, start, end) ==
    LET found == Query(rows, sensor, start, end)
    IN [i \in DOMAIN found |->
           [at |-> found[i].at, offset |-> found[i].offset, value |-> found[i].value]]

SampleCount(rows, sensor, start, end) ==
    Cardinality(Matching(rows, sensor, start, end))

UnitsOf(rows, sensors, start, end) ==
    {r.unit : r \in {q \in ToSet(rows) : q.sensor \in sensors /\ InWindow(q.at, start, end)}}

\* What _require_state_sensor lets through.
IsStateSensor(rows, sensor, start, end) ==
    /\ UnitsOf(rows, {sensor}, Open, Open) = {State}
    /\ SampleCount(rows, sensor, start, end) > 0

\* min(), max(), sum() and len() of the values that were selected.
Statistics(values) ==
    [count |-> Len(values), minimum |-> Min(ToSet(values)), maximum |-> Max(ToSet(values)),
     sum |-> FoldLeft(LAMBDA a, b : a + b, 0, values)]

Values(observations) == [i \in DOMAIN observations |-> observations[i].value]

Dist(s, t) == IF s < t THEN t - s ELSE s - t

-------------------------------------------------------------------------------
(***************************************************************************)
(* Runs of a state sensor: _detect_runs and _BuildingRun.                  *)
(***************************************************************************)

Build(o, openStart) == [first |-> o, last |-> o, samples |-> 1, openStart |-> openStart]

Extend(b, o) == [b EXCEPT !.last = o, !.samples = @ + 1]

Close(b, openEnd) ==
    [startsAt |-> b.first.at, endsAt |-> b.last.at, offset |-> b.first.offset,
     samples |-> b.samples, asserted |-> b.first.value = 1,
     truncated |-> b.openStart \/ openEnd]

\* Mutant: only a change of value ends a run.
BreakByValue(walk, o, gap) ==
    LET b == walk.building[1] IN
    IF o.value # b.first.value
    THEN [runs |-> Append(walk.runs, Close(b, FALSE)), building |-> <<Build(o, FALSE)>>]
    ELSE [walk EXCEPT !.building = <<Extend(b, o)>>]

\* A hole wider than the limit ends a run with neither edge seen; a change of
\* value is an edge of both.
Break(walk, o, gap) ==
    LET b == walk.building[1] IN
    CASE o.at - b.last.at > gap ->
            [runs |-> Append(walk.runs, Close(b, TRUE)), building |-> <<Build(o, TRUE)>>]
      [] o.at - b.last.at <= gap /\ o.value # b.first.value ->
            [runs |-> Append(walk.runs, Close(b, FALSE)), building |-> <<Build(o, FALSE)>>]
      [] OTHER -> [walk EXCEPT !.building = <<Extend(b, o)>>]

Unbroken == [runs |-> <<>>, building |-> <<>>]

RunStep(walk, o, gap) ==
    IF walk.building = <<>>
    THEN [walk EXCEPT !.building = <<Build(o, TRUE)>>]
    ELSE Break(walk, o, gap)

\* The walk, after each of the observations.
Walk(observations, gap) ==
    LET walked[n \in 0..Len(observations)] ==
            IF n = 0 THEN Unbroken ELSE RunStep(walked[n - 1], observations[n], gap)
    IN walked

DetectRuns(observations, gap) ==
    LET walked == Walk(observations, gap)[Len(observations)]
    IN IF walked.building = <<>>
       THEN <<>>
       ELSE Append(walked.runs, Close(walked.building[1], TRUE))

\* runs(): one sense of them.
Runs(observations, asserted, gap) ==
    LET runs == DetectRuns(observations, gap)
    IN Chosen(runs, {k \in DOMAIN runs : runs[k].asserted = asserted})

Duration(run) == run.endsAt - run.startsAt

\* bucketed_runs: a run counts where it started.
RunsAsObservations(runs) ==
    [i \in DOMAIN runs |->
        [at |-> runs[i].startsAt, offset |-> runs[i].offset, value |-> Duration(runs[i])]]

-------------------------------------------------------------------------------
(***************************************************************************)
(* Walking two streams together: state gates and pairs.                    *)
(***************************************************************************)

\* From place i on, up to the first place that is no farther than the next.
Advance(stream, i, t) ==
    Min({j \in i..Len(stream) :
            j < Len(stream) => Dist(stream[j + 1].at, t) >= Dist(stream[j].at, t)})

\* Mutant: an unobserved moment counts as off.
AdmitsGuessing(states, i, t, tolerance, expected) ==
    IF Dist(states[i].at, t) > tolerance THEN expected = 0 ELSE states[i].value = expected

\* _StateGate.admits, once it stands at place i.
Admits(states, i, t, tolerance, expected) ==
    /\ Dist(states[i].at, t) <= tolerance
    /\ states[i].value = expected

GateStep(walk, o, states, tolerance, expected) ==
    LET i == Advance(states, walk.place, o.at) IN
    [place |-> i,
     kept |-> IF Admits(states, i, o.at, tolerance, expected)
              THEN Append(walk.kept, o) ELSE walk.kept]

GateWalk(observations, states, tolerance, expected) ==
    LET walked[n \in 0..Len(observations)] ==
            IF n = 0 THEN [place |-> 1, kept |-> <<>>]
            ELSE GateStep(walked[n - 1], observations[n], states, tolerance, expected)
    IN walked

\* The observations a gate lets through.
Gated(observations, states, tolerance, expected) ==
    GateWalk(observations, states, tolerance, expected)[Len(observations)].kept

\* Mutant: a partner is not consumed.
TakeAgain(walk, o, right, i) ==
    [place |-> i, pairs |-> Append(walk.pairs, [left |-> o, right |-> right[i]])]

Take(walk, o, right, i) ==
    [place |-> i + 1, pairs |-> Append(walk.pairs, [left |-> o, right |-> right[i]])]

PairStep(walk, o, right, tolerance) ==
    IF walk.place > Len(right)
    THEN walk
    ELSE LET i == Advance(right, walk.place, o.at) IN
         IF Dist(right[i].at, o.at) <= tolerance
         THEN Take(walk, o, right, i)
         ELSE [walk EXCEPT !.place = i]

PairWalk(left, right, tolerance) ==
    LET walked[n \in 0..Len(left)] ==
            IF n = 0 THEN [place |-> 1, pairs |-> <<>>]
            ELSE PairStep(walked[n - 1], left[n], right, tolerance)
    IN walked

\* _pairs: each observation with the nearest of the other sensor, which is used up.
Pairs(left, right, tolerance) == PairWalk(left, right, tolerance)[Len(left)].pairs

\* What a pair stands for in a delta, at the moment of its left side.
Difference(pair) == [pair.left EXCEPT !.value = pair.left.value - pair.right.value]

Differences(pairs) == [i \in DOMAIN pairs |-> Difference(pairs[i])]

-------------------------------------------------------------------------------
(***************************************************************************)
(* Buckets.                                                                *)
(***************************************************************************)

\* _bucket_microseconds: boundaries that do not drift away from midnight.
IntervalAccepted(interval) ==
    /\ interval > 0
    /\ Day % interval = 0 \/ interval % Day = 0

Instant(o, local) == IF local THEN o.at + o.offset ELSE o.at

\* Mutant: the instant is tested before it is aligned to local time.
PreEpochUtc(observations, local) ==
    \E i \in DOMAIN observations : observations[i].at < 0

\* Nothing before 1970 is put into buckets.
PreEpoch(observations, local) ==
    \E i \in DOMAIN observations : Instant(observations[i], local) < 0

\* // of Python rounds down, / of SQLite towards zero.
Floor(t, interval) == t \div interval

Truncated(t, interval) == IF t < 0 THEN -((-t) \div interval) ELSE t \div interval

InBucket(observations, index, interval, local, Divide(_, _)) ==
    Chosen(observations,
           {i \in DOMAIN observations : Divide(Instant(observations[i], local), interval) = index})

Indices(observations, interval, local, Divide(_, _)) ==
    {Divide(Instant(observations[i], local), interval) : i \in DOMAIN observations}

Bucket(index, interval, offset, members) ==
    [startsAt |-> index * interval - offset, stats |-> Statistics(Values(members))]

\* bucketed() without a gate: aggregated by SQL, labelled with the least offset.
SqlBuckets(observations, interval, local) ==
    [index \in Indices(observations, interval, local, Truncated) |->
        LET members == InBucket(observations, index, interval, local, Truncated)
        IN Bucket(index, interval,
                  IF local THEN Min({members[i].offset : i \in DOMAIN members}) ELSE 0,
                  members)]

\* _aggregate_buckets: the same in Python, labelled with the first offset.
AggregateBuckets(observations, interval, local) ==
    [index \in Indices(observations, interval, local, Floor) |->
        LET members == InBucket(observations, index, interval, local, Floor)
        IN Bucket(index, interval, IF local THEN members[1].offset ELSE 0, members)]

\* The observations that are in buckets, together.
Together(buckets) ==
    MapThenSumSet(LAMBDA index : buckets[index].stats.count, DOMAIN buckets)

-------------------------------------------------------------------------------
(***************************************************************************)
(* Coverage.                                                               *)
(***************************************************************************)

Times(observations) == [i \in DOMAIN observations |-> observations[i].at]

\* _edges_and_gap, of the times of one sensor in order.
LargestGap(times) ==
    Max({0} \cup {times[i + 1] - times[i] : i \in 1..(Len(times) - 1)})

Coverage(rows, sensor) ==
    LET times == Times(Query(rows, sensor, Open, Open))
    IN [first |-> times[1], last |-> times[Len(times)], gap |-> LargestGap(times)]
===============================================================================
