----------------------------- MODULE Connectivity -----------------------------
(***************************************************************************)
(* What is talking and what has gone quiet, connectivity.py: a verdict for *)
(* each sensor the configuration lists, from the record and the moment it  *)
(* is judged at, and one for each bus.                                     *)
(***************************************************************************)
EXTENDS Reporting

CONSTANTS
    CadenceSample,        \* the readings a cadence is taken from
    MinimumForCadence,    \* and how many it needs
    LateMultiple,
    SilentMultiple,
    FutureTolerance

ASSUME ConnectivityAssumption ==
    /\ CadenceSample \in Nat /\ CadenceSample >= 4
    /\ MinimumForCadence \in 2..4
    /\ LateMultiple \in Nat /\ SilentMultiple \in Nat /\ LateMultiple <= SilentMultiple
    /\ FutureTolerance \in Nat

Healthy == {"live", "new"}

\* The gaps between the latest readings of a sensor, in the order of length.
RecentGaps(rows, sensor) ==
    LET found == Query(rows, sensor, Open, Open)
        from == Max({1, Len(found) - CadenceSample + 1})
        times == Times(SubSeq(found, from, Len(found)))
        gaps == [i \in 1..(Len(times) - 1) |-> times[i + 1] - times[i]]
    IN Arranged(gaps, gaps)

\* Mutant: the mean, doubled like the median.
MeanOf(gaps) ==
    (2 * FoldLeft(LAMBDA a, b : a + b, 0, gaps)) \div Len(gaps)

\* Twice the median: the two in the middle, or the one there twice.
MedianOf(gaps) ==
    gaps[(Len(gaps) + 1) \div 2] + gaps[Len(gaps) \div 2 + 1]

\* _cadence, doubled; zero stands for none.
Cadence(rows, sensor) ==
    IF SampleCount(rows, sensor, Open, Open) < MinimumForCadence
    THEN 0
    ELSE MedianOf(RecentGaps(rows, sensor))

\* _recorded groups by unit as well: of a sensor in two units, one group stays.
LastSeen(rows, sensor) ==
    LET unit == CHOOSE u \in Units : u \in UnitsOf(rows, {sensor}, Open, Open)
    IN Max({r.at : r \in {q \in ToSet(rows) : q.sensor = sensor /\ q.unit = unit}})

\* _judge: the rows as the first statement found them, and as the cadence did.
Judge(rows, later, sensor, now) ==
    IF SampleCount(rows, sensor, Open, Open) = 0
    THEN "never"
    ELSE LET since == now - LastSeen(rows, sensor)
             cadence == Cadence(later, sensor)
         IN CASE since < -FutureTolerance -> "late"
              [] since >= -FutureTolerance /\ cadence = 0 -> "new"
              [] since >= -FutureTolerance /\ cadence > 0 ->
                    IF 2 * since >= cadence * SilentMultiple THEN "silent"
                    ELSE IF 2 * since >= cadence * LateMultiple THEN "late"
                    ELSE "live"

\* Mutant: one quiet sensor condemns the bus.
BusVerdictOfAny(verdicts) ==
    IF verdicts \subseteq Healthy THEN "live"
    ELSE IF verdicts = {"never"} THEN "never"
    ELSE "silent"

\* by_source, from the verdicts on the sensors of one bus.
BusVerdict(verdicts) ==
    IF verdicts \subseteq Healthy THEN "live"
    ELSE IF verdicts \cap Healthy # {} THEN "late"
    ELSE IF verdicts = {"never"} THEN "never"
    ELSE "silent"
===============================================================================
