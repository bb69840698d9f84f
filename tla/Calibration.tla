----------------------------- MODULE Calibration -----------------------------
(***************************************************************************)
(* Offsets from a bath, calibration.py and geopilot_calibrate.py.  A run   *)
(* is a function from the devices that answered at all to the sequences of *)
(* their readings, in a unit small enough for every mean to be whole.      *)
(***************************************************************************)
EXTENDS Integers, SequencesExt, FiniteSetsExt

CONSTANTS
    MinimumSamples,
    SettledSpread

\* A run takes samples, and a spread has a bound.
ASSUME CalibrationAssumption == MinimumSamples \in Nat \ {0} /\ SettledSpread \in Nat

\* sample: one round, of the devices that answered in it.
Sampled(run, round) ==
    [d \in DOMAIN run \cup DOMAIN round |->
        (IF d \in DOMAIN run THEN run[d] ELSE <<>>)
        \o (IF d \in DOMAIN round THEN <<round[d]>> ELSE <<>>)]

Sums(readings) ==
    LET sum[n \in 0..Len(readings)] == IF n = 0 THEN 0 ELSE sum[n - 1] + readings[n]
    IN sum

Total(readings) == Sums(readings)[Len(readings)]

Mean(readings) == Total(readings) \div Len(readings)

\* ProbeSamples.spread
Spread(readings) == Max(ToSet(readings)) - Min(ToSet(readings))

Settled(readings) == Len(readings) >= MinimumSamples /\ Spread(readings) <= SettledSpread

\* calibrate: what it refuses; a reference is the group, a device or a temperature.
Calibrates(run, reference) ==
    /\ DOMAIN run # {}
    /\ \A device \in DOMAIN run : Len(run[device]) >= MinimumSamples
    /\ reference.kind = "device" => reference.device \in DOMAIN run

\* The temperature a run is brought to.
Target(run, reference) ==
    CASE reference.kind = "group" ->
            MapThenSumSet(LAMBDA d : Mean(run[d]), DOMAIN run) \div Cardinality(DOMAIN run)
      [] reference.kind = "known"  -> reference.celsius
      [] reference.kind = "device" -> Mean(run[reference.device])

Offsets(run, reference) == [d \in DOMAIN run |-> Target(run, reference) - Mean(run[d])]

\* CalibrationRun.usable
Usable(run) == DOMAIN run # {} /\ \A d \in DOMAIN run : Settled(run[d])

\* main(): the exit code, and whether offsets are printed.
CalibrateExit(run, reference) ==
    IF ~Calibrates(run, reference) THEN "usage"
    ELSE IF Usable(run) THEN "ok" ELSE "unsettled"
===============================================================================
