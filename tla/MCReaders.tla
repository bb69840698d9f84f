------------------------------- MODULE MCReaders -------------------------------
(***************************************************************************)
(* Small instances of Readers for TLC: command lines of every report, the  *)
(* backup, the connection table, and two recorders with no reader at all.  *)
(***************************************************************************)
EXTENDS Readers

CONSTANTS water, room, pump, meter, one, two, degrees, watthours

MCUnitOf == (water :> degrees) @@ (room :> degrees) @@ (pump :> State) @@ (meter :> watthours)

\* The configuration before and after the correction of the water sensor is edited.
MCConfigs == {(water :> 0) @@ (room :> 0), (water :> 1) @@ (room :> 0)}

MCRate == [access |-> 4, firstPrice |-> 6, firstTier |-> 40, secondPrice |-> 10, effective |-> 303]

Bare == [tool |-> "report", sensor |-> None, minus |-> None, gate |-> {}, events |-> None,
         runs |-> FALSE, bucket |-> None, sense |-> None, provenance |-> FALSE,
         start |-> Open, end |-> Open, local |-> TRUE, tolerance |-> 1, maxGap |-> 1,
         before |-> 2, after |-> 0, edge |-> "start", cost |-> FALSE, days |-> 1, on |-> 303,
         journal |-> FALSE, present |-> {}, idle |-> 0]

Water == [Bare EXCEPT !.sensor = water]

\* Every combination of arguments, with nothing on record.
CommandLines ==
    {[Bare EXCEPT !.sensor = s, !.minus = m, !.gate = g, !.events = e, !.runs = r,
                  !.bucket = b, !.sense = v, !.provenance = p] :
        s \in {None, water}, m \in {None, room}, g \in SUBSET {"on", "off"},
        e \in {None, pump}, r \in BOOLEAN, b \in {None, 2}, v \in {None, "on", "off", "both"},
        p \in BOOLEAN}

RunsAsked == {[Bare EXCEPT !.sensor = pump, !.runs = TRUE, !.bucket = b,
                           !.sense = IF b = None THEN None ELSE "on"] : b \in {None, 2, 3}}

GateAsked == {[Water EXCEPT !.gate = {"off"}, !.start = 2]}

DeltaAsked == {[Water EXCEPT !.minus = room]}

GatedDelta == {[Water EXCEPT !.minus = room, !.gate = {"on"}]}

BucketsAsked == {[Water EXCEPT !.bucket = 2]}

\* Those of UTC, and those of a difference.
OtherBuckets == {[Water EXCEPT !.bucket = 2, !.local = FALSE],
                 [Water EXCEPT !.bucket = 2, !.minus = room]}

EventsAsked == {[Water EXCEPT !.events = pump, !.before = 1, !.after = 1, !.sense = v,
                              !.edge = IF v = "off" THEN "end" ELSE "start"] :
                   v \in {None, "off"}}

WarningAsked == {[Water EXCEPT !.journal = TRUE, !.start = a, !.end = b] :
                    a \in {Open, 2}, b \in {Open, 3}}
                \cup {[Bare EXCEPT !.journal = TRUE]}

CostAsked == {[Bare EXCEPT !.sensor = meter, !.cost = TRUE, !.days = d, !.on = m] :
                 d \in {1, 2}, m \in {303, 310, 314, 315}}

Connected == {[Bare EXCEPT !.tool = "connections", !.idle = i] : i \in {-3, 0, 3, 10}}

BackedUp == {[Bare EXCEPT !.tool = "backup", !.present = p, !.journal = "provenance" \in p] :
                p \in SUBSET {"database", "provenance"}}

Recording == {[Bare EXCEPT !.tool = "record"]}

MCAsks == CommandLines \cup RunsAsked \cup GateAsked \cup DeltaAsked \cup GatedDelta
          \cup BucketsAsked \cup OtherBuckets \cup EventsAsked \cup WarningAsked \cup CostAsked
          \cup Connected \cup BackedUp \cup Recording

Bound(n, late, steps, offsets, writers) ==
    [rows |-> n, late |-> late, steps |-> steps, offsets |-> offsets, writers |-> writers]

MCBounds ==
    [a \in MCAsks |->
        CASE a \in RunsAsked    -> Bound(4, 1, {1, 2}, {0}, {one})
          [] a \in EventsAsked  -> Bound(4, 1, {1}, {0}, {one})
          [] a \in GateAsked    -> Bound(4, 1, {1}, {0}, {one})
          [] a \in DeltaAsked   -> Bound(4, 1, {1, 2}, {0}, {one})
          [] a \in GatedDelta   -> Bound(3, 1, {1}, {0}, {one})
          [] a \in BucketsAsked -> Bound(3, 1, {1, 2}, {0, -1, -2, -3}, {one})
          [] a \in OtherBuckets -> Bound(3, 1, {1}, {0, -1}, {one})
          [] a \in WarningAsked -> Bound(3, 1, {1}, {0}, {one})
          [] a \in CostAsked    -> Bound(3, 1, {1}, {0}, {one})
          [] a \in Connected    -> Bound(5, 1, {1, 4}, {0}, {one})
          [] a \in BackedUp     -> Bound(2, 2, {1}, {0}, {one})
          [] a \in Recording    -> Bound(3, 1, {0, 1}, {0}, {one, two})
          [] OTHER              -> Bound(0, 0, {1}, {0}, {one})]
===============================================================================
