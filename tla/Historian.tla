------------------------------ MODULE Historian ------------------------------
(***************************************************************************)
(* The record of measurements, sqlite_historian.py with the contract of    *)
(* historian.py: the sequence of its rows in the order they were inserted. *)
(* A measurement id is made of the sensor and of the instant, so the two   *)
(* stand for it.  Instants and offsets from UTC share one small unit.      *)
(***************************************************************************)
EXTENDS Ordering, SequencesExt

CONSTANTS
    Sensors,   \* the names of sensors, a unit apart from each other only by name
    Units,     \* what they are recorded in
    Open       \* an end of a window that is not given

Row == [sensor: Sensors, at: Int, offset: Int, value: Int, unit: Units]

SameId(one, other) == one.sensor = other.sensor /\ one.at = other.at

\* _fetch_by_id: the rows under the id of a measurement, at most one.
Fetch(rows, m) == {i \in DOMAIN rows : SameId(rows[i], m)}

\* Mutant: the comparison leaves the value out as well.
ConflictsByUnit(existing, incoming) == existing.unit # incoming.unit

\* Aware datetimes are compared as instants, so the offset does not count.
ConflictsWith(existing, incoming) ==
    \/ existing.value # incoming.value
    \/ existing.unit # incoming.unit

\* The half-open windows of every query.
InWindow(t, start, end) ==
    /\ start = Open \/ start <= t
    /\ end = Open \/ t < end

Matching(rows, sensor, start, end) ==
    {i \in DOMAIN rows : rows[i].sensor = sensor /\ InWindow(rows[i].at, start, end)}

\* The rows of one sensor inside a window, in the order of time.
Query(rows, sensor, start, end) ==
    Arranged(rows, [i \in Matching(rows, sensor, start, end) |-> rows[i].at])
===============================================================================
