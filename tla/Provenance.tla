------------------------------ MODULE Provenance ------------------------------
(***************************************************************************)
(* The journal of configuration epochs, sqlite_provenance.py: which        *)
(* corrections came into effect when.  The journal is the sequence of its  *)
(* rows in the order they were written; an epoch is the fingerprint of a   *)
(* configuration and the instant the recorder read from its clock.         *)
(***************************************************************************)
EXTENDS Ordering, Sequences

CONSTANTS
    Configs,     \* fingerprints of the configurations a residence may have
    NoEpoch      \* what at() returns before any epoch

Epoch == [config: Configs, at: Int]

\* Mutant: a row per session.
MovedAlways(epochs, config) == TRUE

\* record(): nothing is written while the fingerprint has not moved.
Moved(epochs, config) == \/ epochs = <<>>
                         \/ epochs[Len(epochs)].config # config

\* The epochs recorded at or before an instant, by their place in the journal.
Reached(epochs, t) == {i \in DOMAIN epochs : epochs[i].at <= t}

\* Mutant: the ORDER BY of at() without its DESC.
EpochAtFirst(epochs, t) ==
    IF Reached(epochs, t) = {}
    THEN NoEpoch
    ELSE epochs[CHOOSE i \in Reached(epochs, t) : \A j \in Reached(epochs, t) : i <= j]

\* at(): the last of them in the order of writing, not of time.
EpochAt(epochs, t) ==
    IF Reached(epochs, t) = {}
    THEN NoEpoch
    ELSE epochs[CHOOSE i \in Reached(epochs, t) : \A j \in Reached(epochs, t) : j <= i]

\* Whether a measurement was made under the configuration the journal names.
Names(epochs, t, config) ==
    /\ Reached(epochs, t) # {}
    /\ EpochAt(epochs, t).config = config

\* Mutant: a window starts with the first epoch recorded inside it.
SpanningInside(epochs, start, end) ==
    Chosen(epochs, {i \in DOMAIN epochs : start < epochs[i].at /\ epochs[i].at <= end})

\* spanning(): the epoch in effect when a window opened, and those recorded in it.
Spanning(epochs, start, end) ==
    (IF Reached(epochs, start) = {} THEN <<>> ELSE <<EpochAt(epochs, start)>>)
    \o Chosen(epochs, {i \in DOMAIN epochs : start < epochs[i].at /\ epochs[i].at <= end})

\* compare(), of configurations that are functions from sensors to corrections.
Compare(before, after) ==
    {s \in DOMAIN before \cup DOMAIN after :
        \/ s \notin DOMAIN before \cap DOMAIN after
        \/ before[s] # after[s]}

\* changes_between(): the sensors that moved with each epoch but the first.
ChangesBetween(epochs, start, end) ==
    LET touched == Spanning(epochs, start, end)
    IN [i \in 1..(Len(touched) - 1) |-> Compare(touched[i].config, touched[i + 1].config)]

===============================================================================
