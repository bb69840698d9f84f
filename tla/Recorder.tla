------------------------------- MODULE Recorder -------------------------------
(***************************************************************************)
(* The recorder: geopilot_poll.py with the session, the loop and the cycle *)
(* of runtime.py and acquisition_runner.py.  A recorder is a process that  *)
(* the timer or a person starts, loads the configuration of the residence, *)
(* opens the database, the provenance journal and the transports, and      *)
(* reads every sensor of its plan once a cycle.  Several may run at once   *)
(* on the same files, be signalled, or end anywhere; the clock they share  *)
(* is the wall clock of the host, in microseconds.                         *)
(***************************************************************************)
EXTENDS Provenance

CONSTANTS
    Recorders,    \* processes that may record: the timer's, one run by hand
    Plan,         \* the sensors of one cycle, in the order they are read
    Cycles,       \* how many cycles each is to run: --cycles, 1 for --once
    Faults,       \* which of the faults below may happen
    MaxStrikes,   \* how many of them, and of signals, may in one history
    MaxStarts,    \* how many times a recorder is started
    MaxSetBacks,  \* how many times the clock is set back
    Steps,        \* and by how much
    Nothing       \* no reading, no configuration

(***************************************************************************)
(* "open"    the database, the journal or a transport cannot be opened     *)
(* "silent"  a sensor cannot be read, decoded or normalised                *)
(* "raise"   a read raises what no executor catches                        *)
(* "disk"    SQLite refuses an insert                                      *)
(* "crash"   the process is killed or the power fails                      *)
(* "signal"  SIGINT or SIGTERM                                             *)
(***************************************************************************)
AllFaults == {"open", "silent", "raise", "disk", "crash", "signal"}

ASSUME RecorderAssumption ==
    /\ Plan \in Seq(Int) /\ Plan # <<>>
    /\ Cycles \in [Recorders -> Nat \ {0}]
    /\ Faults \subseteq AllFaults
    /\ {MaxStrikes, MaxStarts, MaxSetBacks} \subseteq Nat
    /\ Steps \subseteq Nat
    /\ Nothing \notin Int \cup Configs

VARIABLES
    pc,            \* control point of each recorder
    config,        \* the configuration each has loaded
    started,       \* its clock at the start of the session, then of a cycle
    results,       \* what the current cycle has got so far
    outcomes,      \* the CycleOutcomes of the run
    interrupted,   \* the flag the signal handler sets
    exit,          \* how the last run ended
    clock,         \* the wall clock
    measurements,  \* the historian: the rows stored
    epochs,        \* the provenance journal
    strikes, starts,
    setBacks,      \* how many times the clock has been set back
    heard,         \* history: cycles a recorder had begun when it was signalled
    mixed,         \* history: recorders ran together on different configurations
    raced          \* history: recorders were opening an epoch together

run     == <<pc, config, started, results, outcomes, interrupted, exit>>
disk    == <<measurements, epochs>>
bounds  == <<strikes, starts, setBacks>>
history == <<heard, mixed, raced>>
vars    == <<run, clock, disk, bounds, history>>

Running  == {"reading", "opening", "inserting", "transports", "between", "sleeping"}
Controls == Running \cup {"off"}

Measurement == [sensor: Int, at: Int, config: Configs]
Result      == [sensor: Int, at: Int \cup {Nothing}]   \* Nothing: an AcquisitionFailure
Causes      == {"disk", "conflict", "other", "clock"}
Outcome     == [report: BOOLEAN, results: Seq(Result), cause: Causes \cup {"none"}]

Stored(sensor, t) == \E m \in measurements : m.sensor = sensor /\ m.at = t

\* The sensor whose turn it is.
Current(r) == Plan[Len(results[r]) + 1]

\* Mutant: a read that fails ends the cycle.
DoneEarly(r) == \/ Len(results[r]) = Len(Plan)
                \/ \E i \in DOMAIN results[r] : results[r][i].at = Nothing

\* Every sensor of the plan has its result.
Done(r) == Len(results[r]) = Len(Plan)

\* The cycles of the run that have begun.
Begun(r) == Len(outcomes[r]) + IF pc[r] = "reading" THEN 1 ELSE 0

Strike(fault) == /\ fault \in Faults
                 /\ strikes < MaxStrikes
                 /\ strikes' = strikes + 1

\* A reading of the clock that is stored; no later one has the same instant
\* unless the clock is set back.
ReadClock == clock' = clock + 1

Init ==
    /\ pc = [r \in Recorders |-> "off"]
    /\ config = [r \in Recorders |-> Nothing]
    /\ started = [r \in Recorders |-> Nothing]
    /\ results = [r \in Recorders |-> <<>>]
    /\ outcomes = [r \in Recorders |-> <<>>]
    /\ interrupted = [r \in Recorders |-> FALSE]
    /\ exit = [r \in Recorders |-> "none"]
    /\ clock = 0
    /\ measurements = {}
    /\ epochs = <<>>
    /\ strikes = 0 /\ starts = 0 /\ setBacks = 0
    /\ heard = [r \in Recorders |-> 0]
    /\ mixed = FALSE
    /\ raced = FALSE

-------------------------------------------------------------------------------
(***************************************************************************)
(* Opening a session.                                                      *)
(***************************************************************************)

\* Ways out of a run; what was only in memory is gone.
Leave(r, how) ==
    /\ pc' = [pc EXCEPT ![r] = "off"]
    /\ exit' = [exit EXCEPT ![r] = how]
    /\ config' = [config EXCEPT ![r] = Nothing]
    /\ started' = [started EXCEPT ![r] = Nothing]
    /\ results' = [results EXCEPT ![r] = <<>>]

\* main(): the configuration is loaded once, before anything is opened; the file
\* may have been edited since another run loaded it.
Start(r, c) ==
    /\ pc[r] = "off"
    /\ starts < MaxStarts
    /\ starts' = starts + 1
    /\ pc' = [pc EXCEPT ![r] = "opening"]
    /\ config' = [config EXCEPT ![r] = c]
    /\ outcomes' = [outcomes EXCEPT ![r] = <<>>]
    /\ interrupted' = [interrupted EXCEPT ![r] = FALSE]
    /\ exit' = [exit EXCEPT ![r] = "none"]
    /\ heard' = [heard EXCEPT ![r] = 0]
    /\ mixed' = (mixed \/ \E q \in Recorders \ {r} : pc[q] \in Running /\ config[q] # c)
    /\ UNCHANGED <<started, results, clock, disk, strikes, setBacks, raced>>

\* AcquisitionSession.__init__ as far as record() has looked at the latest epoch.
OpenJournal(r) ==
    /\ pc[r] = "opening"
    /\ started' = [started EXCEPT ![r] = clock]
    /\ ReadClock
    /\ pc' = [pc EXCEPT ![r] = IF Moved(epochs, config[r]) THEN "inserting" ELSE "transports"]
    /\ raced' = (raced \/ \E q \in Recorders \ {r} : pc[q] = "inserting")
    /\ UNCHANGED <<config, results, outcomes, interrupted, exit, disk, bounds, heard, mixed>>

InsertEpoch(r) ==
    /\ pc[r] = "inserting"
    /\ epochs' = Append(epochs, [config |-> config[r], at |-> started[r]])
    /\ pc' = [pc EXCEPT ![r] = "transports"]
    /\ UNCHANGED <<config, started, results, outcomes, interrupted, exit,
                   clock, measurements, bounds, history>>

\* Nothing of this is inside a cycle, so it ends the run; an epoch stays.
CannotOpen(r) ==
    /\ \/ pc[r] \in {"opening", "transports"} /\ Strike("open")
       \/ pc[r] = "inserting" /\ Strike("disk")
    /\ Leave(r, "failed")
    /\ UNCHANGED <<outcomes, interrupted, clock, disk, starts, setBacks, history>>

-------------------------------------------------------------------------------
(***************************************************************************)
(* One cycle: AcquisitionRunner.run under run_cycle's handler.             *)
(***************************************************************************)

\* The first follows the opening of the transports, the others the sleep, which
\* a signal does not cut short: time.sleep goes on after the handler.
BeginCycle(r) ==
    /\ pc[r] \in {"transports", "sleeping"}
    /\ started' = [started EXCEPT ![r] = clock]
    /\ pc' = [pc EXCEPT ![r] = "reading"]
    /\ UNCHANGED <<config, results, outcomes, interrupted, exit,
                   clock, disk, bounds, history>>

Turn(r) == pc[r] = "reading" /\ ~Done(r)

\* The result of one sensor, and on to the next one.
Conclude(r, t) ==
    /\ results' = [results EXCEPT ![r] = Append(@, [sensor |-> Current(r), at |-> t])]
    /\ UNCHANGED <<pc, outcomes, exit>>

\* A transport, bus, decoder or normaliser error becomes an AcquisitionFailure.
ReadFails(r) ==
    /\ Turn(r)
    /\ Strike("silent")
    /\ Conclude(r, Nothing)
    /\ UNCHANGED <<config, started, interrupted, clock, disk, starts, setBacks, history>>

\* Mutant: the answer is not stamped.
StoreUnstamped(r) ==
    /\ Turn(r)
    /\ measurements' = measurements \cup
           {[sensor |-> Current(r), at |-> Nothing, config |-> config[r]]}
    /\ Conclude(r, clock)
    /\ ReadClock
    /\ UNCHANGED <<config, started, interrupted, epochs, bounds, history>>

\* A sensor answers at the instant the clock shows; append() looks for the id
\* that makes with the sensor, and commits a new row at once ...
Store(r) ==
    /\ Turn(r)
    /\ ~Stored(Current(r), clock)
    /\ measurements' = measurements \cup
           {[sensor |-> Current(r), at |-> clock, config |-> config[r]]}
    /\ Conclude(r, clock)
    /\ ReadClock
    /\ UNCHANGED <<config, started, interrupted, epochs, bounds, history>>

\* ... or finds the same observation, which changes nothing.
StoreAgain(r) ==
    /\ Turn(r)
    /\ Stored(Current(r), clock)
    /\ Conclude(r, clock)
    /\ ReadClock
    /\ UNCHANGED <<config, started, interrupted, disk, bounds, history>>

\* run_cycle: the report, or the exception that ended the cycle.
EndCycle(r, outcome) ==
    /\ outcomes' = [outcomes EXCEPT ![r] = Append(@, outcome)]
    /\ results' = [results EXCEPT ![r] = <<>>]
    /\ pc' = [pc EXCEPT ![r] = "between"]
    /\ exit' = exit

FailCycle(r, cause) ==
    EndCycle(r, [report |-> FALSE, results |-> <<>>, cause |-> cause])

\* Another content is stored under that id.
StoreConflicts(r) ==
    /\ Turn(r)
    /\ Stored(Current(r), clock)
    /\ FailCycle(r, "conflict")
    /\ ReadClock
    /\ UNCHANGED <<config, started, interrupted, disk, bounds, history>>

\* Mutant: a storage error is logged and the measurement counted.
StoreLost(r) ==
    /\ Turn(r)
    /\ Strike("disk")
    /\ Conclude(r, clock)
    /\ ReadClock
    /\ UNCHANGED <<config, started, interrupted, disk, starts, setBacks, history>>

\* Mutant: what the docstring of run_cycle says of storage errors.
StoreFailsForGood(r) ==
    /\ Turn(r)
    /\ Strike("disk")
    /\ outcomes' = [outcomes EXCEPT ![r] =
           Append(@, [report |-> FALSE, results |-> <<>>, cause |-> "disk"])]
    /\ Leave(r, "failed")
    /\ ReadClock
    /\ UNCHANGED <<interrupted, disk, starts, setBacks, history>>

\* SQLite refuses the insert.
StoreFails(r) ==
    /\ Turn(r)
    /\ Strike("disk")
    /\ FailCycle(r, "disk")
    /\ ReadClock
    /\ UNCHANGED <<config, started, interrupted, disk, starts, setBacks, history>>

\* A read raises what no executor expects.
ReadRaises(r) ==
    /\ Turn(r)
    /\ Strike("raise")
    /\ FailCycle(r, "other")
    /\ UNCHANGED <<config, started, interrupted, clock, disk, starts, setBacks, history>>

\* AcquisitionRunReport rejects a cycle that ends before it started.
Report(r) ==
    /\ pc[r] = "reading"
    /\ Done(r)
    /\ IF clock < started[r]
       THEN FailCycle(r, "clock")
       ELSE EndCycle(r, [report |-> TRUE, results |-> results[r], cause |-> "none"])
    /\ UNCHANGED <<config, started, interrupted, clock, disk, bounds, history>>

-------------------------------------------------------------------------------
(***************************************************************************)
(* The loop of run_cycles and the exit code of main.                       *)
(***************************************************************************)

Last(r) == Len(outcomes[r]) >= Cycles[r]

\* Mutant: the flag is forgotten in the loop.
ContinueRegardless(r) ==
    /\ pc[r] = "between"
    /\ ~Last(r)
    /\ pc' = [pc EXCEPT ![r] = "sleeping"]
    /\ UNCHANGED <<config, started, results, outcomes, interrupted, exit,
                   clock, disk, bounds, history>>

\* The flag is consulted here and nowhere else; then the loop sleeps.
Continue(r) ==
    /\ pc[r] = "between"
    /\ ~Last(r)
    /\ ~interrupted[r]
    /\ pc' = [pc EXCEPT ![r] = "sleeping"]
    /\ UNCHANGED <<config, started, results, outcomes, interrupted, exit,
                   clock, disk, bounds, history>>

Finish(r) ==
    /\ pc[r] = "between"
    /\ Last(r) \/ interrupted[r]
    /\ Leave(r, IF \E i \in DOMAIN outcomes[r] : ~outcomes[r][i].report
                THEN "failed" ELSE "ok")
    /\ UNCHANGED <<outcomes, interrupted, clock, disk, bounds, history>>

-------------------------------------------------------------------------------
(***************************************************************************)
(* What happens to a recorder: a signal, the end of its process, a clock   *)
(* that is set back.                                                       *)
(***************************************************************************)

Signal(r) ==
    /\ pc[r] \in Running
    /\ ~interrupted[r]
    /\ Strike("signal")
    /\ interrupted' = [interrupted EXCEPT ![r] = TRUE]
    /\ heard' = [heard EXCEPT ![r] = Begun(r)]
    /\ UNCHANGED <<pc, config, started, results, outcomes, exit,
                   clock, disk, starts, setBacks, mixed, raced>>

Crash(r) ==
    /\ pc[r] \in Running
    /\ Strike("crash")
    /\ Leave(r, "killed")
    /\ UNCHANGED <<outcomes, interrupted, clock, disk, starts, setBacks, history>>

SetBack ==
    /\ setBacks < MaxSetBacks
    /\ setBacks' = setBacks + 1
    /\ \E d \in Steps : clock' = clock - d
    /\ UNCHANGED <<run, disk, strikes, starts, history>>

Next ==
    \/ \E r \in Recorders :
          \/ \E c \in Configs : Start(r, c)
          \/ OpenJournal(r) \/ InsertEpoch(r) \/ CannotOpen(r)
          \/ BeginCycle(r) \/ ReadFails(r) \/ ReadRaises(r)
          \/ Store(r) \/ StoreAgain(r) \/ StoreConflicts(r) \/ StoreFails(r)
          \/ Report(r) \/ Continue(r) \/ Finish(r)
          \/ Signal(r) \/ Crash(r)
    \/ SetBack

Spec == Init /\ [][Next]_vars

-------------------------------------------------------------------------------
(***************************************************************************)
(* Properties.                                                             *)
(***************************************************************************)

\* Every variable has its type.
TypeOK ==
    /\ pc \in [Recorders -> Controls]
    /\ config \in [Recorders -> Configs \cup {Nothing}]
    /\ started \in [Recorders -> Int \cup {Nothing}]
    /\ results \in [Recorders -> Seq(Result)]
    /\ outcomes \in [Recorders -> Seq(Outcome)]
    /\ interrupted \in [Recorders -> BOOLEAN]
    /\ exit \in [Recorders -> {"none", "ok", "failed", "killed"}]
    /\ clock \in Int
    /\ \A m \in measurements : m \in Measurement
    /\ epochs \in Seq(Epoch)
    /\ {strikes, starts, setBacks} \subseteq Nat
    /\ heard \in [Recorders -> Nat]
    /\ mixed \in BOOLEAN
    /\ raced \in BOOLEAN

\* What at() answers about a measurement is the configuration it was made
\* under, across restarts, sessions that open an epoch and record
\* nothing, and recorders that run together: unless the clock was set back, or
\* recorders with different configurations ran together.
AttributedRightly ==
    setBacks = 0 /\ ~mixed => \A m \in measurements : Names(epochs, m.at, m.config)

\* The journal gets a row when the fingerprint moved and never otherwise, unless
\* two recorders open at once and both look before either writes.
EpochsMark ==
    ~raced => \A i \in 1 .. Len(epochs) - 1 : epochs[i].config # epochs[i + 1].config

\* A success, in a report or in the cycle that is running, is on disk.
ReportedIsStored ==
    \A r \in Recorders :
        LET Kept(found) == \A i \in DOMAIN found :
                              found[i].at # Nothing => Stored(found[i].sensor, found[i].at)
        IN  /\ Kept(results[r])
            /\ \A i \in DOMAIN outcomes[r] : Kept(outcomes[r][i].results)

\* Exit code 0 means that every cycle completed, and that each has an answer or
\* a failure for every sensor of the plan, in its order.
ZeroMeansComplete ==
    \A r \in Recorders : exit[r] = "ok" =>
        \A i \in DOMAIN outcomes[r] :
            /\ outcomes[r][i].report
            /\ [k \in DOMAIN outcomes[r][i].results |-> outcomes[r][i].results[k].sensor] = Plan

\* A run that opened ends after its last cycle or because it was asked to,
\* whatever its cycles met: one bad night does not end a year of recording.
EndsOnlyWhenAsked ==
    \A r \in Recorders : exit[r] \in {"ok", "failed"} /\ outcomes[r] # <<>> =>
        Last(r) \/ interrupted[r]

\* Once the signal has been handled, at most one more cycle begins: the one
\* that was due when it arrived in the sleep, or while the session opened.
StopsWithinOneCycle ==
    \A r \in Recorders : interrupted[r] => Begun(r) <= heard[r] + 1

\* As runtime.py:274 and docs/ACQUISITION_RUNTIME.md:87 have it: a database that
\* cannot be written ends the recording.
StorageErrorIsFatal ==
    \A r \in Recorders : \A i \in DOMAIN outcomes[r] :
        outcomes[r][i].cause = "disk" => Begun(r) = i

===============================================================================
