------------------------------- MODULE Readers -------------------------------
(***************************************************************************)
(* The tools that read beside the recorder: geopilot_report.py,            *)
(* geopilot_backup.py and the connection table of the dashboard.  Each     *)
(* opens the databases read-only and asks its questions in several         *)
(* statements, while recorders go on inserting: a statement sees every row *)
(* committed before it, so the state of a tool is what each of its         *)
(* statements saw.  Its output is an operator on that.                     *)
(***************************************************************************)
EXTENDS Connectivity, Tariff, Provenance

CONSTANTS
    Writers,      \* the processes that record
    Subject, Other, Signal, Meter,   \* sensors: temperatures, a state, a counter
    UnitOf,       \* what each sensor is recorded in
    Asks,         \* the command lines that may be given
    Bounds,       \* for each of them: the rows recorded, how many of them once
                  \* the tool has begun, the steps of the clock between readings,
                  \* the offsets of the host from UTC, the recorders at work
    MaxEpochs,    \* configurations the recorder is started with
    None          \* an argument that is not given, a writer with nothing to store

(***************************************************************************)
(* tool "report": sensor, minus, gate (subset of on, off), events, runs,   *)
(* bucket (an interval), sense, provenance, start and end are the          *)
(* arguments; local, tolerance, maxGap, before, after, edge, cost and days *)
(* their companions; journal says whether a provenance journal is there.   *)
(* tool "backup": present is which files exist.  tool "connections" and    *)
(* tool "record" (no reader at all) take none.                             *)
(***************************************************************************)
VARIABLES
    rows,      \* the measurements, in the order of insertion
    made,      \* history: the configuration each was made under
    epochs,    \* the provenance journal
    clock,
    offset,    \* from UTC, of the host
    pending,   \* the measurement a writer has looked up and not found
    told,      \* how the last append of each writer ended, and of what
    ask,       \* the command line
    seen       \* the statements of the tool: how much each of them saw

record == <<rows, made, epochs, clock, offset, pending, told>>
vars   == <<record, ask, seen>>

CommandLine ==
    [tool: {"report", "backup", "connections", "record"},
     sensor: Sensors \cup {None}, minus: Sensors \cup {None}, gate: SUBSET {"on", "off"},
     events: Sensors \cup {None}, runs: BOOLEAN, bucket: Int \cup {None},
     sense: {None, "on", "off", "both"}, provenance: BOOLEAN,
     start: Int \cup {Open}, end: Int \cup {Open}, local: BOOLEAN, tolerance: Nat, maxGap: Nat,
     before: Nat, after: Nat, edge: {"start", "end"}, cost: BOOLEAN, days: Nat, on: Nat,
     journal: BOOLEAN, present: SUBSET {"database", "provenance"}, idle: Int]

ASSUME ReadersAssumption ==
    /\ {Subject, Other, Signal, Meter} \subseteq Sensors
    /\ UnitOf \in [Sensors -> Units] /\ UnitOf[Meter] # State
    /\ Asks \subseteq CommandLine /\ None \notin Sensors \cup Row /\ Open \notin Int
    /\ \A a \in Asks : /\ Bounds[a].steps \subseteq Nat /\ Bounds[a].offsets \subseteq Int
                       /\ Bounds[a].writers \subseteq Writers
                       /\ a.tool = "backup" => (a.journal <=> "provenance" \in a.present)
    /\ \A c \in Configs : DOMAIN c \subseteq Sensors
    /\ NoEpoch \notin Configs
    /\ Day \in Nat \ {0}

\* The sensors a command line names, and the record is about.
Named(a) == {s \in {a.sensor, a.minus, a.events} \cup (IF a.gate = {} THEN {} ELSE {Signal}) :
                s # None}

\* _sensors_in_play: no name means everything.
InPlay(a) == IF Named(a) = {} THEN Sensors ELSE Named(a)

\* What the small instances record: the sensors the tool may look at.
Recorded(a) == IF a.tool = "report" /\ Named(a) # {} THEN Named(a) ELSE {Subject, Other}

-------------------------------------------------------------------------------
Init ==
    /\ ask \in Asks
    /\ rows = <<>>
    /\ made = <<>>
    /\ IF ask.journal
       THEN \E c \in Configs : epochs = <<[config |-> c, at |-> 0]>>
       ELSE epochs = <<>>
    /\ clock = 0
    /\ offset \in Bounds[ask].offsets
    /\ pending = [w \in Writers |-> None]
    /\ told = [w \in Writers |-> None]
    /\ seen = <<>>

-------------------------------------------------------------------------------
(***************************************************************************)
(* geopilot_report.py, main(): what is refused before anything is opened,  *)
(* and which report the rest of the command line is.                       *)
(***************************************************************************)

UsageError(a) ==
    \/ a.runs /\ a.events # None
    \/ a.events # None /\ (a.sensor = None \/ a.gate # {} \/ a.bucket # None \/ a.sense = "both")
    \/ a.runs /\ (a.sensor = None \/ a.minus # None \/ a.gate # {})
    \/ a.runs /\ a.bucket # None /\ a.sense \in {None, "both"}
    \/ a.sensor = None /\ (a.bucket # None \/ a.minus # None \/ a.gate # {})

Kind(a) == CASE UsageError(a)                           -> "usage"
             [] ~UsageError(a) /\ a.provenance          -> "provenance"
             [] ~UsageError(a) /\ ~a.provenance         ->
                  IF a.events # None THEN "events"
                  ELSE IF a.runs THEN "runs"
                  ELSE IF a.minus # None THEN "delta"
                  ELSE IF a.sensor # None THEN "values"
                  ELSE "coverage"

\* What each report asks, of the statements below.
Topics(a) ==
    LET kind == Kind(a) IN
    CASE kind = "usage"      -> {}
      [] kind = "provenance" -> {"epochs"}
      [] kind = "coverage"   -> {"list"}
      [] kind = "runs"       -> {"check", "signal"}
      [] kind = "events"     -> {"check", "signal", "occasions"}
      [] kind = "delta"      -> {"check", "other", "read", "counts"}
      [] kind = "values"     -> {"check", "read", "counts"}

\* Readings that no gate has to be walked for are put into buckets by SQL.
FromSql(a) == Kind(a) = "values" /\ a.bucket # None /\ a.gate = {}

\* Statements in their order.  What is refused for its sensors, units and states is one
\* check, the counts at the end of a summary are one too; the earliest reading is asked
\* for before SQL makes buckets, in a statement of its own (_require_post_epoch).
InOrder == <<"epochs", "window", "moves", "list", "check", "signal", "other", "earliest",
             "read", "counts", "occasions">>

Asked(a, topic) ==
    \/ topic \in Topics(a)
    \/ topic = "signal" /\ a.gate # {}
    \/ topic = "earliest" /\ FromSql(a)
    \/ topic \in {"window", "moves"} /\ a.journal /\ Kind(a) \notin {"usage", "provenance"}

-------------------------------------------------------------------------------
(***************************************************************************)
(* What a statement saw.                                                   *)
(***************************************************************************)

Answered(topic) == \E k \in DOMAIN seen : seen[k].what = topic

\* The place of a statement; of those around the events, of the first.
Place(topic) == Min({k \in DOMAIN seen : seen[k].what = topic})

Saw(topic) == SubSeq(rows, 1, seen[Place(topic)].rows)

\* A stream of the report, as one of its statements saw it.
Stream(topic, sensor) == Observations(Saw(topic), sensor, ask.start, ask.end)

GateOpen == CHOOSE g \in ask.gate : TRUE

Expected == IF GateOpen = "on" THEN 1 ELSE 0

\* The signal whose runs are asked for.
RunsOf == IF ask.runs THEN ask.sensor ELSE ask.events

\* Events of a report on them: the sense is on unless it says off.
Moments == Runs(Stream("signal", ask.events), ask.sense # "off", ask.maxGap)

\* ReportingError: what the first statements refuse.
RefusedAtFirst ==
    /\ Answered("check")
    /\ LET saw == Saw("check") IN
       \/ ask.bucket # None /\ ~IntervalAccepted(ask.bucket)
       \/ CASE Kind(ask) \in {"runs", "events"} ->
               ~IsStateSensor(saw, RunsOf, ask.start, ask.end)
            [] Kind(ask) \in {"values", "delta"} ->
               \/ ask.sensor = ask.minus
               \/ Cardinality(UnitsOf(saw, {ask.sensor, ask.minus} \ {None},
                                      ask.start, ask.end)) > 1
               \/ Cardinality(ask.gate) > 1
               \/ ask.gate # {} /\ ~IsStateSensor(saw, Signal, ask.start, ask.end)

\* A reading of before 1970 that is on record when it is looked for.
Refused ==
    \/ RefusedAtFirst
    \/ Answered("earliest") /\ PreEpoch(Stream("earliest", ask.sensor), ask.local)

\* Mutant: the journal of corrections goes first.
BackupEpochsFirst(a) ==
    (IF "provenance" \in a.present THEN <<"copy_epochs", "count_epochs">> ELSE <<>>)
    \o (IF "database" \in a.present THEN <<"copy_rows", "count_rows">> ELSE <<>>)

\* geopilot_backup.py, main(): each file that is there, copied and then counted.  A
\* third, the journal of commands, goes between them and depends on neither.
Backup(a) ==
    (IF "database" \in a.present THEN <<"copy_rows", "count_rows">> ELSE <<>>)
    \o (IF "provenance" \in a.present THEN <<"copy_epochs", "count_epochs">> ELSE <<>>)

\* The statements of a run of the tool; each event of a report has one.
Questions ==
    CASE ask.tool = "record" -> <<>>
      [] ask.tool = "connections" -> <<"recorded", "cadence">>
      [] ask.tool = "backup" -> Backup(ask)
      [] ask.tool = "report" ->
            LET asked == Chosen(InOrder, {i \in DOMAIN InOrder : Asked(ask, InOrder[i])}) IN
            IF Kind(ask) = "events" /\ Answered("signal")
            THEN Front(asked) \o [k \in DOMAIN Moments |-> "around"] \o <<Last(asked)>>
            ELSE asked

Done == Len(seen) = Len(Questions) \/ Refused

Statement(topic, ok) ==
    [what |-> topic, rows |-> Len(rows), epochs |-> Len(epochs), at |-> clock, ok |-> ok]

Ask ==
    /\ ~Done
    /\ seen' = Append(seen, Statement(Questions[Len(seen) + 1], TRUE))
    /\ UNCHANGED <<record, ask>>

\* backup_one raises sqlite3.Error: neither the copy nor its count.
CopyFails ==
    /\ ask.tool = "backup"
    /\ ~Done
    /\ Questions[Len(seen) + 1] \in {"copy_rows", "copy_epochs"}
    /\ seen' = seen \o <<Statement(Questions[Len(seen) + 1], FALSE),
                         Statement(Questions[Len(seen) + 2], FALSE)>>
    /\ UNCHANGED <<record, ask>>

-------------------------------------------------------------------------------
(***************************************************************************)
(* The recorders.                                                          *)
(***************************************************************************)

\* The corrections in effect; a recording that predates the journal has no name for them.
Running == IF epochs = <<>> THEN NoEpoch ELSE epochs[Len(epochs)].config

Late == IF seen = <<>> THEN 0 ELSE Len(rows) - seen[1].rows

\* The bounds; what is recorded after a tool has ended is of no interest.
Room ==
    /\ Len(rows) + Cardinality({w \in Writers : pending[w] # None}) < Bounds[ask].rows
    /\ Late < Bounds[ask].late
    /\ ask.tool = "record" \/ ~Done

\* The values tell the rows apart, a state is on or off, a counter counts.
Readings(s) == IF UnitOf[s] = State \/ ask.tool = "record" THEN {0, 1}
               ELSE IF s = Meter THEN {Len(rows) * 30}
               ELSE {Len(rows)}

\* Mutant: a measurement without its unit.
MeasuredBare(s, t, v) == [sensor |-> s, at |-> t, offset |-> offset, value |-> v]

Measured(s, t, v) == [sensor |-> s, at |-> t, offset |-> offset, value |-> v, unit |-> UnitOf[s]]

\* append: the lookup; what is found is the same observation or a conflict.
LookUp(w, m) ==
    /\ pending[w] = None
    /\ LET found == Fetch(rows, m)
       IN IF found = {}
          THEN /\ pending' = [pending EXCEPT ![w] = m]
               /\ told' = told
          ELSE /\ told' = [told EXCEPT ![w] =
                     [how |-> IF \E i \in found : ConflictsWith(rows[i], m)
                              THEN "conflict" ELSE "known",
                      row |-> m]]
               /\ pending' = pending

\* A reading of a sensor, at an instant that is new unless two processes share it.
Read(w, s) ==
    /\ w \in Bounds[ask].writers /\ s \in Recorded(ask)
    /\ Room
    /\ \E d \in Bounds[ask].steps : \E v \in Readings(s) :
          /\ clock' = clock + d
          /\ LookUp(w, Measured(s, clock + d, v))
    /\ UNCHANGED <<rows, made, epochs, offset, ask, seen>>

\* The insert, a transaction of its own: the id is unique, or sqlite3 raises.
Insert(w) ==
    /\ pending[w] # None
    /\ LET m == pending[w]
       IN IF Fetch(rows, m) = {}
          THEN /\ rows' = Append(rows, m)
               /\ made' = Append(made, Running)
               /\ told' = [told EXCEPT ![w] = [how |-> "stored", row |-> m]]
          ELSE /\ told' = [told EXCEPT ![w] = [how |-> "integrity", row |-> m]]
               /\ UNCHANGED <<rows, made>>
    /\ pending' = [pending EXCEPT ![w] = None]
    /\ UNCHANGED <<epochs, clock, offset, ask, seen>>

\* The recorder is started with an edited configuration, with none running.
Restart(c) ==
    /\ epochs # <<>> /\ Len(epochs) < MaxEpochs
    /\ \A w \in Writers : pending[w] = None
    /\ Moved(epochs, c)
    /\ Room
    /\ clock' = clock + 1
    /\ epochs' = Append(epochs, [config |-> c, at |-> clock + 1])
    /\ UNCHANGED <<rows, made, offset, pending, told, ask, seen>>

\* The clocks go forward or back by one hour, the unit of the instances.
ChangeOffset(o) ==
    /\ Dist(o, offset) = 1
    /\ rows # <<>> /\ Room
    /\ offset' = o
    /\ UNCHANGED <<rows, made, epochs, clock, pending, told, ask, seen>>

Next ==
    \/ \E w \in Writers : Insert(w) \/ \E s \in Sensors : Read(w, s)
    \/ \E c \in Configs : Restart(c)
    \/ \E o \in Bounds[ask].offsets : ChangeOffset(o)
    \/ Ask
    \/ CopyFails

Spec == Init /\ [][Next]_vars

-------------------------------------------------------------------------------
(***************************************************************************)
(* What the reports print.                                                 *)
(***************************************************************************)

\* The window of the warning: open ends are filled in from the coverage.
Covered == {Coverage(Saw("window"), s) : s \in {r.sensor : r \in ToSet(Saw("window"))}}

WarnedFrom == IF ask.start # Open THEN ask.start ELSE Min({c.first : c \in Covered})
WarnedTo   == IF ask.end # Open THEN ask.end ELSE Max({c.last : c \in Covered})

\* _warn_if_corrections_moved: the sensors in play that moved.
Warned ==
    IF Open \in {ask.start, ask.end} /\ Saw("window") = <<>>
    THEN {}
    ELSE LET journal == SubSeq(epochs, 1, seen[Place("moves")].epochs)
             moves == ChangesBetween(journal, WarnedFrom, WarnedTo)
         IN UNION {moves[i] \cap InPlay(ask) : i \in DOMAIN moves}

\* What is summarised: the readings of a sensor, or their differences from another.
Selected ==
    LET readings == Stream("read", ask.sensor)
        subject == IF Kind(ask) = "delta"
                   THEN Differences(Pairs(readings, Stream("other", ask.minus), ask.tolerance))
                   ELSE readings
    IN IF ask.gate = {}
       THEN subject
       ELSE Gated(subject, Stream("signal", Signal), ask.tolerance, Expected)

Paired == Len(Pairs(Stream("read", ask.sensor), Stream("other", ask.minus), ask.tolerance))

\* Mutant: the count forgets the window.
CountAll(sensor) == SampleCount(Saw("counts"), sensor, Open, Open)

Count(sensor) == SampleCount(Saw("counts"), sensor, ask.start, ask.end)

\* The numbers below the summary, from the counts of the last statements.
Excluded == IF ask.gate = {} THEN 0
            ELSE IF Kind(ask) = "delta" THEN Paired - Len(Selected)
            ELSE Count(ask.sensor) - Len(Selected)

Unpaired(sensor) == Count(sensor) - Paired

\* The figures around one event: those of the k-th statement, without the window.
AroundEvent(k) ==
    LET saw == SubSeq(rows, 1, seen[Place("around") + k - 1].rows)
        anchor == IF ask.edge = "start" THEN Moments[k].startsAt ELSE Moments[k].endsAt
        stream(s) == Observations(saw, s, anchor - ask.before, anchor + ask.after)
    IN IF ask.minus = None
       THEN stream(ask.sensor)
       ELSE Differences(Pairs(stream(ask.sensor), stream(ask.minus), ask.tolerance))

\* An event without a reading is left out of the list.
Found == {k \in DOMAIN Moments : AroundEvent(k) # <<>>}

Occasions == Len(Runs(Stream("occasions", ask.events), ask.sense # "off", ask.maxGap))

\* What is put into buckets.
Series == IF ask.runs
          THEN RunsAsObservations(Runs(Stream("signal", ask.sensor), ask.sense = "on", ask.maxGap))
          ELSE Selected

\* What _aggregate_buckets refuses when it meets it; SQL refuses nothing.
RefusedBuckets == ask.bucket # None /\ ~FromSql(ask) /\ PreEpoch(Series, ask.local)

\* The buckets of a report.
Buckets ==
    IF FromSql(ask)
    THEN SqlBuckets(Series, ask.bucket, ask.local)
    ELSE AggregateBuckets(Series, ask.bucket, ask.local)

\* _report_cost refuses what is not in the unit of the meter.
Priced == ask.cost /\ UnitOf[ask.sensor] = UnitOf[Meter]

\* What a counter has counted, at the marginal price.
Consumed == Statistics(Values(Selected)).maximum - Statistics(Values(Selected)).minimum

Cost == MarginalCost(Consumed)

Stale == StaleAfter(Rate.effective, ask.on)

\* What the connection table says of a sensor; now is read before the record is.
Now == seen[1].at + ask.idle

Verdict(sensor) == Judge(Saw("recorded"), Saw("cadence"), sensor, Now)

-------------------------------------------------------------------------------
(***************************************************************************)
(* What the backup tool says: each copy is compared with a count of the    *)
(* source that was taken after it.                                         *)
(***************************************************************************)

Size(topic) == IF topic \in {"copy_rows", "count_rows"}
               THEN seen[Place(topic)].rows ELSE seen[Place(topic)].epochs

Copies == {t \in {"copy_rows", "copy_epochs"} : Answered(t)}

CountOf(copy) == IF copy = "copy_rows" THEN "count_rows" ELSE "count_epochs"

Copied == {t \in Copies : seen[Place(t)].ok}

Failures == {t \in Copies : t \in Copied => Size(t) # Size(CountOf(t))}

\* Mutant: an empty set of copies is judged before the failures.
BackupExitEmptyFirst ==
    IF Copied = {} THEN "usage" ELSE IF Failures # {} THEN "unverified" ELSE "ok"

BackupExit ==
    IF Failures # {} THEN "unverified" ELSE IF Copied = {} THEN "usage" ELSE "ok"

-------------------------------------------------------------------------------
(***************************************************************************)
(* Properties.                                                             *)
(***************************************************************************)

\* Every variable has its type.
TypeOK ==
    /\ rows \in Seq(Row)
    /\ made \in Seq(Configs \cup {NoEpoch}) /\ Len(made) = Len(rows)
    /\ epochs \in Seq(Epoch)
    /\ clock \in Nat /\ offset \in Bounds[ask].offsets
    /\ pending \in [Writers -> Row \cup {None}]
    /\ \A w \in Writers : told[w] # None =>
          /\ told[w].how \in {"stored", "known", "conflict", "integrity"}
          /\ told[w].row \in Row
    /\ \A k \in DOMAIN seen :
          /\ seen[k].rows \in 0..Len(rows) /\ seen[k].epochs \in 0..Len(epochs)
          /\ seen[k].at \in 0..clock /\ seen[k].ok \in BOOLEAN

\* Whatever two recorders append at once, no id is on record twice; an append
\* that returned left the very observation on record, and one that raised found
\* another under its id (sqlite_historian.py:90, lookup and insert apart).
ReturnedMeansOnRecord ==
    /\ \A i, j \in DOMAIN rows : SameId(rows[i], rows[j]) => i = j
    /\ \A w \in Writers : told[w] # None =>
          \E i \in DOMAIN rows :
              /\ SameId(rows[i], told[w].row)
              /\ told[w].how \in {"stored", "known"} => rows[i].value = told[w].row.value
              /\ told[w].how = "conflict" => rows[i].value # told[w].row.value

Finished(kind) ==
    ask.tool = "report" /\ seen # <<>> /\ Kind(ask) = kind /\ Len(seen) = Len(Questions) /\ ~Refused

\* What lies inside a run is one value without a hole, a run could not be longer,
\* and one that is not truncated was seen to begin and to end; where the coverage
\* shows no hole, only the outermost are truncated (reporting.py:565 and 1161).
RunsAreWhatWasSeen ==
    Finished("runs") =>
        LET obs == Stream("signal", ask.sensor)
            runs == DetectRuns(obs, ask.maxGap)
            near(i) == i \in 1..(Len(obs) - 1) /\ obs[i + 1].at - obs[i].at <= ask.maxGap
            inside(r) == {i \in DOMAIN obs : obs[i].at \in r.startsAt..r.endsAt}
        IN /\ \A i \in DOMAIN obs : Cardinality({k \in DOMAIN runs : i \in inside(runs[k])}) = 1
           /\ \A k \in DOMAIN runs :
                LET r == runs[k]  first == Min(inside(r))  last == Max(inside(r)) IN
                /\ r.samples = Cardinality(inside(r))
                /\ \A i \in inside(r) : (obs[i].value = 1) = r.asserted
                /\ \A i \in first..(last - 1) : near(i)
                /\ near(last) => obs[last + 1].value # obs[last].value
                /\ r.truncated <=> ~(near(first - 1) /\ near(last))
           /\ LargestGap(Times(obs)) <= ask.maxGap =>
                \A k \in DOMAIN runs : runs[k].truncated => k \in {1, Len(runs)}

\* A gate lets a moment through exactly when the nearest reading of the signal,
\* the earlier of two, is within reach and has the value: a moment nobody
\* observed passes neither gate (reporting.py:861).
GateSpeaksForTheNearest ==
    Finished("values") /\ ask.gate # {} =>
        LET states == Stream("signal", Signal)
            subject == Stream("read", ask.sensor)
            nearest(o) == CHOOSE i \in DOMAIN states : \A j \in DOMAIN states :
                \/ Dist(states[i].at, o.at) < Dist(states[j].at, o.at)
                \/ Dist(states[i].at, o.at) = Dist(states[j].at, o.at) /\ i <= j
        IN ToSet(Selected) =
               {o \in ToSet(subject) :
                   /\ Dist(states[nearest(o)].at, o.at) <= ask.tolerance
                   /\ states[nearest(o)].value = Expected}

\* No reading of either sensor is used twice, partners are within reach and in the
\* order of time, and with a tolerance under half of every gap no pair is missed
\* (reporting.py:967).
PairsAreOneToOne ==
    Finished("delta") =>
        LET left == Stream("read", ask.sensor)
            right == Stream("other", ask.minus)
            pairs == Pairs(left, right, ask.tolerance)
            apart(s) == \A i \in 1..(Len(s) - 1) : s[i + 1].at - s[i].at > 2 * ask.tolerance
        IN /\ \A i, j \in DOMAIN pairs : i < j =>
                  pairs[i].left.at < pairs[j].left.at /\ pairs[i].right.at < pairs[j].right.at
           /\ \A i \in DOMAIN pairs : Dist(pairs[i].left.at, pairs[i].right.at) <= ask.tolerance
           /\ apart(left) /\ apart(right) =>
                  \A o \in ToSet(left) : \A q \in ToSet(right) :
                      Dist(o.at, q.at) <= ask.tolerance => [left |-> o, right |-> q] \in ToSet(pairs)

\* Readings of before 1970 that were recorded between the look for them and the
\* statement that makes the buckets.
SlippedIn == {o \in ToSet(Series) :
                 /\ FromSql(ask) /\ Instant(o, ask.local) < 0
                 /\ o \notin ToSet(Stream("earliest", ask.sensor))}

\* Every observation is in one bucket, with its like in both ways of making them, and
\* lies inside the interval that is printed unless the clocks were changed within it.
\* A reading of before 1970 that slips in after the check is misplaced but not lost,
\* and spoils no interval that begins after the epoch (reporting.py:404 and 527).
BucketsAgree ==
    (Finished("values") \/ Finished("delta") \/ Finished("runs")) /\ ask.bucket # None
    /\ ~RefusedBuckets =>
        LET other == AggregateBuckets(Series, ask.bucket, ask.local)
            shown == Buckets
            within(b, o) == o.at \in b.startsAt..(b.startsAt + ask.bucket - 1)
        IN /\ Together(shown) = Len(Series)
           /\ \A index \in DOMAIN shown \cup DOMAIN other : index > 0 \/ SlippedIn = {} =>
                 /\ index \in DOMAIN shown \cap DOMAIN other
                 /\ shown[index].stats = other[index].stats
           /\ SlippedIn = {} =>
                 \A i \in DOMAIN Series :
                    (\A k \in DOMAIN Series : Series[k].offset = Series[i].offset) =>
                       Cardinality({index \in DOMAIN shown : within(shown[index], Series[i])}) = 1

\* The counts taken after the figures never fall short of what the figures left
\* out, and equal it while nothing is recorded: a reading that arrives meanwhile
\* is counted as excluded or unpaired, never the other way round (reporting.py:335).
FiguresNeverFallShort ==
    /\ Finished("values") /\ ask.gate # {} =>
          LET dropped == Len(Stream("read", ask.sensor)) - Len(Selected) IN
          /\ dropped <= Excluded
          /\ Saw("counts") = Saw("read") => dropped = Excluded
    /\ Finished("delta") =>
          LET alone == Len(Stream("read", ask.sensor)) - Paired
              left == Len(Stream("other", ask.minus)) - Paired IN
          /\ 0 <= alone /\ alone <= Unpaired(ask.sensor)
          /\ 0 <= left /\ left <= Unpaired(ask.minus)
          /\ Saw("counts") = Saw("other") =>
                alone = Unpaired(ask.sensor) /\ left = Unpaired(ask.minus)

OneRecorder == \E w \in Writers : Bounds[ask].writers = {w}

\* While one recorder is at work, whose readings follow each other, the occasions
\* counted after the events never are fewer than the events that are listed
\* (tools/geopilot_report.py:904).
OccasionsNeverFallShort ==
    OneRecorder /\ Finished("events") => Cardinality(Found) <= Occasions

\* No report counts less, in the end, than it has shown or left out.
CountsNeverFallShort == FiguresNeverFallShort /\ OccasionsNeverFallShort

\* The correction of a sensor, where a configuration has one.
CorrectionOf(config, sensor) == {config[s] : s \in {sensor} \cap DOMAIN config}

\* Two readings of one sensor that a report covers, made under different
\* corrections of it and on record when the report began, do not go without the
\* warning (geopilot_report.py:468).
WarnedOfEveryMove ==
    ask.tool = "report" /\ ask.journal /\ Answered("moves") =>
        \A i, j \in DOMAIN Saw("window") :
            /\ rows[i].sensor = rows[j].sensor
            /\ rows[i].sensor \in InPlay(ask)
            /\ InWindow(rows[i].at, ask.start, ask.end)
            /\ InWindow(rows[j].at, ask.start, ask.end)
            /\ CorrectionOf(made[i], rows[i].sensor) # CorrectionOf(made[j], rows[j].sensor)
            => rows[i].sensor \in Warned

\* A set of copies the tool calls good can be read together: the journal in it
\* names the configuration of every measurement in it, although the recorder was
\* restarted and recorded while the files were copied one after another
\* (geopilot_backup.py:157).
VerifiedSetHangsTogether ==
    ask.tool = "backup" /\ Done /\ BackupExit = "ok"
    /\ Copied = {"copy_rows", "copy_epochs"} =>
        \A i \in 1..Size("copy_rows") :
            Names(SubSeq(epochs, 1, Size("copy_epochs")), rows[i].at, made[i])

\* Zero means that every file that is there was copied with all that was on record
\* when the tool began; a broken database is never "nothing to back up"
\* (geopilot_backup.py:198).
BackupTellsTheTruth ==
    ask.tool = "backup" /\ Done =>
        /\ BackupExit = "ok" =>
              /\ Cardinality(Copied) = Cardinality(ask.present)
              /\ "copy_rows" \in Copied => Size("copy_rows") >= seen[1].rows
              /\ "copy_epochs" \in Copied => Size("copy_epochs") >= seen[1].epochs
        /\ BackupExit = "usage" <=> ask.present = {}

Heard(topic, sensor) == {r.at : r \in {q \in ToSet(Saw(topic)) : q.sensor = sensor}}

Gaps(topic, sensor) ==
    LET heard == Heard(topic, sensor) IN
    {p[2] - p[1] : p \in {q \in heard \X heard :
        q[1] < q[2] /\ \A u \in heard : u <= q[1] \/ q[2] <= u}}

Connections == ask.tool = "connections" /\ Done

\* One outage among at least three gaps does not make a sensor that has stopped
\* look punctual, nor a punctual one look stopped (connectivity.py:316).
OutageDoesNotHide ==
    Connections /\ Saw("cadence") = Saw("recorded") =>
        \A s \in {Subject, Other} : Cardinality(Heard("recorded", s)) >= 4 =>
            LET usual == Min(Gaps("recorded", s))
                since == Now - Max(Heard("recorded", s))
                regular == Max(Heard("recorded", s)) - Min(Heard("recorded", s)) - Max(Gaps("recorded", s))
                               = (Cardinality(Heard("recorded", s)) - 2) * usual
            IN regular /\ since >= 0 =>
                  Verdict(s) = IF since >= SilentMultiple * usual THEN "silent"
                               ELSE IF since >= LateMultiple * usual THEN "late" ELSE "live"

\* A bus is called dead only when none of its sensors was heard within three of
\* its shortest intervals, and well only when each of them has been heard
\* (connectivity.py:180).
DeadBusIsQuiet ==
    Connections =>
        LET bus == BusVerdict({Verdict(s) : s \in {Subject, Other}}) IN
        /\ bus = "live" => \A s \in {Subject, Other} : Heard("recorded", s) # {}
        /\ bus = "never" => \A s \in {Subject, Other} : Heard("recorded", s) = {}
        /\ bus = "silent" => \A s \in {Subject, Other} : Heard("recorded", s) # {} =>
              \/ Now - Max(Heard("recorded", s)) < -FutureTolerance
              \/ Gaps("cadence", s) # {} /\ Now - Max(Heard("recorded", s)) >= LateMultiple * Min(Gaps("cadence", s))

\* The cost of a machine is what the bill of a house past its first block grows
\* by, for what the counter gained in the window; prices that an April has
\* replaced are said to be old (tools/geopilot_report.py:826, tariff.py:80).
CostIsWhatTheBillGrowsBy ==
    Finished("values") /\ Priced /\ Selected # <<>> =>
        LET base == Threshold(ask.days) IN
        /\ Consumed = Selected[Len(Selected)].value - Selected[1].value
        /\ Cost = Bill(base + Consumed, ask.days) - Bill(base, ask.days)
        /\ Stale <=> \E month \in (Rate.effective + 1)..ask.on : month % 12 = 3
===============================================================================
