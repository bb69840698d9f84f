---------------------------- MODULE ReadersProofs ----------------------------
(***************************************************************************)
(* Theorems about Readers, for any number of recorders, any sensors and    *)
(* any bounds on what they record.                                         *)
(***************************************************************************)
EXTENDS Readers, ReportingProofs

(***************************************************************************)
(* The inductive invariant.                                                *)
(***************************************************************************)

\* What an append tells its caller.
Told == [how: {"stored", "known", "conflict", "integrity"}, row: Row]

\* A measurement, on record or about to be, has the unit of its sensor: two
\* under one id can differ in their value only.
Proper(m) == m \in Row /\ m.unit = UnitOf[m.sensor]

\* Rows are rows, and each is in the unit of its sensor.
Kept ==
    /\ rows \in Seq(Row)
    /\ \A i \in 1..Len(rows) : Proper(rows[i])
    /\ pending \in [Writers -> Row \cup {None}]
    /\ \A w \in Writers : pending[w] # None => Proper(pending[w])
    /\ told \in [Writers -> Told \cup {None}]
    /\ clock \in Int /\ offset \in Int
    /\ ask \in Asks

\* No id has two rows.
OneRowEach == \A i, j \in 1..Len(rows) : SameId(rows[i], rows[j]) => i = j

\* What an append that has ended leaves behind.
Stands(answer) ==
    \E i \in 1..Len(rows) :
        /\ SameId(rows[i], answer.row)
        /\ answer.how \in {"stored", "known"} => rows[i].value = answer.row.value
        /\ answer.how = "conflict" => rows[i].value # answer.row.value

\* Every answer of an append still holds.
AllStand == \A w \in Writers : told[w] # None => Stands(told[w])

\* What several processes append at once.
Appended == Kept /\ OneRowEach /\ AllStand

-------------------------------------------------------------------------------
(***************************************************************************)
(* Lemmas.                                                                 *)
(***************************************************************************)

\* What the property says, of indices that are written as an interval.
LEMMA AppendedSuffices == Appended => ReturnedMeansOnRecord
<1> SUFFICES ASSUME Appended PROVE ReturnedMeansOnRecord
  OBVIOUS
<1>1. DOMAIN rows = 1..Len(rows)
  BY DEF Appended, Kept
<1> QED
  BY <1>1 DEF Appended, OneRowEach, AllStand, Stands, ReturnedMeansOnRecord

\* The rows under an id.
LEMMA Fetched ==
    ASSUME Kept, NEW m
    PROVE  Fetch(rows, m) = {i \in 1..Len(rows) : SameId(rows[i], m)}
<1>1. DOMAIN rows = 1..Len(rows)
  BY DEF Kept
<1> QED
  BY <1>1 DEF Fetch

\* What a recorder reads is a proper measurement.
LEMMA MeasuredProper ==
    ASSUME Kept, NEW s \in Sensors, NEW t \in Int, NEW v \in Int
    PROVE  Proper(Measured(s, t, v))
<1>1. UnitOf[s] \in Units
  BY ReadersAssumption
<1> QED
  BY <1>1 DEF Kept, Proper, Measured, Row

\* And its value is an integer.
LEMMA ReadingsAreIntegers ==
    ASSUME Kept, NEW s
    PROVE  Readings(s) \subseteq Int
<1>1. Len(rows) \in Int
  BY DEF Kept
<1> QED
  BY <1>1 DEF Readings

\* A lookup keeps the invariant: what it finds is a conflict only if the value
\* is another one.
LEMMA LookedUp ==
    ASSUME Appended, NEW w \in Writers, NEW m, Proper(m), LookUp(w, m),
           rows' = rows, offset' = offset, ask' = ask, clock' \in Int
    PROVE  Appended'
<1> DEFINE found == Fetch(rows, m)
           conflicting == \E i \in found : ConflictsWith(rows[i], m)
           answer == [how |-> IF conflicting THEN "conflict" ELSE "known", row |-> m]
<1>0. found = {i \in 1..Len(rows) : SameId(rows[i], m)}
  BY Fetched DEF Appended
<1>1. CASE found = {}
  <2>1. pending' = [pending EXCEPT ![w] = m] /\ told' = told
    BY <1>1 DEF LookUp
  <2> QED
    BY <2>1 DEF Appended, Kept, OneRowEach, AllStand, Stands, Proper
<1>2. CASE found # {}
  <2>1. told' = [told EXCEPT ![w] = answer] /\ pending' = pending
    BY <1>2 DEF LookUp
  <2>2. answer \in Told
    BY DEF Told, Proper
  <2>3. Stands(answer)
    <3>1. CASE conflicting
      <4>1. PICK i \in found : ConflictsWith(rows[i], m)
        BY <3>1
      <4>2. i \in 1..Len(rows) /\ SameId(rows[i], m)
        BY <1>0, <4>1
      <4>3. rows[i].unit = m.unit
        BY <4>2 DEF Appended, Kept, Proper, SameId
      <4>4. rows[i].value # m.value
        BY <4>1, <4>3 DEF ConflictsWith
      <4> QED
        BY <3>1, <4>2, <4>4 DEF Stands
    <3>2. CASE ~conflicting
      <4>1. PICK i \in found : TRUE
        BY <1>2
      <4>2. i \in 1..Len(rows) /\ SameId(rows[i], m)
        BY <1>0, <4>1
      <4>3. rows[i].value = m.value
        BY <3>2, <4>1 DEF ConflictsWith
      <4> QED
        BY <3>2, <4>2, <4>3 DEF Stands
    <3> QED
      BY <3>1, <3>2
  <2> HIDE DEF answer
  <2>4. Kept'
    BY <2>1, <2>2 DEF Appended, Kept, Proper
  <2>5. AllStand'
    BY <2>1, <2>3 DEF Appended, Kept, AllStand, Stands
  <2> QED
    BY <2>4, <2>5 DEF Appended, OneRowEach
<1> QED
  BY <1>1, <1>2

\* So does an insert: the unique key is what makes the two steps safe.
LEMMA Inserted ==
    ASSUME Appended, NEW w \in Writers, Insert(w)
    PROVE  Appended'
<1> DEFINE m == pending[w]
           n == Len(rows)
<1>0. /\ m # None /\ Proper(m) /\ n \in Nat
      /\ pending' = [pending EXCEPT ![w] = None]
      /\ clock' = clock /\ offset' = offset /\ ask' = ask
  BY DEF Insert, Appended, Kept
<1>1. Fetch(rows, m) = {i \in 1..n : SameId(rows[i], m)}
  BY Fetched DEF Appended
<1>2. CASE Fetch(rows, m) = {}
  <2> DEFINE answer == [how |-> "stored", row |-> m]
  <2>1. rows' = Append(rows, m) /\ told' = [told EXCEPT ![w] = answer]
    BY <1>2 DEF Insert
  <2>2. m \in Row /\ rows \in Seq(Row)
    BY <1>0 DEF Proper, Appended, Kept
  <2>3. /\ rows' \in Seq(Row) /\ Len(rows') = n + 1
        /\ rows'[n + 1] = m
        /\ \A i \in 1..n : rows'[i] = rows[i]
    BY <2>1, <2>2
  <2>4. answer \in Told
    BY <2>2 DEF Told
  <2>5. Kept'
    <3>1. \A i \in 1..Len(rows') : Proper(rows'[i])
      <4> TAKE i \in 1..Len(rows')
      <4>1. i \in 1..n \/ i = n + 1
        BY <1>0, <2>3
      <4> QED
        BY <4>1, <1>0, <2>3 DEF Appended, Kept, Proper
    <3> QED
      BY <1>0, <2>1, <2>3, <2>4, <3>1 DEF Appended, Kept, Proper
  <2>6. OneRowEach'
    <3> SUFFICES ASSUME NEW i \in 1..(n + 1), NEW j \in 1..(n + 1), SameId(rows'[i], rows'[j])
                 PROVE  i = j
      BY <2>3 DEF OneRowEach, SameId
    <3>1. \A k \in 1..n : ~SameId(rows[k], m)
      BY <1>1, <1>2
    <3>2. (i \in 1..n \/ i = n + 1) /\ (j \in 1..n \/ j = n + 1)
      BY <1>0
    <3> QED
      BY <3>1, <3>2, <2>3 DEF Appended, OneRowEach, SameId
  <2>7. AllStand'
    <3> SUFFICES ASSUME NEW v \in Writers, told'[v] # None PROVE Stands(told[v])'
      BY DEF AllStand
    <3>1. CASE v = w
      <4>1. told'[v] = answer
        BY <2>1, <3>1 DEF Appended, Kept
      <4>2. n + 1 \in 1..Len(rows')
        BY <1>0, <2>3
      <4> QED
        BY <4>1, <4>2, <2>3 DEF Stands, SameId
    <3>2. CASE v # w
      <4>1. told'[v] = told[v]
        BY <2>1, <3>2 DEF Appended, Kept
      <4>2. PICK i \in 1..n :
               /\ SameId(rows[i], told[v].row)
               /\ told[v].how \in {"stored", "known"} => rows[i].value = told[v].row.value
               /\ told[v].how = "conflict" => rows[i].value # told[v].row.value
        BY <4>1 DEF Appended, AllStand, Stands
      <4>3. i \in 1..Len(rows') /\ rows'[i] = rows[i]
        BY <1>0, <2>3
      <4> QED
        BY <4>1, <4>2, <4>3 DEF Stands, SameId
    <3> QED
      BY <3>1, <3>2
  <2> QED
    BY <2>5, <2>6, <2>7 DEF Appended
<1>3. CASE Fetch(rows, m) # {}
  <2> DEFINE answer == [how |-> "integrity", row |-> m]
  <2>1. rows' = rows /\ told' = [told EXCEPT ![w] = answer]
    BY <1>3 DEF Insert
  <2>2. answer \in Told
    BY <1>0 DEF Told, Proper
  <2>3. Stands(answer)
    BY <1>1, <1>3 DEF Stands
  <2> HIDE DEF answer
  <2>4. Kept'
    BY <1>0, <2>1, <2>2 DEF Appended, Kept, Proper
  <2>5. AllStand'
    BY <2>1, <2>3 DEF Appended, Kept, AllStand, Stands
  <2> QED
    BY <2>1, <2>4, <2>5 DEF Appended, OneRowEach
<1> QED
  BY <1>2, <1>3

-------------------------------------------------------------------------------
(***************************************************************************)
(* The theorem.                                                            *)
(***************************************************************************)

\* Nothing is kept before the first append.
LEMMA AppendedInit == Init => Appended
<1> SUFFICES ASSUME Init PROVE Appended
  OBVIOUS
<1>1. offset \in Int
  BY ReadersAssumption DEF Init
<1> QED
  BY <1>1 DEF Init, Appended, Kept, OneRowEach, AllStand

\* Every step of the readers keeps what was appended; only an append writes.
LEMMA AppendedNext == Appended /\ [Next]_vars => Appended'
<1> SUFFICES ASSUME Appended, [Next]_vars PROVE Appended'
  OBVIOUS
<1>1. ASSUME NEW w \in Writers, Insert(w) PROVE Appended'
  BY <1>1, Inserted
<1>2. ASSUME NEW w \in Writers, NEW s \in Sensors, Read(w, s) PROVE Appended'
  <2>1. PICK d \in Bounds[ask].steps, v \in Readings(s) :
           clock' = clock + d /\ LookUp(w, Measured(s, clock + d, v))
    BY <1>2 DEF Read
  <2>2. d \in Int /\ clock \in Int /\ v \in Int
    BY <2>1, ReadersAssumption, ReadingsAreIntegers DEF Appended, Kept
  <2>3. Proper(Measured(s, clock + d, v))
    BY <2>2, MeasuredProper DEF Appended
  <2> QED
    BY <1>2, <2>1, <2>2, <2>3, LookedUp DEF Read
<1>3. ASSUME NEW c \in Configs, Restart(c) PROVE Appended'
  BY <1>3 DEF Restart, Appended, Kept, OneRowEach, AllStand, Stands, Proper
<1>4. ASSUME NEW o \in Bounds[ask].offsets, ChangeOffset(o) PROVE Appended'
  <2>1. o \in Int
    BY ReadersAssumption DEF Appended, Kept
  <2> QED
    BY <1>4, <2>1 DEF ChangeOffset, Appended, Kept, OneRowEach, AllStand, Stands, Proper
<1>5. ASSUME Ask \/ CopyFails \/ UNCHANGED vars PROVE Appended'
  <2>1. UNCHANGED <<record, ask>>
    BY <1>5 DEF Ask, CopyFails, vars
  <2>2. UNCHANGED <<rows, pending, told, clock, offset, ask>>
    BY <2>1 DEF record
  <2>3. Kept'
    BY <2>2 DEF Appended, Kept, Proper
  <2> QED
    BY <2>2, <2>3 DEF Appended, OneRowEach, AllStand, Stands
<1> QED
  BY <1>1, <1>2, <1>3, <1>4, <1>5 DEF Next

\* Whatever any number of recorders append at once, no id is stored twice and
\* nobody is told what the record does not hold (sqlite_historian.py:90).
THEOREM ReturnedMeansOnRecordAlways == Spec => []ReturnedMeansOnRecord
<1>1. Init => Appended
  BY AppendedInit
<1>2. Appended /\ [Next]_vars => Appended'
  BY AppendedNext
<1>3. Appended => ReturnedMeansOnRecord
  BY AppendedSuffices
<1> QED
  BY <1>1, <1>2, <1>3, PTL DEF Spec

\* What a statement is about.
Topic ==
    {"epochs", "window", "moves", "list", "check", "signal", "other", "earliest", "read",
     "counts", "occasions", "around", "recorded", "cadence", "copy_rows", "count_rows", "copy_epochs",
     "count_epochs"}

\* What is kept of a statement.
Answer == [what: Topic, rows: Nat, epochs: Nat, at: Nat, ok: BOOLEAN]

\* A statement sees no more than is on record, and a later one no less.
Looked ==
    /\ seen \in Seq(Answer)
    /\ \A k \in 1..Len(seen) :
          /\ seen[k].rows <= Len(rows) /\ seen[k].epochs <= Len(epochs)
          /\ seen[k].at <= clock
    /\ \A j, k \in 1..Len(seen) : j < k =>
          /\ seen[j].rows <= seen[k].rows /\ seen[j].epochs <= seen[k].epochs
          /\ seen[j].at <= seen[k].at

\* The journal grows with the clock, and what is measured is not ahead of it.
Journalled ==
    /\ made \in Seq(Configs \cup {NoEpoch}) /\ Len(made) = Len(rows)
    /\ epochs \in Seq([config: Configs, at: Nat])
    /\ \A j \in 1..Len(epochs) : epochs[j].at <= clock
    /\ \A j, k \in 1..Len(epochs) : j < k => epochs[j].at < epochs[k].at
    /\ ask.journal <=> epochs # <<>>
    /\ clock \in Nat /\ offset \in Bounds[ask].offsets
    /\ \A i \in 1..Len(rows) : rows[i].at <= clock
    /\ \A w \in Writers : pending[w] # None => pending[w].at <= clock

\* The record, the journal and what was seen of them.
Typed == Appended /\ Journalled /\ Looked

-------------------------------------------------------------------------------
(***************************************************************************)
(* What a statement saw.                                                   *)
(***************************************************************************)

\* The first statement on a topic is one of them, and saw the first rows.
LEMMA PlaceIs ==
    ASSUME Typed, NEW topic, Answered(topic)
    PROVE  /\ Place(topic) \in 1..Len(seen) /\ seen[Place(topic)].what = topic
           /\ \A k \in 1..Len(seen) : seen[k].what = topic => Place(topic) <= k
<1> DEFINE S == {k \in DOMAIN seen : seen[k].what = topic}
<1>1. seen \in Seq(Answer)
  BY DEF Typed, Looked
<1>2. S \subseteq 1..Len(seen) /\ S # {} /\ IsFiniteSet(1..Len(seen)) /\ S \subseteq Int
  BY <1>1, FS_Interval DEF Answered
<1>3. IsFiniteSet(S)
  BY <1>2, FS_Subset
<1>4. Min(S) \in S /\ \A k \in S : Min(S) <= k
  BY <1>2, <1>3, Extremes
<1> QED
  BY <1>1, <1>2, <1>4 DEF Place

\* A statement sees the first rows of the record, as they are now.
LEMMA SawIs ==
    ASSUME Typed, NEW topic, Answered(topic)
    PROVE  /\ Saw(topic) \in Seq(Row) /\ Distinct(Saw(topic))
           /\ Len(Saw(topic)) = seen[Place(topic)].rows
           /\ Len(Saw(topic)) \in 0..Len(rows)
           /\ \A i \in 1..Len(Saw(topic)) : Saw(topic)[i] = rows[i]
<1> DEFINE n == seen[Place(topic)].rows
           s == Saw(topic)
<1>1. n \in 0..Len(rows)
  <2>1. Place(topic) \in 1..Len(seen)
    BY PlaceIs
  <2>2. seen[Place(topic)] \in Answer
    BY <2>1 DEF Typed, Looked
  <2>3. Len(rows) \in Nat
    BY DEF Typed, Appended, Kept
  <2> QED
    BY <2>1, <2>2, <2>3 DEF Typed, Looked, Answer
<1>2. rows \in Seq(Row)
  BY DEF Typed, Appended, Kept
<1>3. s = SubSeq(rows, 1, n)
  BY DEF Saw
<1> HIDE DEF n, s
<1>4. s \in Seq(Row) /\ Len(s) = n /\ \A i \in 1..n : s[i] = rows[i]
  BY <1>1, <1>2, <1>3
<1>5. \A i \in 1..n : i \in 1..Len(rows)
  BY <1>1, <1>2
<1>6. Distinct(s)
  BY <1>4, <1>5 DEF Distinct, SameId, Typed, Appended, OneRowEach
<1> QED
  BY <1>1, <1>4, <1>6 DEF n, s

\* What the command line may hold.
LEMMA AskIs ==
    ASSUME Typed
    PROVE  ask \in CommandLine /\ ask \in Asks /\ ask.maxGap \in Int /\ ask.tolerance \in Nat
<1>1. ask \in Asks /\ Asks \subseteq CommandLine
  BY ReadersAssumption DEF Typed, Appended, Kept
<1>2. ask \in CommandLine
  BY <1>1
<1> QED
  BY <1>1, <1>2 DEF CommandLine

\* A stream of the report is in the order of time.
LEMMA StreamIs ==
    ASSUME Typed, NEW topic, Answered(topic), NEW sensor
    PROVE  Stream(topic, sensor) \in Seq(Observation) /\ InTime(Stream(topic, sensor))
<1>1. Saw(topic) \in Seq(Row) /\ Distinct(Saw(topic))
  BY SawIs
<1> QED
  BY <1>1, ObservationsAre DEF Stream

\* The runs of one sense are runs.
LEMMA RunsTyped ==
    ASSUME NEW obs \in Seq(Observation), InTime(obs), NEW gap \in Int, NEW sense
    PROVE  /\ Runs(obs, sense, gap) \in Seq(Run)
           /\ \A k \in 1..Len(Runs(obs, sense, gap)) : Runs(obs, sense, gap)[k].asserted = sense
<1> DEFINE runs == DetectRuns(obs, gap)
           places == {k \in DOMAIN runs : runs[k].asserted = sense}
           chosen == Chosen(runs, places)
<1>1. runs \in Seq(Run)
  BY RunsAreSeen
<1> HIDE DEF runs
<1>2. places \in SUBSET (1..Len(runs)) /\ \A k \in places : runs[k].asserted = sense
  BY <1>1
<1> HIDE DEF places
<1>3. chosen \in Seq(Run) /\ \E order : Picks(order, chosen, runs, places)
  BY <1>1, <1>2, ChosenIs
<1>3a. PICK order : Picks(order, chosen, runs, places)
  BY <1>3
<1>4. ASSUME NEW k \in 1..Len(chosen) PROVE chosen[k].asserted = sense
  <2>1. order[k] \in places /\ chosen[k] = runs[order[k]]
    BY <1>3a DEF Picks
  <2> HIDE DEF chosen
  <2> QED
    BY <1>2, <2>1
<1>5. Runs(obs, sense, gap) = chosen
  BY DEF Runs, runs, places
<1> QED
  BY <1>3, <1>4, <1>5

-------------------------------------------------------------------------------
(***************************************************************************)
(* The statements of a run of a tool.                                      *)
(***************************************************************************)

\* The statements of a tool before it knows of any event.
Plan == Chosen(InOrder, {i \in DOMAIN InOrder : Asked(ask, InOrder[i])})

\* A report on events, whose statements depend on the events found.
Eventful == ask.tool = "report" /\ Kind(ask) = "events"

\* The order of statements is one of topics.
LEMMA InOrderIs ==
    /\ InOrder \in Seq(Topic) /\ Len(InOrder) = 11 /\ DOMAIN InOrder = 1..11
    /\ InOrder[1] = "epochs" /\ InOrder[2] = "window" /\ InOrder[3] = "moves"
    /\ InOrder[4] = "list" /\ InOrder[5] = "check" /\ InOrder[6] = "signal"
    /\ InOrder[7] = "other" /\ InOrder[8] = "earliest" /\ InOrder[9] = "read"
    /\ InOrder[10] = "counts" /\ InOrder[11] = "occasions"
  BY DEF InOrder, Topic

\* The statements of a report without events are the topics it asks, in order.
LEMMA PlanIs ==
    /\ Plan \in Seq(Topic)
    /\ \A i \in 1..11 : Asked(ask, InOrder[i]) => \E k \in 1..Len(Plan) : Plan[k] = InOrder[i]
    /\ \A k \in 1..Len(Plan) : Asked(ask, Plan[k])
<1> DEFINE places == {i \in DOMAIN InOrder : Asked(ask, InOrder[i])}
<1>1. /\ places \in SUBSET (1..Len(InOrder))
      /\ \A i \in places : Asked(ask, InOrder[i])
      /\ \A i \in 1..11 : Asked(ask, InOrder[i]) => i \in places
  BY InOrderIs
<1>2. Plan = Chosen(InOrder, places)
  BY DEF Plan
<1> HIDE DEF places
<1>3. Plan \in Seq(Topic) /\ \E order : Picks(order, Plan, InOrder, places)
  <2>1. InOrder \in Seq(Topic)
    BY InOrderIs
  <2> QED
    BY <1>1, <1>2, <2>1, ChosenIs
<1>4. PICK order : Picks(order, Plan, InOrder, places)
  BY <1>3
<1>5. \A i \in 1..11 : Asked(ask, InOrder[i]) => \E k \in 1..Len(Plan) : Plan[k] = InOrder[i]
  BY <1>1, <1>4 DEF Picks
<1>6. \A k \in 1..Len(Plan) : Asked(ask, Plan[k])
  BY <1>1, <1>4 DEF Picks
<1> QED
  BY <1>2, <1>3, <1>5, <1>6

\* What a backup asks, of each of the sets of files that may be there.
LEMMA BackupIs ==
    LET db == "database" \in ask.present  pv == "provenance" \in ask.present IN
    /\ db /\ pv => Backup(ask) = <<"copy_rows", "count_rows", "copy_epochs", "count_epochs">>
    /\ db /\ ~pv => Backup(ask) = <<"copy_rows", "count_rows">>
    /\ ~db /\ pv => Backup(ask) = <<"copy_epochs", "count_epochs">>
    /\ ~db /\ ~pv => Backup(ask) = <<>>
<1>1. <<"copy_rows", "count_rows">> \o <<"copy_epochs", "count_epochs">>
         = <<"copy_rows", "count_rows", "copy_epochs", "count_epochs">>
  <2> DEFINE a == <<"copy_rows", "count_rows">>
             b == <<"copy_epochs", "count_epochs">>
  <2>1. a \in Seq(Topic) /\ b \in Seq(Topic)
    BY DEF Topic
  <2>2. /\ Len(a) = 2 /\ a[1] = "copy_rows" /\ a[2] = "count_rows"
        /\ Len(b) = 2 /\ b[1] = "copy_epochs" /\ b[2] = "count_epochs"
    OBVIOUS
  <2> HIDE DEF a, b
  <2> DEFINE c == a \o b
  <2>3. /\ c \in Seq(Topic) /\ Len(c) = Len(a) + Len(b)
        /\ \A i \in 1..Len(a) : c[i] = a[i]
        /\ \A i \in 1..Len(b) : c[Len(a) + i] = b[i]
    BY <2>1, Joined
  <2> HIDE DEF c
  <2>4. Len(c) = 4
    BY <2>2, <2>3
  <2>5. c[1] = "copy_rows" /\ c[2] = "count_rows"
    BY <2>2, <2>3
  <2>6. c[2 + 1] = "copy_epochs" /\ c[2 + 2] = "count_epochs"
    BY <2>2, <2>3
  <2>7. c = <<"copy_rows", "count_rows", "copy_epochs", "count_epochs">>
    <3> DEFINE d == <<"copy_rows", "count_rows", "copy_epochs", "count_epochs">>
    <3>1. d \in Seq(Topic)
      BY DEF Topic
    <3>2. Len(d) = 4 /\ d[1] = "copy_rows" /\ d[2] = "count_rows" /\ d[3] = "copy_epochs"
          /\ d[4] = "count_epochs"
      OBVIOUS
    <3> HIDE DEF d
    <3>3. \A i \in 1..4 : c[i] = d[i]
      BY <2>5, <2>6, <3>2
    <3>4. c = d
      BY <2>3, <2>4, <3>1, <3>2, <3>3
    <3> QED
      BY <3>4 DEF d
  <2> QED
    BY <2>7 DEF a, b, c
<1>2. <<"copy_rows", "count_rows">> \o <<>> = <<"copy_rows", "count_rows">>
  OBVIOUS
<1>3. <<>> \o <<"copy_epochs", "count_epochs">> = <<"copy_epochs", "count_epochs">>
  OBVIOUS
<1>4. <<>> \o <<>> = <<>>
  OBVIOUS
<1> QED
  BY <1>1, <1>2, <1>3, <1>4, Zenon DEF Backup

\* Whatever is asked is a topic.
LEMMA QuestionsAre ==
    ASSUME Typed
    PROVE  Questions \in Seq(Topic)
<1>1. ask.tool \in {"report", "backup", "connections", "record"}
  BY AskIs DEF CommandLine
<1>2. CASE ask.tool = "record"
  <2>1. Questions = <<>>
    BY <1>2 DEF Questions
  <2> QED
    BY <2>1
<1>3. CASE ask.tool = "connections"
  <2>1. Questions = <<"recorded", "cadence">>
    BY <1>3 DEF Questions
  <2> QED
    BY <2>1 DEF Topic
<1>4. CASE ask.tool = "backup"
  <2>1. Questions = Backup(ask)
    BY <1>4 DEF Questions
  <2>2. Questions \in {<<"copy_rows", "count_rows", "copy_epochs", "count_epochs">>,
                       <<"copy_rows", "count_rows">>, <<"copy_epochs", "count_epochs">>, <<>>}
    BY <2>1, BackupIs
  <2>3. /\ <<"copy_rows", "count_rows", "copy_epochs", "count_epochs">> \in Seq(Topic)
        /\ <<"copy_rows", "count_rows">> \in Seq(Topic)
        /\ <<"copy_epochs", "count_epochs">> \in Seq(Topic) /\ <<>> \in Seq(Topic)
    BY DEF Topic
  <2> QED
    BY <2>2, <2>3, Zenon
<1>5. CASE ask.tool = "report" /\ ~(Kind(ask) = "events" /\ Answered("signal"))
  <2>1. Questions = Plan
    BY <1>5 DEF Questions, Plan
  <2> QED
    BY <2>1, PlanIs
<1>6. CASE ask.tool = "report" /\ Kind(ask) = "events" /\ Answered("signal")
  <2> DEFINE around == [k \in DOMAIN Moments |-> "around"]
  <2>1. Questions = Front(Plan) \o around \o <<Last(Plan)>>
    BY <1>6 DEF Questions, Plan
  <2>2. Moments \in Seq(Run)
    BY <1>6, AskIs, StreamIs, RunsTyped DEF Moments
  <2>3. around \in Seq(Topic)
    <3>1. around \in [1..Len(Moments) -> Topic] /\ Len(Moments) \in Nat
      BY <2>2 DEF Topic
    <3> QED
      BY <3>1
  <2>4. Asked(ask, "occasions")
    BY <1>6 DEF Asked, Topics
  <2>5. Len(Plan) \in Nat /\ Len(Plan) >= 1 /\ Plan \in Seq(Topic)
    BY <2>4, PlanIs, InOrderIs
  <2>6. Front(Plan) \in Seq(Topic) /\ Last(Plan) \in Topic
    BY <2>5 DEF Front, Last
  <2> QED
    BY <2>1, <2>3, <2>6
<1> QED
  BY <1>1, <1>2, <1>3, <1>4, <1>5, <1>6

-------------------------------------------------------------------------------
(***************************************************************************)
(* What is on record stays, and so does what a statement saw.              *)
(***************************************************************************)

\* Statements that begin with others.
Extends(now, before) ==
    Len(before) <= Len(now) /\ \A i \in 1..Len(before) : now[i] = before[i]

\* The first statement on a topic.
First(statements, topic) == Min({k \in DOMAIN statements : statements[k].what = topic})

\* The first statement on a topic stays the first.
LEMMA FirstStays ==
    ASSUME NEW s \in Seq(Answer), NEW t \in Seq(Answer), Extends(t, s), NEW topic,
           NEW place \in 1..Len(s), s[place].what = topic
    PROVE  /\ First(t, topic) = First(s, topic) /\ First(s, topic) \in 1..Len(s)
           /\ s[First(s, topic)].what = topic
           /\ \A k \in 1..Len(s) : s[k].what = topic => First(s, topic) <= k
<1> DEFINE S == {k \in 1..Len(s) : s[k].what = topic}
           T == {k \in 1..Len(t) : t[k].what = topic}
<1>1. DOMAIN s = 1..Len(s) /\ DOMAIN t = 1..Len(t) /\ Len(s) \in Nat /\ Len(t) \in Nat
  OBVIOUS
<1>2. First(s, topic) = Min(S) /\ First(t, topic) = Min(T)
  BY <1>1 DEF First
<1>3. IsFiniteSet(S) /\ S \subseteq Int /\ place \in S
  <2>1. IsFiniteSet(1..Len(s)) /\ S \subseteq 1..Len(s)
    BY <1>1, FS_Interval
  <2> QED
    BY <2>1, FS_Subset
<1>4. IsFiniteSet(T) /\ T \subseteq Int /\ S \subseteq T
  <2>1. IsFiniteSet(1..Len(t)) /\ T \subseteq 1..Len(t)
    BY <1>1, FS_Interval
  <2>2. S \subseteq T
    BY <1>1 DEF Extends
  <2> QED
    BY <2>1, <2>2, FS_Subset
<1>5. Min(S) \in S /\ \A y \in S : Min(S) <= y
  BY <1>3, Extremes
<1>6. Min(T) \in T /\ \A y \in T : Min(T) <= y
  BY <1>3, <1>4, Extremes
<1>7. Min(T) = Min(S)
  <2>1. Min(T) <= Min(S)
    BY <1>4, <1>5, <1>6
  <2>2. Min(T) \in 1..Len(s) /\ t[Min(T)] = s[Min(T)]
    BY <1>1, <1>5, <1>6, <2>1 DEF Extends
  <2>3. Min(T) \in S
    BY <1>6, <2>2
  <2>4. Min(S) <= Min(T)
    BY <1>5, <2>3
  <2> QED
    BY <1>3, <1>4, <1>5, <1>6, <2>1, <2>4
<1> HIDE DEF T
<1>8. First(s, topic) \in S /\ \A y \in S : First(s, topic) <= y
  BY <1>2, <1>5
<1> QED
  BY <1>2, <1>7, <1>8

\* The first rows of a record that grows stay.
LEMMA FirstRowsStay ==
    ASSUME NEW X, NEW s \in Seq(X), NEW t \in Seq(X), Extends(t, s), NEW n \in 0..Len(s)
    PROVE  SubSeq(t, 1, n) = SubSeq(s, 1, n)
<1> DEFINE a == SubSeq(t, 1, n)
           b == SubSeq(s, 1, n)
<1>1. n <= Len(t) /\ n <= Len(s) /\ n \in Nat /\ Len(t) \in Nat
  BY DEF Extends
<1>2. a \in Seq(X) /\ Len(a) = n /\ \A i \in 1..n : a[i] = t[i]
  BY <1>1
<1>3. b \in Seq(X) /\ Len(b) = n /\ \A i \in 1..n : b[i] = s[i]
  BY <1>1
<1> HIDE DEF a, b
<1>4. \A i \in 1..n : a[i] = b[i]
  BY <1>1, <1>2, <1>3 DEF Extends
<1>5. a = b
  BY <1>2, <1>3, <1>4
<1> QED
  BY <1>5 DEF a, b

\* Whatever is recorded or asked later.
Goes == /\ Extends(rows', rows) /\ Extends(epochs', epochs) /\ Extends(made', made)
        /\ Extends(seen', seen) /\ ask' = ask

\* What a statement saw stays what it saw.
LEMMA SawStays ==
    ASSUME Typed, Typed', Goes, NEW topic, Answered(topic)
    PROVE  /\ Answered(topic)' /\ Place(topic)' = Place(topic)
           /\ seen'[Place(topic)] = seen[Place(topic)]
           /\ Saw(topic)' = Saw(topic)
<1>1. /\ seen \in Seq(Answer) /\ seen' \in Seq(Answer) /\ Extends(seen', seen)
      /\ rows \in Seq(Row) /\ rows' \in Seq(Row) /\ Extends(rows', rows)
  BY DEF Typed, Looked, Appended, Kept, Goes
<1>2. PICK k \in 1..Len(seen) : seen[k].what = topic
  BY <1>1 DEF Answered
<1>3. Place(topic) = First(seen, topic) /\ Place(topic)' = First(seen', topic)
  BY DEF Place, First
<1>4. First(seen', topic) = First(seen, topic) /\ First(seen, topic) \in 1..Len(seen)
  BY <1>1, <1>2, FirstStays
<1>5. seen'[Place(topic)] = seen[Place(topic)] /\ Place(topic)' = Place(topic)
  BY <1>1, <1>3, <1>4 DEF Extends
<1>6. k \in 1..Len(seen') /\ seen'[k].what = topic
  BY <1>1, <1>2 DEF Extends
<1>7. Answered(topic)'
  BY <1>1, <1>6 DEF Answered
<1> DEFINE n == seen[Place(topic)].rows
<1>8. n \in 0..Len(rows)
  BY SawIs
<1>9. SubSeq(rows', 1, n) = SubSeq(rows, 1, n)
  BY <1>1, <1>8, FirstRowsStay
<1>10. Saw(topic)' = Saw(topic)
  BY <1>5, <1>9 DEF Saw
<1> QED
  BY <1>5, <1>7, <1>10

-------------------------------------------------------------------------------
(***************************************************************************)
(* The steps.                                                              *)
(***************************************************************************)

\* An entry of the journal.
Written == [config: Configs, at: Nat]

\* An epoch on record.
LEMMA EpochIs ==
    ASSUME Journalled, NEW j \in 1..Len(epochs)
    PROVE  /\ epochs[j] \in Written /\ epochs[j].at \in Nat /\ epochs[j].config \in Configs
           /\ epochs[j].at <= clock
<1>1. epochs \in Seq(Written)
  BY DEF Journalled, Written
<1>2. epochs[j] \in Written
  BY <1>1
<1> QED
  BY <1>2 DEF Written, Journalled

\* The configuration in effect is one, or there is no journal.
LEMMA RunningIs ==
    ASSUME Journalled
    PROVE  Running \in Configs \cup {NoEpoch}
<1>1. epochs \in Seq(Written)
  BY DEF Journalled, Written
<1>2. CASE epochs = <<>>
  BY <1>2 DEF Running
<1>3. CASE epochs # <<>>
  <2>1. Len(epochs) \in 1..Len(epochs)
    BY <1>1, <1>3
  <2>2. epochs[Len(epochs)] \in Written
    BY <1>1, <2>1
  <2> QED
    BY <1>3, <2>2 DEF Running, Written
<1> QED
  BY <1>2, <1>3

\* What Journalled says of the record alone: a reading is made at the clock.
LEMMA ReadJournalled ==
    ASSUME Typed, Appended', NEW w \in Writers, NEW s \in Sensors, Read(w, s)
    PROVE  Journalled'
<1>1. PICK d \in Bounds[ask].steps, v \in Readings(s) :
         clock' = clock + d /\ LookUp(w, Measured(s, clock + d, v))
  BY DEF Read
<1>2. d \in Nat /\ clock \in Nat
  BY <1>1, ReadersAssumption DEF Typed, Appended, Kept, Journalled
<1>3. UNCHANGED <<rows, made, epochs, offset, ask>>
  BY DEF Read
<1> DEFINE m == Measured(s, clock + d, v)
<1>4. m.at = clock + d
  BY DEF Measured
<1> HIDE DEF m
<1>5. pending' = pending \/ pending' = [pending EXCEPT ![w] = m]
  BY <1>1 DEF LookUp, m
<1>6. \A u \in Writers : pending'[u] # None => pending'[u].at <= clock'
  <2> SUFFICES ASSUME NEW u \in Writers, pending'[u] # None PROVE pending'[u].at <= clock'
    OBVIOUS
  <2>1. CASE pending'[u] = m
    BY <1>1, <1>2, <1>4, <2>1
  <2>2. CASE pending'[u] = pending[u]
    <3>1. pending[u] # None /\ pending[u].at <= clock /\ pending[u].at \in Int
      BY <2>2 DEF Typed, Journalled, Appended, Kept, Proper, Row
    <3> QED
      BY <1>1, <1>2, <2>2, <3>1
  <2> QED
    BY <1>5, <2>1, <2>2 DEF Typed, Appended, Kept
<1>7. clock' \in Nat /\ clock <= clock'
  BY <1>1, <1>2
<1>8. \A j \in 1..Len(epochs) : epochs[j].at <= clock'
  <2> TAKE j \in 1..Len(epochs)
  <2>1. epochs[j].at \in Nat /\ epochs[j].at <= clock
    BY EpochIs DEF Typed
  <2> QED
    BY <1>2, <1>7, <2>1
<1>9. \A i \in 1..Len(rows) : rows[i].at <= clock'
  <2> TAKE i \in 1..Len(rows)
  <2>1. rows[i].at \in Int /\ rows[i].at <= clock
    BY DEF Typed, Journalled, Appended, Kept, Proper, Row
  <2> QED
    BY <1>2, <1>7, <2>1
<1> QED
  BY <1>3, <1>6, <1>7, <1>8, <1>9 DEF Typed, Journalled

\* An insert attributes a row to the configuration in effect.
LEMMA InsertJournalled ==
    ASSUME Typed, Appended', NEW w \in Writers, Insert(w)
    PROVE  Journalled' /\ Goes
<1> DEFINE m == pending[w]
<1>1. /\ UNCHANGED <<epochs, clock, offset, ask, seen>>
      /\ m # None /\ pending' = [pending EXCEPT ![w] = None]
      /\ m \in Row /\ m.at <= clock /\ m.at \in Int
  BY DEF Insert, Typed, Journalled, Appended, Kept, Proper, Row
<1>2. \A u \in Writers : pending'[u] # None => pending'[u].at <= clock'
  BY <1>1 DEF Typed, Journalled, Appended, Kept
<1>3. rows \in Seq(Row) /\ made \in Seq(Configs \cup {NoEpoch}) /\ Len(made) = Len(rows)
  BY DEF Typed, Journalled, Appended, Kept
<1>4. Len(epochs) <= Len(epochs) /\ Len(seen) <= Len(seen) /\ Len(rows) <= Len(rows)
  BY DEF Typed, Journalled, Looked, Appended, Kept
<1>5. CASE Fetch(rows, m) = {}
  <2>1. rows' = Append(rows, m) /\ made' = Append(made, Running)
    BY <1>5 DEF Insert
  <2>2. Running \in Configs \cup {NoEpoch}
    BY RunningIs DEF Typed
  <2>3. /\ made' \in Seq(Configs \cup {NoEpoch}) /\ Len(made') = Len(rows')
        /\ Extends(made', made)
    BY <1>3, <2>1, <2>2 DEF Extends
  <2>4. /\ Len(rows') = Len(rows) + 1 /\ rows'[Len(rows) + 1] = m
        /\ \A i \in 1..Len(rows) : rows'[i] = rows[i]
    BY <1>1, <1>3, <2>1
  <2>5. Extends(rows', rows)
    BY <1>3, <2>4 DEF Extends
  <2>6. \A i \in 1..Len(rows') : rows'[i].at <= clock'
    <3> TAKE i \in 1..Len(rows')
    <3>1. i \in 1..Len(rows) \/ i = Len(rows) + 1
      BY <1>3, <2>4
    <3> QED
      BY <1>1, <2>4, <3>1 DEF Typed, Journalled
  <2> QED
    BY <1>1, <1>2, <1>4, <2>3, <2>5, <2>6 DEF Typed, Journalled, Goes, Extends
<1>6. CASE Fetch(rows, m) # {}
  <2>1. rows' = rows /\ made' = made
    BY <1>6 DEF Insert
  <2> QED
    BY <1>1, <1>2, <1>3, <1>4, <2>1 DEF Typed, Journalled, Goes, Extends
<1> QED
  BY <1>5, <1>6

\* A restart is later than whatever was measured.
LEMMA RestartJournalled ==
    ASSUME Typed, Appended', NEW c \in Configs, Restart(c)
    PROVE  Journalled' /\ Goes
<1> DEFINE e == [config |-> c, at |-> clock + 1]
           n == Len(epochs)
<1>1. /\ UNCHANGED <<rows, made, offset, pending, ask, seen>>
      /\ epochs' = Append(epochs, e) /\ clock' = clock + 1
      /\ epochs # <<>> /\ clock \in Nat
  BY DEF Restart, Typed, Journalled
<1>2. epochs \in Seq(Written) /\ e \in Written /\ n \in Nat
  BY <1>1 DEF Typed, Journalled, Written
<1>3. e.at = clock + 1
  OBVIOUS
<1> HIDE DEF e
<1>4. /\ epochs' \in Seq(Written) /\ Len(epochs') = n + 1 /\ epochs'[n + 1] = e
      /\ \A j \in 1..n : epochs'[j] = epochs[j]
      /\ epochs' # <<>>
  BY <1>1, <1>2
<1>5. \A j \in 1..n : epochs[j].at \in Nat /\ epochs[j].at <= clock
  BY EpochIs DEF Typed
<1>6. \A j \in 1..Len(epochs') : epochs'[j].at <= clock'
  <2> TAKE j \in 1..Len(epochs')
  <2>1. j \in 1..n \/ j = n + 1
    BY <1>2, <1>4
  <2> QED
    BY <1>1, <1>3, <1>4, <1>5, <2>1
<1>7. ASSUME NEW j \in 1..Len(epochs'), NEW k \in 1..Len(epochs'), j < k
      PROVE  epochs'[j].at < epochs'[k].at
  <2>1. j \in 1..n /\ (k \in 1..n \/ k = n + 1)
    BY <1>2, <1>4, <1>7
  <2>2. CASE k \in 1..n
    BY <1>4, <1>7, <2>1, <2>2 DEF Typed, Journalled
  <2>3. CASE k = n + 1
    BY <1>1, <1>3, <1>4, <1>5, <2>1, <2>3
  <2> QED
    BY <2>1, <2>2, <2>3
<1>8. \A i \in 1..Len(rows) : rows[i].at <= clock'
  <2> TAKE i \in 1..Len(rows)
  <2>1. rows[i].at \in Int /\ rows[i].at <= clock
    BY DEF Typed, Journalled, Appended, Kept, Proper, Row
  <2> QED
    BY <1>1, <2>1
<1>9. \A w \in Writers : pending'[w] = None
  BY <1>1 DEF Restart
<1>10. Len(rows) <= Len(rows) /\ Len(made) <= Len(made) /\ Len(seen) <= Len(seen) /\ n <= n + 1
  BY <1>2 DEF Typed, Journalled, Looked, Appended, Kept
<1> QED
  BY <1>1, <1>4, <1>6, <1>7, <1>8, <1>9, <1>10
     DEF Typed, Journalled, Goes, Extends, Written

\* Every statement so far is the one that was to be asked.
Scripted ==
    /\ Len(seen) <= Len(Questions)
    /\ \A k \in 1..Len(seen) : seen[k].what = Questions[k]

\* A list of statements on what is on record, the last of them at the latest now.
Sees(s) ==
    /\ s \in Seq(Answer)
    /\ \A k \in 1..Len(s) :
          /\ s[k].rows <= Len(rows) /\ s[k].epochs <= Len(epochs) /\ s[k].at <= clock
    /\ \A j, k \in 1..Len(s) : j < k =>
          s[j].rows <= s[k].rows /\ s[j].epochs <= s[k].epochs /\ s[j].at <= s[k].at

\* One more, made now.
LEMMA SeesMore ==
    ASSUME NEW s, Sees(s), NEW topic \in Topic, NEW ok \in BOOLEAN,
           rows \in Seq(Row), epochs \in Seq(Written), clock \in Nat
    PROVE  LET a == Statement(topic, ok) IN
           /\ a \in Answer /\ a.what = topic
           /\ a.rows = Len(rows) /\ a.epochs = Len(epochs) /\ a.at = clock
           /\ Sees(Append(s, a)) /\ Extends(Append(s, a), s)
           /\ Len(Append(s, a)) = Len(s) + 1 /\ Append(s, a)[Len(s) + 1] = a
<1> DEFINE a == Statement(topic, ok)
           t == Append(s, a)
           n == Len(s)
<1>1. /\ a \in Answer /\ a.what = topic
      /\ a.rows = Len(rows) /\ a.epochs = Len(epochs) /\ a.at = clock
  BY DEF Statement, Answer
<1> HIDE DEF a
<1>2. s \in Seq(Answer) /\ n \in Nat
  BY DEF Sees
<1>3. /\ t \in Seq(Answer) /\ Len(t) = n + 1 /\ t[n + 1] = a
      /\ \A i \in 1..n : t[i] = s[i]
  BY <1>1, <1>2
<1> HIDE DEF t
<1>4. Extends(t, s)
  BY <1>2, <1>3 DEF Extends
<1>5. \A k \in 1..n : s[k].rows <= Len(rows) /\ s[k].epochs <= Len(epochs) /\ s[k].at <= clock
  BY DEF Sees
<1>6. ASSUME NEW k \in 1..Len(t)
      PROVE  t[k].rows <= Len(rows) /\ t[k].epochs <= Len(epochs) /\ t[k].at <= clock
  <2>1. k \in 1..n \/ k = n + 1
    BY <1>2, <1>3
  <2>2. CASE k \in 1..n
    <3>1. t[k] = s[k]
      BY <1>3, <2>2
    <3> HIDE DEF n
    <3> QED
      BY <1>5, <2>2, <3>1
  <2>3. CASE k = n + 1
    <3>1. t[k] = a
      BY <1>3, <2>3
    <3>2. Len(rows) \in Nat /\ Len(epochs) \in Nat
      OBVIOUS
    <3> QED
      BY <1>1, <3>1, <3>2
  <2> QED
    BY <2>1, <2>2, <2>3
<1>7. ASSUME NEW j \in 1..Len(t), NEW k \in 1..Len(t), j < k
      PROVE  t[j].rows <= t[k].rows /\ t[j].epochs <= t[k].epochs /\ t[j].at <= t[k].at
  <2>1. j \in 1..n /\ (k \in 1..n \/ k = n + 1)
    BY <1>2, <1>3, <1>7
  <2>2. CASE k \in 1..n
    BY <1>3, <1>7, <2>1, <2>2 DEF Sees
  <2>3. CASE k = n + 1
    BY <1>1, <1>3, <1>5, <2>1, <2>3
  <2> QED
    BY <2>1, <2>2, <2>3
<1>8. Sees(t)
  BY <1>3, <1>6, <1>7 DEF Sees
<1> QED
  BY <1>1, <1>3, <1>4, <1>8 DEF a, t

\* Two at the end are one and one more.
LEMMA TwoMore ==
    ASSUME NEW S, NEW s \in Seq(S), NEW a \in S, NEW b \in S
    PROVE  s \o <<a, b>> = Append(Append(s, a), b)
<1> DEFINE t == <<a, b>>
           c == s \o t
           d == Append(Append(s, a), b)
           n == Len(s)
<1>0. t \in Seq(S)
  OBVIOUS
<1>1. t \in Seq(S) /\ Len(t) = 2 /\ t[1] = a /\ t[2] = b /\ n \in Nat
  OBVIOUS
<1>2. d \in Seq(S) /\ Len(d) = n + 2 /\ d[n + 1] = a /\ d[n + 2] = b /\ \A i \in 1..n : d[i] = s[i]
  <2> DEFINE e == Append(s, a)
  <2>1. e \in Seq(S) /\ Len(e) = n + 1 /\ e[n + 1] = a /\ \A i \in 1..n : e[i] = s[i]
    OBVIOUS
  <2> HIDE DEF e
  <2>2. /\ Append(e, b) \in Seq(S) /\ Len(Append(e, b)) = n + 2 /\ Append(e, b)[n + 2] = b
        /\ \A i \in 1..(n + 1) : Append(e, b)[i] = e[i]
    BY <1>1, <2>1
  <2> QED
    BY <1>1, <2>1, <2>2 DEF e
<1> HIDE DEF t, d
<1>3. /\ c \in Seq(S) /\ Len(c) = n + Len(t) /\ (\A i \in 1..n : c[i] = s[i])
      /\ \A i \in 1..Len(t) : c[n + i] = t[i]
  BY <1>0, Joined
<1> HIDE DEF c
<1>4. Len(c) = n + 2 /\ c[n + 1] = a /\ c[n + 2] = b
  BY <1>1, <1>3
<1>5. ASSUME NEW i \in 1..(n + 2) PROVE c[i] = d[i]
  <2>1. i \in 1..n \/ i = n + 1 \/ i = n + 2
    BY <1>1
  <2> QED
    BY <1>2, <1>3, <1>4, <2>1
<1>6. c = d
  BY <1>2, <1>3, <1>4, <1>5
<1> QED
  BY <1>6 DEF c, d, t

\* A report on events ends with the count of the occasions.
LEMMA PlanEnds ==
    ASSUME Eventful
    PROVE  /\ Plan \in Seq(Topic) /\ Len(Plan) \in Nat \ {0}
           /\ Plan[Len(Plan)] = "occasions"
<1> DEFINE places == {i \in DOMAIN InOrder : Asked(ask, InOrder[i])}
<1>1. /\ places \in SUBSET (1..Len(InOrder)) /\ InOrder \in Seq(Topic)
      /\ InOrder[11] = "occasions" /\ places \subseteq 1..11
  BY InOrderIs
<1>2. 11 \in places
  <2>1. Asked(ask, "occasions")
    BY DEF Eventful, Asked, Topics
  <2> QED
    BY <2>1, InOrderIs
<1>3. Plan = Chosen(InOrder, places)
  BY DEF Plan
<1> HIDE DEF places
<1>4. PICK order : Picks(order, Plan, InOrder, places)
  BY <1>1, <1>3, ChosenIs
<1>5. Plan \in Seq(Topic)
  BY <1>1, <1>3, ChosenIs
<1>6. PICK k \in 1..Len(Plan) : order[k] = 11
  BY <1>2, <1>4 DEF Picks
<1>7. k = Len(Plan)
  <2> SUFFICES ASSUME k # Len(Plan) PROVE FALSE
    OBVIOUS
  <2>1. Len(Plan) \in 1..Len(Plan) /\ k < Len(Plan)
    BY <1>5, <1>6
  <2>2. order[k] < order[Len(Plan)] /\ order[Len(Plan)] \in places
    BY <1>4, <1>6, <2>1 DEF Picks
  <2>3. order[Len(Plan)] \in 1..11 /\ 11 < order[Len(Plan)]
    BY <1>1, <1>6, <2>2
  <2> QED
    BY <2>3
<1>8. Plan[k] = InOrder[11]
  BY <1>4, <1>6 DEF Picks
<1> QED
  BY <1>1, <1>5, <1>6, <1>7, <1>8

\* Its statements: those of the plan, one for each event, and the count.
Opened ==
    LET n == Len(Plan) - 1  m == Len(Moments) IN
    /\ n \in Nat /\ m \in Nat
    /\ Moments \in Seq(Run)
    /\ Len(Questions) = n + m + 1
    /\ \A k \in 1..n : Questions[k] = Plan[k]
    /\ \A k \in 1..m : Questions[n + k] = "around"
    /\ Questions[n + m + 1] = "occasions"

\* The statements of a report on events, once its runs are known.
LEMMA PlanOpens == Typed /\ Eventful /\ Answered("signal") => Opened
<1> SUFFICES ASSUME Typed, Eventful, Answered("signal") PROVE Opened
  OBVIOUS
<1> DEFINE n == Len(Plan) - 1
           m == Len(Moments)
           front == Front(Plan)
           around == [k \in DOMAIN Moments |-> "around"]
           first == front \o around
           last == <<Last(Plan)>>
<1>1. Plan \in Seq(Topic) /\ Len(Plan) \in Nat \ {0} /\ Plan[Len(Plan)] = "occasions" /\ n \in Nat
  BY PlanEnds
<1>2. Moments \in Seq(Run) /\ m \in Nat
  <2>1. Moments \in Seq(Run)
    BY AskIs, StreamIs, RunsTyped DEF Moments
  <2> QED
    BY <2>1
<1>3. front \in Seq(Topic) /\ Len(front) = n /\ \A k \in 1..n : front[k] = Plan[k]
  <2>1. front = SubSeq(Plan, 1, n) /\ n \in 0..Len(Plan)
    BY <1>1 DEF Front
  <2>2. Plan \in Seq(Topic)
    BY <1>1
  <2> HIDE DEF n, front
  <2> QED
    BY <2>1, <2>2
<1>4. around \in Seq(Topic) /\ Len(around) = m /\ \A k \in 1..m : around[k] = "around"
  <2>1. around \in [1..m -> Topic] /\ \A k \in 1..m : around[k] = "around"
    BY <1>2 DEF Topic
  <2> HIDE DEF m, around
  <2> QED
    BY <1>2, <2>1
<1>5. last \in Seq(Topic)
  BY <1>1 DEF Last, Topic
<1>6. Len(last) = 1 /\ last[1] = "occasions"
  BY <1>1 DEF Last
<1>7. Questions = first \o last
  BY DEF Questions, Plan, Eventful
<1> HIDE DEF front, around, last, n, m
<1>8. /\ first \in Seq(Topic) /\ Len(first) = Len(front) + Len(around)
      /\ \A i \in 1..Len(front) : first[i] = front[i]
      /\ \A i \in 1..Len(around) : first[Len(front) + i] = around[i]
  <2>1. front \in Seq(Topic) /\ around \in Seq(Topic)
    BY <1>3, <1>4
  <2> QED
    BY <2>1, Joined
<1> HIDE DEF first
<1>8a. first \in Seq(Topic)
  BY <1>8
<1> DEFINE whole == first \o last
<1>9. /\ Len(whole) = Len(first) + Len(last)
      /\ \A i \in 1..Len(first) : whole[i] = first[i]
      /\ \A i \in 1..Len(last) : whole[Len(first) + i] = last[i]
  BY <1>5, <1>8a, Joined
<1> HIDE DEF whole
<1>10. Len(first) = n + m /\ Len(whole) = n + m + 1
  BY <1>1, <1>2, <1>3, <1>4, <1>6, <1>8, <1>9 DEF n, m
<1>11. \A k \in 1..n : k \in 1..(n + m) /\ whole[k] = Plan[k]
  BY <1>1, <1>2, <1>3, <1>8, <1>9, <1>10
<1>12. ASSUME NEW k \in 1..m PROVE whole[n + k] = "around"
  <2>1. n + k \in 1..(n + m)
    BY <1>1, <1>2
  <2>2. first[n + k] = "around"
    BY <1>3, <1>4, <1>8
  <2> QED
    BY <1>9, <1>10, <2>1, <2>2
<1>13. whole[n + m + 1] = "occasions"
  BY <1>6, <1>9, <1>10
<1> QED
  BY <1>1, <1>2, <1>7, <1>10, <1>11, <1>12, <1>13 DEF n, m, whole, Opened

\* The statements are settled by the command line and, once they are known, by
\* the runs of the report.
LEMMA QuestionsStay ==
    ASSUME Typed, Typed', Goes, ~(Eventful /\ ~Answered("signal") /\ Answered("signal")')
    PROVE  Questions' = Questions
<1>1. ask' = ask
  BY DEF Goes
<1>2. CASE ~Eventful
  BY <1>1, <1>2 DEF Questions, Eventful
<1>3. CASE Eventful /\ ~Answered("signal")
  <2>1. ~Answered("signal")'
    BY <1>3
  <2> QED
    BY <1>1, <1>3, <2>1 DEF Questions, Eventful
<1>4. CASE Eventful /\ Answered("signal")
  <2>1. Answered("signal")' /\ Saw("signal")' = Saw("signal")
    BY <1>4, SawStays
  <2>2. Moments' = Moments
    BY <1>1, <2>1 DEF Moments, Stream
  <2> QED
    BY <1>1, <1>4, <2>1, <2>2 DEF Questions, Eventful
<1> QED
  BY <1>2, <1>3, <1>4

\* Steps of the record leave the statements alone.
LEMMA LookedStays ==
    ASSUME Typed, Typed', Goes, Scripted, seen' = seen
    PROVE  Scripted'
<1>1. Answered("signal")' <=> Answered("signal")
  BY DEF Answered
<1>2. Questions' = Questions
  BY <1>1, QuestionsStay
<1> QED
  BY <1>2 DEF Scripted

\* What the statements saw stays true of a record that goes on.
LEMMA LookedLater ==
    ASSUME Typed, Extends(rows', rows), Extends(epochs', epochs), seen' = seen,
           clock <= clock', clock' \in Nat, rows' \in Seq(Row), epochs' \in Seq(Written)
    PROVE  Looked'
<1>1. Len(rows) <= Len(rows') /\ Len(epochs) <= Len(epochs')
      /\ Len(rows) \in Nat /\ Len(rows') \in Nat /\ Len(epochs) \in Nat /\ Len(epochs') \in Nat
      /\ clock \in Nat
  BY DEF Extends, Typed, Journalled, Appended, Kept
<1>2. ASSUME NEW k \in 1..Len(seen)
      PROVE  seen[k].rows <= Len(rows') /\ seen[k].epochs <= Len(epochs') /\ seen[k].at <= clock'
  <2>1. seen[k] \in Answer
    BY DEF Typed, Looked
  <2>2. seen[k].rows \in Nat /\ seen[k].epochs \in Nat /\ seen[k].at \in Nat
    BY <2>1 DEF Answer
  <2>3. seen[k].rows <= Len(rows) /\ seen[k].epochs <= Len(epochs) /\ seen[k].at <= clock
    BY DEF Typed, Looked
  <2> QED
    BY <1>1, <2>2, <2>3
<1> QED
  BY <1>2 DEF Typed, Looked

\* What is asked next is what is seen next.
LEMMA AskNext ==
    ASSUME Typed, Scripted, Appended', Ask
    PROVE  Typed' /\ Goes /\ Scripted'
<1> DEFINE n == Len(seen)
           a == Statement(Questions[n + 1], TRUE)
<1>1. /\ UNCHANGED <<rows, made, epochs, clock, offset, pending, told, ask>>
      /\ seen' = Append(seen, a) /\ ~Done
  BY DEF Ask, record
<1>2. Questions \in Seq(Topic) /\ n \in Nat /\ Len(Questions) \in Nat /\ n < Len(Questions)
  BY <1>1, QuestionsAre DEF Scripted, Done, Typed, Looked
<1>3. Questions[n + 1] \in Topic
  BY <1>2
<1>4. /\ rows \in Seq(Row) /\ epochs \in Seq(Written) /\ clock \in Nat /\ made \in Seq(Configs \cup {NoEpoch})
      /\ Sees(seen)
  BY DEF Typed, Journalled, Looked, Sees, Appended, Kept, Written
<1>5. /\ a.what = Questions[n + 1]
      /\ Sees(Append(seen, a)) /\ Extends(Append(seen, a), seen)
      /\ Len(Append(seen, a)) = n + 1 /\ Append(seen, a)[n + 1] = a
  BY <1>3, <1>4, SeesMore
<1> HIDE DEF a
<1>6. Looked'
  BY <1>1, <1>5 DEF Looked, Sees
<1>7. Journalled'
  BY <1>1 DEF Typed, Journalled
<1>8. Typed'
  BY <1>6, <1>7 DEF Typed
<1>9. Goes
  <2>1. Len(rows) <= Len(rows) /\ Len(made) <= Len(made) /\ Len(epochs) <= Len(epochs)
    BY <1>4
  <2> QED
    BY <1>1, <1>5, <2>1 DEF Goes, Extends
<1>10. Len(seen') = n + 1 /\ seen'[n + 1].what = Questions[n + 1]
       /\ \A k \in 1..n : seen'[k] = seen[k]
  BY <1>1, <1>5 DEF Extends
<1>11. \A k \in 1..(n + 1) : seen'[k].what = Questions[k]
  BY <1>2, <1>10 DEF Scripted
<1>12. CASE ~(Eventful /\ ~Answered("signal") /\ Answered("signal")')
  <2>1. Questions' = Questions
    BY <1>8, <1>9, <1>12, QuestionsStay
  <2> QED
    BY <1>2, <1>8, <1>9, <1>10, <1>11, <2>1 DEF Scripted
<1>13. CASE Eventful /\ ~Answered("signal") /\ Answered("signal")'
  <2>1. seen \in Seq(Answer) /\ seen' \in Seq(Answer)
    BY <1>6 DEF Looked, Typed
  <2>2. PICK k \in 1..Len(seen') : seen'[k].what = "signal"
    BY <1>13, <2>1 DEF Answered
  <2>3. k = n + 1
    <3>1. \A i \in 1..n : seen[i].what # "signal"
      BY <1>13, <2>1 DEF Answered
    <3> QED
      BY <1>2, <1>10, <2>2, <3>1
  <2>4. Questions = Plan /\ Questions[n + 1] = "signal"
    BY <1>10, <1>13, <2>2, <2>3 DEF Questions, Plan, Eventful
  <2>5. Plan \in Seq(Topic) /\ Len(Plan) \in Nat \ {0} /\ Plan[Len(Plan)] = "occasions"
    BY <1>13, PlanEnds
  <2>6. n + 1 # Len(Plan) /\ n + 1 \in 1..(Len(Plan) - 1)
    BY <1>2, <2>4, <2>5
  <2>7. /\ Len(Plan) - 1 <= Len(Questions')
        /\ \A i \in 1..(Len(Plan) - 1) : Questions'[i] = Plan[i]
    <3>1. Eventful' /\ Plan' = Plan
      BY <1>1, <1>13 DEF Eventful, Plan
    <3>2. Answered("signal")'
      BY <1>13
    <3>3. Typed' /\ Eventful' /\ Answered("signal")' => Opened'
      BY PlanOpens, PTL
    <3>4. Opened'
      BY <1>8, <3>1, <3>2, <3>3
    <3> QED
      BY <2>5, <3>1, <3>4 DEF Opened
  <2>8. n + 1 <= Len(Questions') /\ \A i \in 1..(n + 1) : i \in 1..(Len(Plan) - 1)
    BY <1>2, <2>5, <2>6, <2>7
  <2> QED
    BY <1>8, <1>9, <1>10, <1>11, <2>4, <2>7, <2>8 DEF Scripted
<1> QED
  BY <1>12, <1>13

\* A copy that fails takes its count with it.
LEMMA CopyFailsNext ==
    ASSUME Typed, Scripted, Appended', CopyFails
    PROVE  Typed' /\ Goes /\ Scripted'
<1> DEFINE n == Len(seen)
           a == Statement(Questions[n + 1], FALSE)
           b == Statement(Questions[n + 2], FALSE)
           s == Append(seen, a)
           t == Append(s, b)
<1>1. /\ UNCHANGED <<rows, made, epochs, clock, offset, pending, told, ask>>
      /\ seen' = seen \o <<a, b>> /\ ~Done /\ ask.tool = "backup"
      /\ Questions[n + 1] \in {"copy_rows", "copy_epochs"}
  BY DEF CopyFails, record
<1>2. Questions \in Seq(Topic) /\ n \in Nat /\ Len(Questions) \in Nat /\ n < Len(Questions)
  BY <1>1, QuestionsAre DEF Scripted, Done, Typed, Looked
<1>3. n + 2 <= Len(Questions)
  <2>1. Questions = Backup(ask)
    BY <1>1 DEF Questions
  <2>2. Questions \in {<<"copy_rows", "count_rows", "copy_epochs", "count_epochs">>,
                       <<"copy_rows", "count_rows">>, <<"copy_epochs", "count_epochs">>, <<>>}
    BY <2>1, BackupIs
  <2>3. CASE Questions = <<"copy_rows", "count_rows", "copy_epochs", "count_epochs">>
    <3>1. Len(Questions) = 4 /\ Questions[2] = "count_rows" /\ Questions[4] = "count_epochs"
      BY <2>3
    <3> QED
      BY <1>1, <1>2, <3>1
  <2>4. CASE Questions = <<"copy_rows", "count_rows">> \/ Questions = <<"copy_epochs", "count_epochs">>
    <3>1. Len(Questions) = 2 /\ Questions[2] \in {"count_rows", "count_epochs"}
      BY <2>4
    <3> QED
      BY <1>1, <1>2, <3>1
  <2>5. CASE Questions = <<>>
    BY <1>2, <2>5
  <2> QED
    BY <2>2, <2>3, <2>4, <2>5
<1>4. Questions[n + 1] \in Topic /\ Questions[n + 2] \in Topic
  BY <1>2, <1>3
<1>5. /\ rows \in Seq(Row) /\ epochs \in Seq(Written) /\ clock \in Nat /\ made \in Seq(Configs \cup {NoEpoch})
      /\ Sees(seen) /\ seen \in Seq(Answer)
  BY DEF Typed, Journalled, Looked, Sees, Appended, Kept, Written
<1>6. /\ a \in Answer /\ a.what = Questions[n + 1]
      /\ Sees(s) /\ Extends(s, seen) /\ Len(s) = n + 1 /\ s[n + 1] = a
  BY <1>4, <1>5, SeesMore
<1>7. /\ b \in Answer /\ b.what = Questions[n + 2]
      /\ Sees(t) /\ Extends(t, s) /\ Len(t) = Len(s) + 1 /\ t[Len(s) + 1] = b
  <2>1. Sees(s) /\ rows \in Seq(Row) /\ epochs \in Seq(Written) /\ clock \in Nat /\ Questions[n + 2] \in Topic
    BY <1>4, <1>5, <1>6
  <2> HIDE DEF s
  <2> QED
    BY <2>1, SeesMore
<1> HIDE DEF a, b
<1>8. seen' = t
  <2>1. seen \in Seq(Answer) /\ a \in Answer /\ b \in Answer
    BY <1>5, <1>6, <1>7
  <2>2. seen \o <<a, b>> = Append(Append(seen, a), b)
    BY <2>1, TwoMore
  <2> QED
    BY <1>1, <2>2, Zenon DEF s, t
<1> HIDE DEF s, t
<1>9. Looked'
  BY <1>1, <1>7, <1>8 DEF Looked, Sees
<1>10. Journalled'
  BY <1>1 DEF Typed, Journalled
<1>11. Typed'
  BY <1>9, <1>10 DEF Typed
<1>12. /\ Len(t) = n + 2 /\ t[n + 1] = a /\ t[n + 2] = b
       /\ \A k \in 1..n : t[k] = seen[k]
  <2>1. Len(t) = n + 2 /\ t[n + 2] = b
    BY <1>2, <1>6, <1>7
  <2>2. ASSUME NEW k \in 1..(n + 1) PROVE t[k] = s[k]
    BY <1>2, <1>6, <1>7 DEF Extends
  <2>3. ASSUME NEW k \in 1..n PROVE s[k] = seen[k] /\ k \in 1..(n + 1)
    BY <1>2, <1>6 DEF Extends
  <2> QED
    BY <1>2, <1>6, <2>1, <2>2, <2>3
<1>13. Goes
  <2>1. Len(rows) <= Len(rows) /\ Len(made) <= Len(made) /\ Len(epochs) <= Len(epochs)
    BY <1>5
  <2> QED
    BY <1>1, <1>2, <1>8, <1>12, <2>1 DEF Goes, Extends
<1>14. Questions' = Questions
  <2>1. ~Eventful
    BY <1>1 DEF Eventful
  <2> QED
    BY <1>11, <1>13, <2>1, QuestionsStay
<1>15. ASSUME NEW k \in 1..(n + 2) PROVE t[k].what = Questions[k]
  <2>1. k \in 1..n \/ k = n + 1 \/ k = n + 2
    BY <1>2
  <2> QED
    BY <1>6, <1>7, <1>12, <2>1 DEF Scripted
<1> QED
  BY <1>3, <1>8, <1>11, <1>12, <1>13, <1>14, <1>15 DEF Scripted

\* What is on record grows, what was asked stays.
ReadersInv == Typed /\ Scripted

\* Nothing is on record and nothing was asked to begin with.
LEMMA ReadersInvInit == Init => ReadersInv
<1> SUFFICES ASSUME Init PROVE ReadersInv
  OBVIOUS
<1>1. Appended
  BY AppendedInit
<1>2. seen = <<>> /\ seen \in Seq(Answer) /\ Len(seen) = 0 /\ rows = <<>> /\ made = <<>> /\ clock = 0
  BY DEF Init
<1>3. Looked
  BY <1>2 DEF Looked
<1>4. /\ epochs \in Seq([config: Configs, at: Nat])
      /\ ask.journal <=> epochs # <<>>
      /\ \A j \in 1..Len(epochs) : epochs[j].at <= clock
      /\ \A j, k \in 1..Len(epochs) : j < k => epochs[j].at < epochs[k].at
  <2>1. CASE ask.journal
    <3>1. PICK c \in Configs : epochs = <<[config |-> c, at |-> 0]>>
      BY <2>1 DEF Init
    <3> DEFINE e == [config |-> c, at |-> 0]
    <3>2. e \in [config: Configs, at: Nat] /\ e.at = 0
      OBVIOUS
    <3> HIDE DEF e
    <3>3. epochs = <<e>>
      BY <3>1 DEF e
    <3>4. epochs \in Seq([config: Configs, at: Nat]) /\ Len(epochs) = 1 /\ epochs[1] = e /\ epochs # <<>>
      BY <3>2, <3>3
    <3> QED
      BY <1>2, <2>1, <3>2, <3>4
  <2>2. CASE ~ask.journal
    <3>1. epochs = <<>>
      BY <2>2 DEF Init
    <3> QED
      BY <2>2, <3>1
  <2> QED
    BY <2>1, <2>2
<1>5. Journalled
  BY <1>2, <1>4 DEF Journalled, Init
<1>6. Typed
  BY <1>1, <1>3, <1>5 DEF Typed
<1>7. Questions \in Seq(Topic)
  BY <1>6, QuestionsAre
<1>8. Scripted
  BY <1>2, <1>7 DEF Scripted
<1> QED
  BY <1>6, <1>8 DEF ReadersInv

\* Each step of the recorders keeps what the tool saw, each step of the tool keeps
\* to its script, and none takes anything back.
LEMMA ReadersInvNext ==
    ReadersInv /\ [Next]_vars => ReadersInv' /\ Goes
<1> SUFFICES ASSUME ReadersInv, [Next]_vars PROVE ReadersInv' /\ Goes
  OBVIOUS
<1>0. Typed /\ Scripted /\ Appended'
  BY AppendedNext DEF ReadersInv, Typed
<1>a. /\ rows \in Seq(Row) /\ epochs \in Seq(Written) /\ clock \in Nat /\ made \in Seq(Configs \cup {NoEpoch})
      /\ seen \in Seq(Answer)
  BY <1>0 DEF Typed, Journalled, Looked, Sees, Appended, Kept, Written
<1>b. Extends(rows, rows) /\ Extends(epochs, epochs) /\ Extends(made, made) /\ Extends(seen, seen)
  BY <1>a DEF Extends
<1>1. ASSUME Ask \/ CopyFails PROVE ReadersInv' /\ Goes
  BY <1>0, <1>1, AskNext, CopyFailsNext DEF ReadersInv
\* The record moves, the tool does not.
<1>2. ASSUME Journalled', Goes, seen' = seen, clock <= clock' PROVE ReadersInv' /\ Goes
  <2>1. rows' \in Seq(Row) /\ epochs' \in Seq(Written) /\ clock' \in Nat
        /\ Extends(rows', rows) /\ Extends(epochs', epochs)
    BY <1>0, <1>2 DEF Appended, Kept, Journalled, Written, Goes
  <2>2. Looked'
    BY <1>0, <1>2, <2>1, LookedLater
  <2>3. Typed'
    BY <1>0, <1>2, <2>2 DEF Typed
  <2>4. Scripted'
    BY <1>0, <1>2, <2>3, LookedStays
  <2> QED
    BY <1>2, <2>3, <2>4 DEF ReadersInv
<1>3. ASSUME NEW w \in Writers, Insert(w) PROVE ReadersInv' /\ Goes
  <2>1. Journalled' /\ Goes
    BY <1>0, <1>3, InsertJournalled
  <2>2. seen' = seen /\ clock <= clock'
    BY <1>3, <1>a DEF Insert
  <2> QED
    BY <1>2, <2>1, <2>2
<1>4. ASSUME NEW w \in Writers, NEW s \in Sensors, Read(w, s) PROVE ReadersInv' /\ Goes
  <2>1. Journalled'
    BY <1>0, <1>4, ReadJournalled
  <2>2. UNCHANGED <<rows, made, epochs, offset, ask, seen>>
    BY <1>4 DEF Read
  <2>3. Goes
    BY <1>b, <2>2 DEF Goes
  <2>4. clock <= clock'
    <3>1. PICK d \in Bounds[ask].steps : clock' = clock + d
      BY <1>4 DEF Read
    <3>2. d \in Nat
      BY <1>0, ReadersAssumption DEF Appended, Kept, Typed
    <3> QED
      BY <1>a, <3>1, <3>2
  <2> QED
    BY <1>2, <2>1, <2>2, <2>3, <2>4
<1>5. ASSUME NEW c \in Configs, Restart(c) PROVE ReadersInv' /\ Goes
  <2>1. Journalled' /\ Goes
    BY <1>0, <1>5, RestartJournalled
  <2>2. seen' = seen /\ clock <= clock'
    BY <1>5, <1>a DEF Restart
  <2> QED
    BY <1>2, <2>1, <2>2
<1>6. ASSUME NEW o \in Bounds[ask].offsets, ChangeOffset(o) PROVE ReadersInv' /\ Goes
  <2>1. offset' = o /\ UNCHANGED <<rows, made, epochs, clock, pending, told, ask, seen>>
    BY <1>6 DEF ChangeOffset
  <2>2. Goes
    BY <1>b, <2>1 DEF Goes
  <2>3. Journalled'
    BY <1>0, <2>1 DEF Typed, Journalled
  <2>4. clock <= clock'
    BY <1>a, <2>1
  <2> QED
    BY <1>2, <2>1, <2>2, <2>3, <2>4
<1>7. ASSUME UNCHANGED vars PROVE ReadersInv' /\ Goes
  <2>1. UNCHANGED <<rows, made, epochs, clock, offset, pending, told, ask, seen>>
    BY <1>7 DEF vars, record
  <2>2. Goes
    BY <1>b, <2>1 DEF Goes
  <2>3. Journalled'
    BY <1>0, <2>1 DEF Typed, Journalled
  <2>4. clock <= clock'
    BY <1>a, <2>1
  <2> QED
    BY <1>2, <2>1, <2>2, <2>3, <2>4
<1> QED
  BY <1>1, <1>3, <1>4, <1>5, <1>6, <1>7 DEF Next

\* The record is well formed, the statements saw growing beginnings of it and are
\* those the command line asks for, in their order (geopilot_report.py, main).
THEOREM ReadersInvAlways == Spec => []ReadersInv
<1>1. ReadersInv /\ [Next]_vars => ReadersInv'
  BY ReadersInvNext
<1> QED
  BY ReadersInvInit, <1>1, PTL DEF Spec

\* Every variable has its type.
THEOREM ReadersTypeCorrect == Spec => []TypeOK
<1>1. ReadersInv => TypeOK
  <2> SUFFICES ASSUME ReadersInv PROVE TypeOK
    OBVIOUS
  <2>0. Kept /\ Journalled /\ Looked
    BY DEF ReadersInv, Typed, Appended
  <2>1. rows \in Seq(Row) /\ pending \in [Writers -> Row \cup {None}]
    BY <2>0 DEF Kept
  <2>2. made \in Seq(Configs \cup {NoEpoch}) /\ Len(made) = Len(rows) /\ clock \in Nat
        /\ offset \in Bounds[ask].offsets
    BY <2>0 DEF Journalled
  <2>3. epochs \in Seq(Epoch)
    <3>1. epochs \in Seq(Written)
      BY <2>0 DEF Journalled, Written
    <3>2. Written \subseteq Epoch
      BY DEF Written, Epoch
    <3> QED
      BY <3>1, <3>2
  <2>4. ASSUME NEW w \in Writers, told[w] # None
        PROVE  /\ told[w].how \in {"stored", "known", "conflict", "integrity"}
               /\ told[w].row \in Row
    BY <2>0, <2>4 DEF Kept, Told
  <2>5. ASSUME NEW k \in DOMAIN seen
        PROVE  /\ seen[k].rows \in 0..Len(rows) /\ seen[k].epochs \in 0..Len(epochs)
               /\ seen[k].at \in 0..clock /\ seen[k].ok \in BOOLEAN
    <3>1. k \in 1..Len(seen) /\ seen[k] \in Answer
      BY <2>0, <2>5 DEF Looked
    <3>2. seen[k].rows \in Nat /\ seen[k].epochs \in Nat /\ seen[k].at \in Nat /\ seen[k].ok \in BOOLEAN
      BY <3>1 DEF Answer
    <3>3. Len(rows) \in Nat /\ Len(epochs) \in Nat
      BY <2>1, <2>3
    <3>4. seen[k].rows <= Len(rows) /\ seen[k].epochs <= Len(epochs) /\ seen[k].at <= clock
      BY <2>0, <3>1 DEF Looked
    <3> QED
      BY <2>2, <3>2, <3>3, <3>4
  <2> QED
    BY <2>1, <2>2, <2>3, <2>4, <2>5 DEF TypeOK
<1> QED
  BY ReadersInvAlways, <1>1, PTL

-------------------------------------------------------------------------------
(***************************************************************************)
(* Rows and the configurations they were made under.                       *)
(***************************************************************************)

\* The epoch at place j is the one in effect at an instant.
InEffect(journal, j, t) ==
    /\ j \in 1..Len(journal) /\ journal[j].at <= t
    /\ \A k \in 1..Len(journal) : j < k => t < journal[k].at

\* A row was made under the epoch in effect at its instant; one that is still to
\* be inserted is not older than any epoch; what a statement has not seen of the
\* journal is later than all that it, or one before it, has seen of the record.
Attributed ==
    /\ epochs # <<>> => \A i \in 1..Len(rows) :
          \E j \in 1..Len(epochs) : InEffect(epochs, j, rows[i].at) /\ epochs[j].config = made[i]
    /\ \A w \in Writers : pending[w] # None =>
          \A j \in 1..Len(epochs) : epochs[j].at <= pending[w].at
    /\ \A k \in 1..Len(seen) : \A i \in 1..Len(rows) : i <= seen[k].rows => rows[i].at <= seen[k].at
    /\ \A k \in 1..Len(seen) : \A j \in 1..Len(epochs) :
          seen[k].epochs < j => seen[k].at < epochs[j].at

\* What is asked now sees all there is.
LEMMA SeenNow ==
    ASSUME Typed, Scripted, Ask \/ CopyFails, NEW k \in 1..Len(seen'), k > Len(seen), seen' \in Seq(Answer)
    PROVE  seen'[k].rows = Len(rows) /\ seen'[k].epochs = Len(epochs) /\ seen'[k].at = clock
<1> DEFINE n == Len(seen)
<1>0. seen \in Seq(Answer) /\ n \in Nat /\ Len(seen') \in Nat
  BY DEF Typed, Looked
<1>1. CASE Ask
  <2> DEFINE a == Statement(Questions[n + 1], TRUE)
  <2>1. seen' = Append(seen, a) /\ a.rows = Len(rows) /\ a.epochs = Len(epochs) /\ a.at = clock
    BY <1>1 DEF Ask, Statement
  <2> HIDE DEF a
  <2>2. Len(seen') = n + 1 /\ seen'[n + 1] = a
    BY <1>0, <2>1
  <2>3. k = n + 1
    BY <1>0, <2>2
  <2> QED
    BY <2>1, <2>2, <2>3
<1>2. CASE CopyFails
  <2> DEFINE a == Statement(Questions[n + 1], FALSE)
             b == Statement(Questions[n + 2], FALSE)
             t == <<a, b>>
  <2>1. /\ seen' = seen \o t
        /\ a.rows = Len(rows) /\ a.epochs = Len(epochs) /\ a.at = clock
        /\ b.rows = Len(rows) /\ b.epochs = Len(epochs) /\ b.at = clock
    BY <1>2 DEF CopyFails, Statement
  <2> HIDE DEF a, b
  <2>2. Len(t) = 2 /\ t[1] = a /\ t[2] = b
    OBVIOUS
  <2>3. t \in Seq({a, b} \cup Answer) /\ seen \in Seq({a, b} \cup Answer)
    BY <1>0
  <2> HIDE DEF t
  <2>4. Len(seen') = n + Len(t) /\ \A i \in 1..Len(t) : seen'[n + i] = t[i]
    BY <2>1, <2>3, Joined
  <2>5. Len(seen') = n + 2 /\ seen'[n + 1] = a /\ seen'[n + 2] = b
    BY <2>2, <2>4
  <2>6. k = n + 1 \/ k = n + 2
    BY <1>0, <2>5
  <2> QED
    BY <2>1, <2>5, <2>6
<1> QED
  BY <1>1, <1>2

\* There is no row to attribute to begin with.
LEMMA AttributedInit == Init => Attributed
<1> SUFFICES ASSUME Init PROVE Attributed
  OBVIOUS
<1>1. rows = <<>> /\ seen = <<>> /\ pending = [w \in Writers |-> None]
  BY DEF Init
<1> QED
  BY <1>1 DEF Attributed

\* Types of what is on record.
LEMMA RecordIs ==
    ASSUME Typed
    PROVE  /\ rows \in Seq(Row) /\ epochs \in Seq(Written) /\ seen \in Seq(Answer) /\ clock \in Nat
           /\ Len(rows) \in Nat /\ Len(epochs) \in Nat /\ Len(seen) \in Nat
           /\ \A i \in 1..Len(rows) : rows[i].at \in Int /\ rows[i].at <= clock
           /\ \A j \in 1..Len(epochs) : epochs[j].at \in Nat /\ epochs[j].at <= clock
           /\ \A k \in 1..Len(seen) : seen[k].rows \in Nat /\ seen[k].epochs \in Nat /\ seen[k].at \in Nat
           /\ \A k \in 1..Len(seen) : seen[k].at <= clock /\ seen[k].rows <= Len(rows)
                                      /\ seen[k].epochs <= Len(epochs)
           /\ \A w \in Writers : pending[w] # None => pending[w].at \in Int /\ pending[w] \in Row
<1>1. /\ rows \in Seq(Row) /\ epochs \in Seq(Written) /\ seen \in Seq(Answer) /\ clock \in Nat
      /\ \A i \in 1..Len(rows) : rows[i].at <= clock
  BY DEF Typed, Journalled, Looked, Appended, Kept, Written
<1>2. \A i \in 1..Len(rows) : rows[i] \in Row
  BY <1>1
<1>3. \A j \in 1..Len(epochs) : epochs[j].at \in Nat /\ epochs[j].at <= clock
  BY EpochIs DEF Typed
<1>4. \A k \in 1..Len(seen) : seen[k] \in Answer
  BY <1>1
<1>5. \A w \in Writers : pending[w] # None => pending[w] \in Row
  BY DEF Typed, Appended, Kept, Proper
<1>6. \A k \in 1..Len(seen) : seen[k].at <= clock /\ seen[k].rows <= Len(rows)
                               /\ seen[k].epochs <= Len(epochs)
  BY DEF Typed, Looked
<1>7. Len(rows) \in Nat /\ Len(epochs) \in Nat /\ Len(seen) \in Nat
  BY <1>1
<1>8. \A i \in 1..Len(rows) : rows[i].at \in Int
  BY <1>2 DEF Row
<1>9. \A k \in 1..Len(seen) : seen[k].rows \in Nat /\ seen[k].epochs \in Nat /\ seen[k].at \in Nat
  BY <1>4 DEF Answer
<1>10. \A w \in Writers : pending[w] # None => pending[w].at \in Int
  BY <1>5 DEF Row
<1> QED
  BY <1>1, <1>3, <1>5, <1>6, <1>7, <1>8, <1>9, <1>10

\* A row is inserted under the configuration that is in effect, and a restart waits
\* for the rows that are under way.
LEMMA AttributedNext ==
    ReadersInv /\ ReadersInv' /\ Goes /\ Attributed /\ [Next]_vars => Attributed'
<1> SUFFICES ASSUME ReadersInv, ReadersInv', Goes, Attributed, [Next]_vars PROVE Attributed'
  OBVIOUS
<1>0. Typed /\ Typed' /\ Scripted
  BY DEF ReadersInv
<1>a. /\ rows \in Seq(Row) /\ epochs \in Seq(Written) /\ seen \in Seq(Answer) /\ clock \in Nat
      /\ Len(rows) \in Nat /\ Len(epochs) \in Nat /\ Len(seen) \in Nat
      /\ \A i \in 1..Len(rows) : rows[i].at \in Int /\ rows[i].at <= clock
      /\ \A j \in 1..Len(epochs) : epochs[j].at \in Nat /\ epochs[j].at <= clock
      /\ \A k \in 1..Len(seen) : seen[k].rows \in Nat /\ seen[k].epochs \in Nat /\ seen[k].at \in Nat
      /\ \A k \in 1..Len(seen) : seen[k].at <= clock /\ seen[k].rows <= Len(rows)
                                 /\ seen[k].epochs <= Len(epochs)
      /\ \A w \in Writers : pending[w] # None => pending[w].at \in Int /\ pending[w] \in Row
  BY <1>0, RecordIs
<1>b. seen' \in Seq(Answer) /\ Extends(seen', seen) /\ Len(seen') \in Nat
  BY <1>0 DEF Typed, Looked, Goes
<1>1. ASSUME Ask \/ CopyFails PROVE Attributed'
  <2>1. UNCHANGED <<rows, made, epochs, pending>>
    BY <1>1 DEF Ask, CopyFails, record
  <2>2. ASSUME NEW k \in 1..Len(seen')
        PROVE  /\ \A i \in 1..Len(rows) : i <= seen'[k].rows => rows[i].at <= seen'[k].at
               /\ \A j \in 1..Len(epochs) : seen'[k].epochs < j => seen'[k].at < epochs[j].at
    <3>1. CASE k <= Len(seen)
      <4>1. k \in 1..Len(seen) /\ seen'[k] = seen[k]
        BY <1>a, <1>b, <3>1 DEF Extends
      <4> QED
        BY <4>1 DEF Attributed
    <3>2. CASE k > Len(seen)
      <4>1. seen'[k].rows = Len(rows) /\ seen'[k].epochs = Len(epochs) /\ seen'[k].at = clock
        BY <1>0, <1>1, <1>b, <3>2, SeenNow
      <4> QED
        BY <1>a, <4>1
    <3> QED
      BY <1>a, <1>b, <3>1, <3>2
  <2> QED
    BY <2>1, <2>2 DEF Attributed, InEffect
<1>2. ASSUME NEW w \in Writers, Insert(w) PROVE Attributed'
  <2> DEFINE m == pending[w]
             n == Len(rows)
  <2>1. /\ m # None /\ UNCHANGED <<epochs, clock, seen>>
        /\ pending' = [pending EXCEPT ![w] = None]
    BY <1>2 DEF Insert
  <2>2. \A u \in Writers : pending'[u] # None => pending'[u] = pending[u]
    BY <1>0, <2>1 DEF Typed, Appended, Kept
  <2>3. CASE Fetch(rows, m) # {}
    <3>1. UNCHANGED <<rows, made>>
      BY <1>2, <2>3 DEF Insert
    <3> QED
      BY <2>1, <2>2, <3>1 DEF Attributed, InEffect
  <2>4. CASE Fetch(rows, m) = {}
    <3>1. rows' = Append(rows, m) /\ made' = Append(made, Running)
      BY <1>2, <2>4 DEF Insert
    <3>2. Len(rows') = n + 1 /\ rows'[n + 1] = m /\ \A i \in 1..n : rows'[i] = rows[i]
      BY <1>a, <3>1, <2>1
    <3>3. made \in Seq(Configs \cup {NoEpoch}) /\ Len(made) = n /\ Running \in Configs \cup {NoEpoch}
      BY <1>0, RunningIs DEF Typed, Journalled
    <3>4. made'[n + 1] = Running /\ \A i \in 1..n : made'[i] = made[i]
      BY <1>a, <3>1, <3>3
    <3>5. ASSUME epochs # <<>>, NEW i \in 1..Len(rows')
          PROVE  \E j \in 1..Len(epochs) :
                    InEffect(epochs, j, rows'[i].at) /\ epochs[j].config = made'[i]
      <4>1. CASE i = n + 1
        <5>1. Len(epochs) \in 1..Len(epochs)
          BY <1>a, <3>5
        <5>2. \A j \in 1..Len(epochs) : epochs[j].at <= m.at
          BY <2>1 DEF Attributed
        <5>3. InEffect(epochs, Len(epochs), m.at)
          BY <1>a, <5>1, <5>2 DEF InEffect
        <5>4. Running = epochs[Len(epochs)].config
          BY <3>5 DEF Running
        <5> QED
          BY <3>2, <3>4, <4>1, <5>1, <5>3, <5>4
      <4>2. CASE i # n + 1
        <5>1. i \in 1..n /\ rows'[i] = rows[i] /\ made'[i] = made[i]
          BY <1>a, <3>2, <3>4, <4>2
        <5> QED
          BY <3>5, <5>1 DEF Attributed
      <4> QED
        BY <4>1, <4>2
    <3>6. ASSUME NEW k \in 1..Len(seen), NEW i \in 1..Len(rows'), i <= seen[k].rows
          PROVE  rows'[i].at <= seen[k].at
      <4>1. i \in 1..n /\ rows'[i] = rows[i]
        BY <1>a, <3>2, <3>6
      <4> QED
        BY <3>6, <4>1 DEF Attributed
    <3>7. /\ epochs' = epochs /\ seen' = seen
          /\ \A u \in Writers : pending'[u] # None =>
                \A j \in 1..Len(epochs) : epochs[j].at <= pending'[u].at
      BY <2>1, <2>2 DEF Attributed
    <3>8. \A k \in 1..Len(seen) : \A j \in 1..Len(epochs) :
             seen[k].epochs < j => seen[k].at < epochs[j].at
      BY DEF Attributed
    <3> QED
      BY <3>5, <3>6, <3>7, <3>8 DEF Attributed, InEffect
  <2> QED
    BY <2>3, <2>4
<1>3. ASSUME NEW w \in Writers, NEW s \in Sensors, Read(w, s) PROVE Attributed'
  <2>1. PICK d \in Bounds[ask].steps, v \in Readings(s) :
           clock' = clock + d /\ LookUp(w, Measured(s, clock + d, v))
    BY <1>3 DEF Read
  <2>2. d \in Nat
    BY <1>0, <2>1, ReadersAssumption DEF Typed, Appended, Kept
  <2>3. UNCHANGED <<rows, made, epochs, seen>>
    BY <1>3 DEF Read
  <2> DEFINE m == Measured(s, clock + d, v)
  <2>4. m.at = clock + d
    BY DEF Measured
  <2> HIDE DEF m
  <2>5. pending' = pending \/ pending' = [pending EXCEPT ![w] = m]
    BY <2>1 DEF LookUp, m
  <2>6. ASSUME NEW u \in Writers, pending'[u] # None, NEW j \in 1..Len(epochs)
        PROVE  epochs[j].at <= pending'[u].at
    <3>1. CASE pending'[u] = m
      BY <1>a, <2>2, <2>4, <3>1
    <3>2. CASE pending'[u] = pending[u]
      BY <2>6, <3>2 DEF Attributed
    <3> QED
      BY <1>0, <2>5, <3>1, <3>2 DEF Typed, Appended, Kept
  <2> QED
    BY <2>3, <2>6 DEF Attributed, InEffect
<1>4. ASSUME NEW c \in Configs, Restart(c) PROVE Attributed'
  <2> DEFINE e == [config |-> c, at |-> clock + 1]
             n == Len(epochs)
  <2>1. /\ UNCHANGED <<rows, made, pending, seen>> /\ epochs' = Append(epochs, e)
        /\ epochs # <<>> /\ \A w \in Writers : pending[w] = None
    BY <1>4 DEF Restart
  <2>2. e.at = clock + 1
    OBVIOUS
  <2> HIDE DEF e
  <2>3. /\ Len(epochs') = n + 1 /\ epochs'[n + 1] = e
        /\ \A j \in 1..n : epochs'[j] = epochs[j]
    BY <1>a, <2>1
  <2>4. ASSUME NEW i \in 1..Len(rows)
        PROVE  \E j \in 1..Len(epochs') :
                  InEffect(epochs', j, rows[i].at) /\ epochs'[j].config = made[i]
    <3>1. PICK j \in 1..n : InEffect(epochs, j, rows[i].at) /\ epochs[j].config = made[i]
      BY <2>1 DEF Attributed
    <3>2. \A k \in 1..(n + 1) : j < k => rows[i].at < epochs'[k].at
      <4> TAKE k \in 1..(n + 1)
      <4>0. n \in Nat
        BY <1>a
      <4>1. k \in 1..n \/ k = n + 1
        BY <4>0
      <4>2. rows[i].at < clock + 1
        BY <1>a
      <4> QED
        BY <2>2, <2>3, <3>1, <4>1, <4>2 DEF InEffect
    <3>3. j \in 1..Len(epochs') /\ epochs'[j] = epochs[j]
      BY <1>a, <2>3
    <3> QED
      BY <2>3, <3>1, <3>2, <3>3 DEF InEffect
  <2>5. ASSUME NEW k \in 1..Len(seen), NEW j \in 1..Len(epochs'), seen[k].epochs < j
        PROVE  seen[k].at < epochs'[j].at
    <3>1. j \in 1..n \/ j = n + 1
      BY <1>a, <2>3
    <3>2. seen[k].at < clock + 1
      BY <1>a
    <3> QED
      BY <2>2, <2>3, <2>5, <3>1, <3>2 DEF Attributed
  <2>6. \A k \in 1..Len(seen) : \A i \in 1..Len(rows) : i <= seen[k].rows => rows[i].at <= seen[k].at
    BY DEF Attributed
  <2> QED
    BY <2>1, <2>4, <2>5, <2>6 DEF Attributed
<1>5. ASSUME NEW o \in Bounds[ask].offsets, ChangeOffset(o) PROVE Attributed'
  BY <1>5 DEF ChangeOffset, Attributed, InEffect
<1>6. ASSUME UNCHANGED vars PROVE Attributed'
  BY <1>6 DEF vars, record, Attributed, InEffect
<1> QED
  BY <1>1, <1>2, <1>3, <1>4, <1>5, <1>6 DEF Next

\* Every row was made under the configuration the journal has in effect at its
\* instant, and what a statement has not seen of the journal is later than it.
THEOREM AttributedAlways == Spec => [](ReadersInv /\ Attributed)
<1>1. ReadersInv /\ Attributed /\ [Next]_vars => ReadersInv' /\ Attributed'
  BY ReadersInvNext, AttributedNext
<1> QED
  BY ReadersInvInit, AttributedInit, <1>1, PTL DEF Spec

-------------------------------------------------------------------------------
(***************************************************************************)
(* Backups.                                                                *)
(***************************************************************************)

\* What a backup that is done has asked.
BackedUp ==
    LET db == "database" \in ask.present  pv == "provenance" \in ask.present IN
    /\ seen \in Seq(Answer)
    /\ Answered("copy_rows") <=> db
    /\ Answered("copy_epochs") <=> pv
    /\ db /\ pv => Place("copy_rows") <= Place("copy_epochs")
    /\ ask.present \in SUBSET {"database", "provenance"}

\* A backup that is done has copied and counted each file that is there.
LEMMA BackupAsks ==
    ASSUME ReadersInv, ask.tool = "backup", Done
    PROVE  BackedUp
<1> DEFINE db == "database" \in ask.present
           pv == "provenance" \in ask.present
<1>0. Typed /\ seen \in Seq(Answer) /\ DOMAIN seen = 1..Len(seen)
  BY DEF ReadersInv, Typed, Looked
<1>1. Questions = Backup(ask) /\ \A k \in 1..Len(seen) : seen[k].what = Questions[k]
      /\ Len(seen) <= Len(Questions)
  BY DEF Questions, ReadersInv, Scripted
<1>2. Len(seen) = Len(Questions)
  <2> SUFFICES ASSUME Refused PROVE FALSE
    BY DEF Done
  <2>1. PICK k \in 1..Len(seen) : seen[k].what \in {"check", "earliest"}
    BY <1>0 DEF Refused, RefusedAtFirst, Answered
  <2>2. Questions[k] \in {"check", "earliest"} /\ k \in 1..Len(Questions)
    BY <1>0, <1>1, <2>1, QuestionsAre
  <2>3. Questions \in {<<"copy_rows", "count_rows", "copy_epochs", "count_epochs">>,
                       <<"copy_rows", "count_rows">>, <<"copy_epochs", "count_epochs">>, <<>>}
    BY <1>1, BackupIs
  <2>4. CASE Questions = <<"copy_rows", "count_rows", "copy_epochs", "count_epochs">>
    <3>1. k \in 1..4
      BY <2>2, <2>4
    <3> QED
      BY <2>2, <2>4, <3>1
  <2>5. CASE Questions = <<"copy_rows", "count_rows">>
    <3>1. k \in 1..2
      BY <2>2, <2>5
    <3> QED
      BY <2>2, <2>5, <3>1
  <2>6. CASE Questions = <<"copy_epochs", "count_epochs">>
    <3>1. k \in 1..2
      BY <2>2, <2>6
    <3> QED
      BY <2>2, <2>6, <3>1
  <2>7. CASE Questions = <<>>
    BY <2>2, <2>7
  <2> QED
    BY <2>3, <2>4, <2>5, <2>6, <2>7
<1>3. ask.present \in SUBSET {"database", "provenance"}
  BY <1>0, AskIs DEF CommandLine
<1>4. CASE db /\ pv
  <2>1. Questions = <<"copy_rows", "count_rows", "copy_epochs", "count_epochs">>
    BY <1>1, <1>4, BackupIs
  <2>2. /\ Len(seen) = 4 /\ seen[1].what = "copy_rows" /\ seen[2].what = "count_rows"
        /\ seen[3].what = "copy_epochs" /\ seen[4].what = "count_epochs"
    BY <1>1, <1>2, <2>1
  <2>3. Answered("copy_rows") /\ Answered("copy_epochs")
    BY <1>0, <2>2 DEF Answered
  <2>4. /\ Place("copy_rows") \in 1..Len(seen) /\ Place("copy_rows") <= 1
        /\ Place("copy_epochs") \in 1..Len(seen)
    BY <1>0, <2>2, <2>3, PlaceIs
  <2> QED
    BY <1>0, <1>3, <1>4, <2>2, <2>3, <2>4 DEF BackedUp
<1>5. CASE db /\ ~pv
  <2>1. Questions = <<"copy_rows", "count_rows">>
    BY <1>1, <1>5, BackupIs
  <2>2. Len(seen) = 2 /\ seen[1].what = "copy_rows" /\ seen[2].what = "count_rows"
    BY <1>1, <1>2, <2>1
  <2>3. Answered("copy_rows") /\ ~Answered("copy_epochs")
    BY <1>0, <2>2 DEF Answered
  <2> QED
    BY <1>0, <1>3, <1>5, <2>3 DEF BackedUp
<1>6. CASE ~db /\ pv
  <2>1. Questions = <<"copy_epochs", "count_epochs">>
    BY <1>1, <1>6, BackupIs
  <2>2. Len(seen) = 2 /\ seen[1].what = "copy_epochs" /\ seen[2].what = "count_epochs"
    BY <1>1, <1>2, <2>1
  <2>3. ~Answered("copy_rows") /\ Answered("copy_epochs")
    BY <1>0, <2>2 DEF Answered
  <2> QED
    BY <1>0, <1>3, <1>6, <2>3 DEF BackedUp
<1>7. CASE ~db /\ ~pv
  <2>1. Questions = <<>>
    BY <1>1, <1>7, BackupIs
  <2>2. Len(seen) = 0
    BY <1>1, <1>2, <2>1
  <2>3. ~Answered("copy_rows") /\ ~Answered("copy_epochs")
    BY <1>0, <2>2 DEF Answered
  <2> QED
    BY <1>0, <1>3, <1>7, <2>3 DEF BackedUp
<1> QED
  BY <1>4, <1>5, <1>6, <1>7

\* Two are as many as two.
LEMMA Pair ==
    ASSUME NEW a, NEW b, a # b
    PROVE  Cardinality({a, b}) = 2
<1>1. IsFiniteSet({a}) /\ Cardinality({a}) = 1 /\ b \notin {a}
  BY FS_Singleton
<1>2. Cardinality({a} \cup {b}) = Cardinality({a}) + 1
  BY <1>1, FS_AddElement
<1>3. {a} \cup {b} = {a, b}
  OBVIOUS
<1> QED
  BY <1>1, <1>2, <1>3

\* Zero means everything that is there, and no file at all is the only other way
\* to a clean end.
LEMMA BackupIsTrue == ReadersInv => BackupTellsTheTruth
<1> SUFFICES ASSUME ReadersInv, ask.tool = "backup", Done
             PROVE  /\ BackupExit = "ok" =>
                          /\ Cardinality(Copied) = Cardinality(ask.present)
                          /\ "copy_rows" \in Copied => Size("copy_rows") >= seen[1].rows
                          /\ "copy_epochs" \in Copied => Size("copy_epochs") >= seen[1].epochs
                    /\ BackupExit = "usage" <=> ask.present = {}
  BY DEF BackupTellsTheTruth
<1> DEFINE db == "database" \in ask.present
           pv == "provenance" \in ask.present
<1>0. Typed
  BY DEF ReadersInv
<1>1. /\ seen \in Seq(Answer)
      /\ Answered("copy_rows") <=> db
      /\ Answered("copy_epochs") <=> pv
      /\ ask.present \in SUBSET {"database", "provenance"}
  BY BackupAsks DEF BackedUp
<1>2. BackupExit # "unverified" <=> Failures = {}
  BY DEF BackupExit
<1>3. ASSUME Failures = {} PROVE Copied = Copies
  BY <1>3 DEF Failures, Copied
<1>4. Copied \subseteq Copies
  BY DEF Copied
<1>5. "copy_rows" \in Copies <=> db
  BY <1>1 DEF Copies
<1>6. "copy_epochs" \in Copies <=> pv
  BY <1>1 DEF Copies
<1>7. Copies \subseteq {"copy_rows", "copy_epochs"}
  BY DEF Copies
<1>8. Cardinality(Copies) = Cardinality(ask.present)
  <2>1. CASE db /\ pv
    <3>1. Copies = {"copy_rows", "copy_epochs"} /\ ask.present = {"database", "provenance"}
      BY <1>1, <1>5, <1>6, <1>7, <2>1
    <3> QED
      BY <3>1, Pair
  <2>2. CASE db /\ ~pv
    <3>1. Copies = {"copy_rows"} /\ ask.present = {"database"}
      BY <1>1, <1>5, <1>6, <1>7, <2>2
    <3> QED
      BY <3>1, FS_Singleton
  <2>3. CASE ~db /\ pv
    <3>1. Copies = {"copy_epochs"} /\ ask.present = {"provenance"}
      BY <1>1, <1>5, <1>6, <1>7, <2>3
    <3> QED
      BY <3>1, FS_Singleton
  <2>4. CASE ~db /\ ~pv
    <3>1. Copies = {} /\ ask.present = {}
      BY <1>1, <1>5, <1>6, <1>7, <2>4
    <3> QED
      BY <3>1, Zenon
  <2> QED
    BY <2>1, <2>2, <2>3, <2>4
<1>9. ASSUME NEW t \in Copies
      PROVE  seen[Place(t)].rows >= seen[1].rows /\ seen[Place(t)].epochs >= seen[1].epochs
  <2>1. Answered(t)
    BY DEF Copies
  <2>2. Place(t) \in 1..Len(seen)
    BY <1>0, <2>1, PlaceIs
  <2>3. Len(seen) \in Nat
    BY <1>1
  <2>4. 1 \in 1..Len(seen) /\ (1 < Place(t) \/ Place(t) = 1)
    BY <2>2, <2>3
  <2>5. seen[1] \in Answer /\ seen[Place(t)] \in Answer
    BY <1>1, <2>2, <2>4
  <2>6. 1 < Place(t) => seen[1].rows <= seen[Place(t)].rows /\ seen[1].epochs <= seen[Place(t)].epochs
    BY <1>0, <2>2, <2>4 DEF Typed, Looked
  <2> QED
    BY <2>4, <2>5, <2>6 DEF Answer
<1>10. "copy_rows" \in Copied => Size("copy_rows") >= seen[1].rows
  BY <1>4, <1>9 DEF Size
<1>11. "copy_epochs" \in Copied => Size("copy_epochs") >= seen[1].epochs
  <2>1. Size("copy_epochs") = seen[Place("copy_epochs")].epochs
    BY DEF Size
  <2> QED
    BY <1>4, <1>9, <2>1
<1>12. ask.present = {} <=> ~db /\ ~pv
  BY <1>1
<1>13. Copies = {} <=> ~db /\ ~pv
  BY <1>5, <1>6, <1>7
<1>14. BackupExit = "usage" <=> Failures = {} /\ Copied = {}
  BY DEF BackupExit
<1>15. Copies = {} => Failures = {}
  BY DEF Failures
<1>16. BackupExit = "usage" <=> ask.present = {}
  BY <1>3, <1>4, <1>12, <1>13, <1>14, <1>15
<1>17. BackupExit = "ok" => Cardinality(Copied) = Cardinality(ask.present)
  BY <1>2, <1>3, <1>8
<1> QED
  BY <1>10, <1>11, <1>16, <1>17

\* The epochs seen at or before an instant by one who saw them all till then.
LEMMA NamesIs ==
    ASSUME NEW journal \in Seq(Written), NEW n \in 0..Len(journal), NEW t \in Int, NEW j,
           InEffect(journal, j, t), \A k \in 1..Len(journal) : n < k => t < journal[k].at
    PROVE  Names(SubSeq(journal, 1, n), t, journal[j].config)
<1> DEFINE seq == SubSeq(journal, 1, n)
           R == {i \in DOMAIN seq : seq[i].at <= t}
           last == CHOOSE i \in R : \A k \in R : k <= i
<1>1. seq \in Seq(Written) /\ Len(seq) = n /\ DOMAIN seq = 1..n /\ \A i \in 1..n : seq[i] = journal[i]
  OBVIOUS
<1>2. n \in Nat /\ Len(journal) \in Nat /\ n <= Len(journal)
  OBVIOUS
<1>3. \A k \in 1..Len(journal) : journal[k].at \in Nat
  <2>1. \A k \in 1..Len(journal) : journal[k] \in Written
    OBVIOUS
  <2> QED
    BY <2>1 DEF Written
<1>4. j \in 1..Len(journal) /\ journal[j].at <= t /\ \A k \in 1..Len(journal) : j < k => t < journal[k].at
  BY DEF InEffect
<1> HIDE DEF seq
<1>5. j \in 1..n
  <2>1. ~(n < j)
    BY <1>3, <1>4
  <2> QED
    BY <1>2, <1>4, <2>1
<1>6. j \in R
  BY <1>1, <1>4, <1>5
<1>7. \A k \in R : k <= j
  <2> SUFFICES ASSUME NEW k \in R, ~(k <= j) PROVE FALSE
    OBVIOUS
  <2>1. k \in 1..n /\ journal[k].at <= t
    BY <1>1
  <2>2. k \in 1..Len(journal) /\ j < k
    BY <1>2, <1>4, <2>1
  <2> QED
    BY <1>3, <1>4, <2>1, <2>2
<1>8. last \in R /\ \A k \in R : k <= last
  BY <1>6, <1>7
<1>9. last = j
  <2>1. last \in 1..n /\ j <= last /\ last <= j
    BY <1>1, <1>6, <1>7, <1>8
  <2> HIDE DEF last, R
  <2> QED
    BY <1>2, <1>5, <2>1
<1>10. Reached(seq, t) = R
  BY DEF Reached
<1>11. EpochAt(seq, t) = seq[last]
  BY <1>6, <1>10 DEF EpochAt
<1>12. EpochAt(seq, t) = journal[j]
  BY <1>1, <1>5, <1>9, <1>11
<1> QED
  BY <1>6, <1>10, <1>12 DEF Names, seq

\* What is verified can be read together.
LEMMA SetHangsTogether == ReadersInv /\ Attributed => VerifiedSetHangsTogether
<1> SUFFICES ASSUME ReadersInv, Attributed, ask.tool = "backup", Done,
                    Copied = {"copy_rows", "copy_epochs"},
                    NEW i \in 1..Size("copy_rows")
             PROVE  Names(SubSeq(epochs, 1, Size("copy_epochs")), rows[i].at, made[i])
  BY DEF VerifiedSetHangsTogether
<1> DEFINE p == Place("copy_rows")
           q == Place("copy_epochs")
           n == seen[q].epochs
<1>0. Typed
  BY DEF ReadersInv
<1>1. Answered("copy_rows") /\ Answered("copy_epochs")
  BY DEF Copied, Copies
<1>2. p <= q /\ p \in 1..Len(seen) /\ q \in 1..Len(seen) /\ "provenance" \in ask.present
  BY <1>0, <1>1, BackupAsks, PlaceIs DEF BackedUp
<1>3. Size("copy_rows") = seen[p].rows /\ Size("copy_epochs") = n
  BY DEF Size
<1>4. /\ epochs \in Seq(Written) /\ Len(epochs) \in Nat /\ Len(rows) \in Nat /\ Len(seen) \in Nat
      /\ \A k \in 1..Len(seen) : seen[k].rows \in Nat /\ seen[k].epochs \in Nat /\ seen[k].at \in Nat
      /\ \A k \in 1..Len(seen) : seen[k].rows <= Len(rows) /\ seen[k].epochs <= Len(epochs)
      /\ \A k \in 1..Len(rows) : rows[k].at \in Int
      /\ \A k \in 1..Len(epochs) : epochs[k].at \in Nat
  BY <1>0, RecordIs
<1>5. i \in 1..Len(rows) /\ n \in 0..Len(epochs) /\ i <= seen[p].rows
  BY <1>2, <1>3, <1>4
<1>6. rows[i].at <= seen[q].at
  <2>1. rows[i].at <= seen[p].at
    BY <1>2, <1>5 DEF Attributed
  <2>2. seen[p].at <= seen[q].at
    BY <1>0, <1>2, <1>4 DEF Typed, Looked
  <2> QED
    BY <1>2, <1>4, <1>5, <2>1, <2>2
<1>7. ASSUME NEW k \in 1..Len(epochs), n < k PROVE rows[i].at < epochs[k].at
  <2>1. seen[q].at < epochs[k].at
    BY <1>2, <1>7 DEF Attributed
  <2> QED
    BY <1>2, <1>4, <1>5, <1>6, <2>1
<1>8. epochs # <<>>
  <2>1. ask \in Asks
    BY <1>0, AskIs
  <2>2. ask.journal
    BY <1>2, <2>1, ReadersAssumption
  <2> QED
    BY <1>0, <2>2 DEF Typed, Journalled
<1>9. PICK j \in 1..Len(epochs) : InEffect(epochs, j, rows[i].at) /\ epochs[j].config = made[i]
  BY <1>5, <1>8 DEF Attributed
<1>10. Names(SubSeq(epochs, 1, n), rows[i].at, epochs[j].config)
  <2>1. rows[i].at \in Int /\ epochs \in Seq(Written) /\ n \in 0..Len(epochs)
    BY <1>4, <1>5
  <2> HIDE DEF n
  <2> QED
    BY <1>7, <1>9, <2>1, NamesIs
<1> QED
  BY <1>3, <1>9, <1>10

\* The exit code of a backup says what is in the copies, whatever is recorded while
\* they are made (geopilot_backup.py:198).
THEOREM BackupTellsTheTruthAlways == Spec => []BackupTellsTheTruth
  BY ReadersInvAlways, BackupIsTrue, PTL

\* A journal and a record the tool calls good belong to each other, although they
\* are copied one after the other (geopilot_backup.py:157).
THEOREM VerifiedSetHangsTogetherAlways == Spec => []VerifiedSetHangsTogether
  BY AttributedAlways, SetHangsTogether, PTL

-------------------------------------------------------------------------------
(***************************************************************************)
(* Reports that are finished.                                              *)
(***************************************************************************)

\* A report that is finished has an answer to all it asks.
LEMMA AllAnswered ==
    ASSUME ReadersInv, ask.tool = "report", ~Eventful, Len(seen) = Len(Questions),
           NEW i \in 1..11, Asked(ask, InOrder[i])
    PROVE  Answered(InOrder[i])
<1>1. Questions = Plan
  BY DEF Questions, Plan, Eventful
<1>2. PICK k \in 1..Len(Plan) : Plan[k] = InOrder[i]
  BY PlanIs
<1>3. seen \in Seq(Answer) /\ k \in 1..Len(seen) /\ seen[k].what = Questions[k]
  BY <1>1, <1>2 DEF ReadersInv, Scripted, Typed, Looked
<1> QED
  BY <1>1, <1>2, <1>3 DEF Answered

\* A report that is finished has had each of its questions answered.
LEMMA FinishedAnswers ==
    ASSUME ReadersInv, NEW kind, Finished(kind), kind # "events",
           NEW topic \in {"window", "moves", "check", "signal", "other", "earliest", "read", "counts"},
           Asked(ask, topic)
    PROVE  Answered(topic)
<1>1. ask.tool = "report" /\ ~Eventful /\ Len(seen) = Len(Questions)
  BY DEF Finished, Eventful
<1>2. \E i \in 1..11 : InOrder[i] = topic
  BY InOrderIs
<1> QED
  BY <1>1, <1>2, AllAnswered

\* The properties of the runs, of what the report saw.
LEMMA RunsHold == ReadersInv => RunsAreWhatWasSeen
<1> SUFFICES ASSUME ReadersInv, Finished("runs") PROVE RunsAreWhatWasSeen
  BY DEF RunsAreWhatWasSeen
<1> DEFINE obs == Stream("signal", ask.sensor)
           gap == ask.maxGap
           runs == DetectRuns(obs, gap)
<1>0. Typed
  BY DEF ReadersInv
<1>1. Answered("signal")
  <2>1. Asked(ask, "signal")
    BY DEF Finished, Asked, Topics
  <2> QED
    BY <2>1, FinishedAnswers
<1>2. obs \in Seq(Observation) /\ InTime(obs) /\ gap \in Int /\ DOMAIN obs = 1..Len(obs)
  <2>1. obs \in Seq(Observation) /\ InTime(obs) /\ gap \in Int
    BY <1>0, <1>1, StreamIs, AskIs
  <2> HIDE DEF obs
  <2> QED
    BY <2>1
<1> HIDE DEF obs, gap
<1>3. /\ runs \in Seq(Run)
      /\ OneRunEach(obs, runs)
      /\ \A k \in 1..Len(runs) : SeenAsOne(obs, gap, runs[k])
      /\ LargestGap(Times(obs)) <= gap =>
            \A k \in 1..Len(runs) : runs[k].truncated => k \in {1, Len(runs)}
  BY <1>2, RunsAreSeen
<1> HIDE DEF runs
<1>4. DOMAIN runs = 1..Len(runs)
  BY <1>3
<1> DEFINE near(i) == i \in 1..(Len(obs) - 1) /\ obs[i + 1].at - obs[i].at <= gap
           inside(r) == {i \in DOMAIN obs : obs[i].at \in r.startsAt..r.endsAt}
<1>5. \A i : near(i) <=> Near(obs, gap, i)
  BY DEF Near
<1>6. \A r : inside(r) = Inside(obs, r)
  BY <1>2 DEF Inside
<1> HIDE DEF near, inside
<1>7. \A i \in DOMAIN obs : Cardinality({k \in DOMAIN runs : i \in inside(runs[k])}) = 1
  <2> TAKE i \in DOMAIN obs
  <2>1. {k \in DOMAIN runs : i \in inside(runs[k])} = {k \in 1..Len(runs) : i \in Inside(obs, runs[k])}
    BY <1>4, <1>6
  <2> QED
    BY <1>2, <1>3, <2>1 DEF OneRunEach
<1>8. ASSUME NEW k \in DOMAIN runs
      PROVE  LET r == runs[k]  first == Min(inside(r))  last == Max(inside(r)) IN
                /\ r.samples = Cardinality(inside(r))
                /\ \A i \in inside(r) : (obs[i].value = 1) = r.asserted
                /\ \A i \in first..(last - 1) : near(i)
                /\ near(last) => obs[last + 1].value # obs[last].value
                /\ r.truncated <=> ~(near(first - 1) /\ near(last))
  <2> DEFINE r == runs[k]
             s == Inside(obs, r)
  <2>1. SeenAsOne(obs, gap, r)
    BY <1>3, <1>4, <1>8
  <2>2. inside(r) = s
    BY <1>6
  <2>3. /\ r.samples = Cardinality(s)
        /\ \A i \in s : (obs[i].value = 1) = r.asserted
        /\ \A i \in Min(s)..(Max(s) - 1) : Near(obs, gap, i)
        /\ Near(obs, gap, Max(s)) => obs[Max(s) + 1].value # obs[Max(s)].value
        /\ r.truncated <=> ~(Near(obs, gap, Min(s) - 1) /\ Near(obs, gap, Max(s)))
    BY <2>1 DEF SeenAsOne
  <2> HIDE DEF r, s
  <2>4. /\ r.samples = Cardinality(inside(r))
        /\ \A i \in inside(r) : (obs[i].value = 1) = r.asserted
        /\ \A i \in Min(inside(r))..(Max(inside(r)) - 1) : near(i)
        /\ near(Max(inside(r))) => obs[Max(inside(r)) + 1].value # obs[Max(inside(r))].value
        /\ r.truncated <=> ~(near(Min(inside(r)) - 1) /\ near(Max(inside(r))))
    BY <1>5, <2>2, <2>3
  <2> QED
    BY <2>4 DEF r
<1>9. LargestGap(Times(obs)) <= gap => \A k \in DOMAIN runs : runs[k].truncated => k \in {1, Len(runs)}
  BY <1>3, <1>4
<1> QED
  BY <1>7, <1>8, <1>9 DEF RunsAreWhatWasSeen, obs, runs, gap, near, inside

\* Runs are what the signal was seen to do, for every stream and every gap
\* (reporting.py:565).
THEOREM RunsAreWhatWasSeenAlways == Spec => []RunsAreWhatWasSeen
  BY ReadersInvAlways, RunsHold, PTL

\* Up to the events, a report asks what it has planned to.
LEMMA AsPlanned ==
    ASSUME ReadersInv, ask.tool = "report", NEW q \in 1..Len(seen),
           seen[q].what \notin {"around", "occasions"}
    PROVE  /\ q \in 1..Len(Plan) /\ \A k \in 1..q : seen[k].what = Plan[k]
<1>1. /\ Typed /\ seen \in Seq(Answer) /\ Len(seen) \in Nat /\ Len(seen) <= Len(Questions)
      /\ \A k \in 1..Len(seen) : seen[k].what = Questions[k]
  BY DEF ReadersInv, Scripted, Typed, Looked
<1>2. Plan \in Seq(Topic) /\ Len(Plan) \in Nat
  BY PlanIs
<1>3. CASE Eventful /\ Answered("signal")
  <2> DEFINE n == Len(Plan) - 1
             m == Len(Moments)
  <2>1. /\ n \in Nat /\ m \in Nat /\ Len(Questions) = n + m + 1
        /\ \A k \in 1..n : Questions[k] = Plan[k]
        /\ \A k \in 1..m : Questions[n + k] = "around"
        /\ Questions[n + m + 1] = "occasions"
    BY <1>1, <1>3, PlanOpens DEF Opened
  <2> HIDE DEF m
  <2>2. q \in 1..(n + m + 1) /\ Questions[q] \notin {"around", "occasions"}
    BY <1>1, <2>1
  <2>3. q <= n
    <3>1. SUFFICES ASSUME q > n PROVE FALSE
      BY <2>1, <2>2
    <3>2. n \in Int /\ m \in Int /\ q \in Int /\ q <= n + m + 1
      BY <2>1, <2>2
    <3> HIDE DEF n
    <3>3. q = n + m + 1 \/ q - n \in 1..m
      BY <3>1, <3>2
    <3>4. n + (q - n) = q
      BY <3>2
    <3> QED
      BY <2>1, <2>2, <3>3, <3>4
  <2> QED
    BY <1>1, <1>2, <2>1, <2>3
<1>4. CASE ~(Eventful /\ Answered("signal"))
  <2>1. Questions = Plan
    BY <1>4 DEF Questions, Plan, Eventful
  <2> QED
    BY <1>1, <2>1
<1> QED
  BY <1>3, <1>4

\* One of the topics is asked before another.
LEMMA AnsweredInOrder ==
    ASSUME ReadersInv, ask.tool = "report",
           NEW i \in 1..11, NEW j \in 1..10, i < j, Asked(ask, InOrder[i]), Answered(InOrder[j])
    PROVE  Answered(InOrder[i]) /\ Place(InOrder[i]) < Place(InOrder[j])
<1> DEFINE places == {k \in DOMAIN InOrder : Asked(ask, InOrder[k])}
<1>1. /\ places \in SUBSET (1..Len(InOrder)) /\ InOrder \in Seq(Topic) /\ places \subseteq 1..11
      /\ i \in places /\ \A k \in 1..11 : k \in places <=> Asked(ask, InOrder[k])
  BY InOrderIs
<1>2. Plan = Chosen(InOrder, places)
  BY DEF Plan
<1> HIDE DEF places
<1>3. Plan \in Seq(Topic) /\ \E order : Picks(order, Plan, InOrder, places)
  BY <1>1, <1>2, ChosenIs
<1>4. PICK order : Picks(order, Plan, InOrder, places)
  BY <1>3
<1>5. /\ \A k \in 1..Len(Plan) : order[k] \in places /\ Plan[k] = InOrder[order[k]]
      /\ \A l \in places : \E k \in 1..Len(Plan) : order[k] = l
      /\ \A k, l \in 1..Len(Plan) : k < l <=> order[k] < order[l]
  BY <1>4 DEF Picks
<1>6. Typed /\ seen \in Seq(Answer)
  BY DEF ReadersInv, Typed, Looked
<1> DEFINE q == Place(InOrder[j])
<1>7. q \in 1..Len(seen) /\ seen[q].what = InOrder[j]
  BY <1>6, PlaceIs
<1>8. /\ q \in 1..Len(Plan) /\ Len(seen) \in Nat /\ Len(Plan) \in Nat
      /\ \A k \in 1..q : seen[k].what = Plan[k]
  <2>1. InOrder[j] \notin {"around", "occasions"}
    BY InOrderIs
  <2>2. q \in 1..Len(Plan) /\ \A k \in 1..q : seen[k].what = Plan[k]
    <3> HIDE DEF q
    <3> QED
      BY <1>7, <2>1, AsPlanned
  <2> QED
    BY <1>3, <1>6, <2>2
<1>9. order[q] = j
  <2>1. InOrder[order[q]] = InOrder[j] /\ order[q] \in 1..11
    <3>1. q \in 1..q
      BY <1>8
    <3> QED
      BY <1>1, <1>5, <1>7, <1>8, <3>1
  <2> QED
    BY <2>1, InOrderIs
<1>10. PICK p \in 1..Len(Plan) : order[p] = i
  BY <1>1, <1>5
<1>11. p < q
  <2> HIDE DEF q
  <2> QED
    BY <1>5, <1>8, <1>9, <1>10
<1>12. p \in 1..Len(seen) /\ seen[p].what = InOrder[i]
  BY <1>5, <1>6, <1>7, <1>8, <1>10, <1>11
<1>13. Answered(InOrder[i])
  BY <1>6, <1>12 DEF Answered
<1>14. Place(InOrder[i]) <= p /\ Place(InOrder[i]) \in 1..Len(seen)
  BY <1>6, <1>12, <1>13, PlaceIs
<1> HIDE DEF q
<1>15. Place(InOrder[i]) < q
  BY <1>7, <1>8, <1>11, <1>14
<1> QED
  BY <1>13, <1>15 DEF q

\* What is asked later has seen as much.
LEMMA SawMore ==
    ASSUME ReadersInv, NEW one, NEW other, Answered(one), Answered(other), Place(one) <= Place(other)
    PROVE  /\ Len(Saw(one)) <= Len(Saw(other))
           /\ \A i \in 1..Len(Saw(one)) : i \in 1..Len(Saw(other)) /\ Saw(other)[i] = Saw(one)[i]
<1>1. Typed
  BY DEF ReadersInv
<1>2. /\ Place(one) \in 1..Len(seen) /\ Place(other) \in 1..Len(seen)
  BY <1>1, PlaceIs
<1>3. /\ Len(Saw(one)) = seen[Place(one)].rows /\ Len(Saw(one)) \in 0..Len(rows)
      /\ \A i \in 1..Len(Saw(one)) : Saw(one)[i] = rows[i]
      /\ Len(Saw(other)) = seen[Place(other)].rows /\ Len(Saw(other)) \in 0..Len(rows)
      /\ \A i \in 1..Len(Saw(other)) : Saw(other)[i] = rows[i]
  BY <1>1, SawIs
<1>4. seen[Place(one)].rows <= seen[Place(other)].rows
  <2>1. CASE Place(one) < Place(other)
    BY <1>1, <1>2, <2>1 DEF Typed, Looked
  <2>2. CASE Place(one) = Place(other)
    BY <1>3, <2>2
  <2>3. seen \in Seq(Answer) /\ Len(seen) \in Nat
    BY <1>1 DEF Typed, Looked
  <2> QED
    BY <1>2, <2>1, <2>2, <2>3
<1>5. Len(Saw(one)) <= Len(Saw(other)) /\ Len(Saw(one)) \in Nat /\ Len(Saw(other)) \in Nat
  BY <1>3, <1>4
<1> QED
  BY <1>3, <1>5

\* A longer record matches no less, and the same record the same.
LEMMA MatchesMore ==
    ASSUME NEW one \in Seq(Row), NEW other \in Seq(Row),
           \A i \in 1..Len(one) : i \in 1..Len(other) /\ other[i] = one[i],
           NEW sensor, NEW start, NEW end
    PROVE  SampleCount(one, sensor, start, end) <= SampleCount(other, sensor, start, end)
<1>1. /\ Matching(one, sensor, start, end) =
             {i \in 1..Len(one) : one[i].sensor = sensor /\ InWindow(one[i].at, start, end)}
      /\ Matching(other, sensor, start, end) =
             {i \in 1..Len(other) : other[i].sensor = sensor /\ InWindow(other[i].at, start, end)}
      /\ IsFiniteSet(Matching(other, sensor, start, end))
  BY MatchingIs
<1>2. Matching(one, sensor, start, end) \subseteq Matching(other, sensor, start, end)
  BY <1>1
<1> QED
  BY <1>1, <1>2, FS_Subset DEF SampleCount

\* A gated report has states to ask.
LEMMA GateHasStates ==
    ASSUME ReadersInv, Finished("values") \/ Finished("delta"), ask.gate # {}
    PROVE  /\ Answered("check") /\ Answered("signal") /\ Answered("read")
           /\ Stream("signal", Signal) \in Seq(Observation) /\ InTime(Stream("signal", Signal))
           /\ Len(Stream("signal", Signal)) > 0
           /\ Stream("read", ask.sensor) \in Seq(Observation) /\ InTime(Stream("read", ask.sensor))
<1>0. Typed /\ Kind(ask) \in {"values", "delta"} /\ ~Eventful /\ ask.tool = "report"
  BY DEF ReadersInv, Finished, Eventful
<1>1. Asked(ask, "check") /\ Asked(ask, "signal") /\ Asked(ask, "read")
  BY <1>0 DEF Asked, Topics
<1>2. Answered("check") /\ Answered("signal") /\ Answered("read")
  BY <1>1, FinishedAnswers
<1>3. Place("check") < Place("signal")
  <2>1. InOrder[5] = "check" /\ InOrder[6] = "signal"
    BY InOrderIs
  <2> QED
    BY <1>0, <1>1, <1>2, <2>1, AnsweredInOrder
<1>4. Saw("check") \in Seq(Row) /\ Saw("signal") \in Seq(Row) /\ Distinct(Saw("signal"))
  BY <1>0, <1>2, SawIs
<1>5. \A i \in 1..Len(Saw("check")) : i \in 1..Len(Saw("signal")) /\ Saw("signal")[i] = Saw("check")[i]
  <2>1. Place("check") <= Place("signal")
    <3>1. Place("check") \in 1..Len(seen) /\ Place("signal") \in 1..Len(seen) /\ Len(seen) \in Nat
      BY <1>0, <1>2, PlaceIs, RecordIs
    <3> QED
      BY <1>3, <3>1
  <2> QED
    BY <1>2, <2>1, SawMore
<1>6. SampleCount(Saw("check"), Signal, ask.start, ask.end) > 0
  <2>1. ~Refused
    BY DEF Finished
  <2>2. IsStateSensor(Saw("check"), Signal, ask.start, ask.end)
    BY <1>0, <1>2, <2>1 DEF Refused, RefusedAtFirst
  <2> QED
    BY <2>2 DEF IsStateSensor
<1>7. SampleCount(Saw("check"), Signal, ask.start, ask.end)
         <= SampleCount(Saw("signal"), Signal, ask.start, ask.end)
  BY <1>4, <1>5, MatchesMore
<1>8. Len(Stream("signal", Signal)) = SampleCount(Saw("signal"), Signal, ask.start, ask.end)
  BY <1>4, ObservationsAre DEF Stream
<1>9. Len(Stream("signal", Signal)) > 0
  <2>1. /\ SampleCount(Saw("check"), Signal, ask.start, ask.end) \in Nat
        /\ SampleCount(Saw("signal"), Signal, ask.start, ask.end) \in Nat
    BY <1>4, MatchingIs
  <2> QED
    BY <1>6, <1>7, <1>8, <2>1
<1> QED
  BY <1>0, <1>2, <1>9, StreamIs

\* What the property of the gates says.
LEMMA GateSpeaks == ReadersInv => GateSpeaksForTheNearest
<1> SUFFICES ASSUME ReadersInv, Finished("values"), ask.gate # {} PROVE GateSpeaksForTheNearest
  BY DEF GateSpeaksForTheNearest
<1> DEFINE states == Stream("signal", Signal)
           subject == Stream("read", ask.sensor)
           kept == Selected
           nearest(o) == CHOOSE i \in DOMAIN states : \A j \in DOMAIN states :
                \/ Dist(states[i].at, o.at) < Dist(states[j].at, o.at)
                \/ Dist(states[i].at, o.at) = Dist(states[j].at, o.at) /\ i <= j
<1>1. /\ states \in Seq(Observation) /\ InTime(states) /\ Len(states) > 0
      /\ subject \in Seq(Observation) /\ InTime(subject)
  BY GateHasStates
<1>2. kept = Gated(subject, states, ask.tolerance, Expected)
  BY DEF Selected, Finished
<1> HIDE DEF states, subject, kept
<1>3. KeptOf(kept, Len(subject), subject, states, ask.tolerance, Expected)
  BY <1>1, <1>2, GatedIs
<1>4. DOMAIN states = 1..Len(states) /\ DOMAIN subject = 1..Len(subject) /\ Len(states) \in Nat
  BY <1>1
<1>5. ASSUME NEW t \in Int PROVE \E i : Nearest(states, i, t)
  <2>1. 1 \in 1..Len(states)
    BY <1>1, <1>4
  <2>2. After(states, 1, t)
    BY DEF After
  <2> QED
    BY <1>1, <2>1, <2>2, AdvanceIs
<1>6. ASSUME NEW o \in Observation, NEW i, Nearest(states, i, o.at) PROVE nearest(o) = i
  <2> DEFINE D(k) == Dist(states[k].at, o.at)
             Best(k) == k \in 1..Len(states) /\ \A j \in 1..Len(states) :
                           D(k) < D(j) \/ (D(k) = D(j) /\ k <= j)
  <2>1. o.at \in Int /\ i \in 1..Len(states)
    BY <1>6 DEF Observation, Nearest
  <2>2. \A j \in 1..Len(states) : D(j) \in Nat
    BY <1>1, <2>1, InstantsAre DEF Dist
  <2>3. \A j \in 1..Len(states) : (j < i => D(i) < D(j)) /\ (i < j => D(i) <= D(j))
    BY <1>1, <1>6, <2>1, NearestIs
  <2> HIDE DEF D
  <2>4. Best(i)
    <3> SUFFICES ASSUME NEW j \in 1..Len(states) PROVE D(i) < D(j) \/ (D(i) = D(j) /\ i <= j)
      BY <2>1
    <3>1. j < i \/ i = j \/ i < j
      BY <1>4, <2>1
    <3>2. D(i) \in Nat /\ D(j) \in Nat
      BY <2>1, <2>2
    <3>3. (j < i => D(i) < D(j)) /\ (i < j => D(i) <= D(j))
      BY <2>3
    <3> QED
      BY <2>1, <3>1, <3>2, <3>3
  <2>5. ASSUME NEW k \in 1..Len(states), Best(k) PROVE k = i
    <3>1. /\ D(k) < D(i) \/ (D(k) = D(i) /\ k <= i)
          /\ D(i) < D(k) \/ (D(i) = D(k) /\ i <= k)
      BY <2>1, <2>4, <2>5
    <3>2. D(i) \in Nat /\ D(k) \in Nat /\ i \in Nat /\ k \in Nat
      BY <1>4, <2>1, <2>2
    <3> QED
      BY <3>1, <3>2
  <2> DEFINE Test(k) == \A j \in DOMAIN states :
                \/ Dist(states[k].at, o.at) < Dist(states[j].at, o.at)
                \/ Dist(states[k].at, o.at) = Dist(states[j].at, o.at) /\ k <= j
  <2>6. \A k \in DOMAIN states : Test(k) <=> Best(k)
    BY <1>4 DEF D
  <2>7. nearest(o) = CHOOSE k \in DOMAIN states : Test(k)
    OBVIOUS
  <2> HIDE DEF Test, Best, nearest
  <2>8. nearest(o) \in DOMAIN states /\ Test(nearest(o))
    BY <1>4, <2>1, <2>4, <2>6, <2>7
  <2> QED
    BY <1>4, <2>5, <2>6, <2>8
<1>7. ASSUME NEW o \in Observation
      PROVE  Admitted(states, o, ask.tolerance, Expected) <=>
                /\ Dist(states[nearest(o)].at, o.at) <= ask.tolerance
                /\ states[nearest(o)].value = Expected
  <2>1. o.at \in Int
    BY DEF Observation
  <2>2. PICK i : Nearest(states, i, o.at)
    BY <1>5, <2>1
  <2>3. nearest(o) = i
    BY <1>6, <2>2
  <2>4. \A j : Nearest(states, j, o.at) => j = i
    BY <1>1, <2>1, <2>2, OneNearest
  <2> HIDE DEF nearest
  <2> QED
    BY <2>2, <2>3, <2>4 DEF Admitted, Admits
<1> HIDE DEF nearest
<1>8. /\ kept \in Seq(Observation)
      /\ \A k \in 1..Len(kept) : \E m \in 1..Len(subject) :
            kept[k] = subject[m] /\ Admitted(states, subject[m], ask.tolerance, Expected)
      /\ \A m \in 1..Len(subject) : Admitted(states, subject[m], ask.tolerance, Expected) =>
            \E k \in 1..Len(kept) : kept[k] = subject[m]
  BY <1>3 DEF KeptOf
<1>9. ToSet(kept) = {kept[k] : k \in 1..Len(kept)} /\ ToSet(subject) = {subject[m] : m \in 1..Len(subject)}
  BY <1>4, <1>8 DEF ToSet
<1>10. ToSet(subject) \subseteq Observation
  BY <1>1, <1>9
<1>11. ToSet(kept) = {o \in ToSet(subject) : Admitted(states, o, ask.tolerance, Expected)}
  <2> DEFINE ok(o) == Admitted(states, o, ask.tolerance, Expected)
  <2>1. /\ \A k \in 1..Len(kept) : \E m \in 1..Len(subject) : kept[k] = subject[m] /\ ok(subject[m])
        /\ \A m \in 1..Len(subject) : ok(subject[m]) => \E k \in 1..Len(kept) : kept[k] = subject[m]
    BY <1>8
  <2> HIDE DEF ok
  <2>2. \A x \in ToSet(kept) : x \in ToSet(subject) /\ ok(x)
    BY <1>9, <2>1
  <2>3. \A x \in ToSet(subject) : ok(x) => x \in ToSet(kept)
    BY <1>9, <2>1
  <2>4. ToSet(kept) = {o \in ToSet(subject) : ok(o)}
    BY <2>2, <2>3
  <2> QED
    BY <2>4 DEF ok
<1>12. ToSet(kept) = {o \in ToSet(subject) :
            /\ Dist(states[nearest(o)].at, o.at) <= ask.tolerance
            /\ states[nearest(o)].value = Expected}
  BY <1>7, <1>10, <1>11
<1> QED
  BY <1>12 DEF GateSpeaksForTheNearest, kept, states, subject, nearest

\* A gate is decided by the nearest reading of the signal, for every pair of streams
\* and every tolerance (reporting.py:861).
THEOREM GateSpeaksForTheNearestAlways == Spec => []GateSpeaksForTheNearest
  BY ReadersInvAlways, GateSpeaks, PTL

\* A delta has asked for both streams, the other first, and has counted them.
LEMMA DeltaAnswers ==
    ASSUME ReadersInv, Finished("delta")
    PROVE  /\ Answered("other") /\ Answered("read") /\ Answered("counts")
           /\ Place("other") < Place("read") /\ Place("read") < Place("counts")
<1>0. Kind(ask) = "delta" /\ ~Eventful /\ ask.tool = "report"
  BY DEF Finished, Eventful
<1>1. Asked(ask, "other") /\ Asked(ask, "read") /\ Asked(ask, "counts")
  BY <1>0 DEF Asked, Topics
<1>2. Answered("other") /\ Answered("read") /\ Answered("counts")
  BY <1>1, FinishedAnswers
<1>3. InOrder[7] = "other" /\ InOrder[9] = "read" /\ InOrder[10] = "counts"
  BY InOrderIs
<1>4. Place("other") < Place("read")
  BY <1>0, <1>1, <1>2, <1>3, AnsweredInOrder
<1>5. Place("read") < Place("counts")
  BY <1>0, <1>1, <1>2, <1>3, AnsweredInOrder
<1> QED
  BY <1>2, <1>4, <1>5

\* What the property of the pairs says.
LEMMA PairsHold == ReadersInv => PairsAreOneToOne
<1> SUFFICES ASSUME ReadersInv, Finished("delta") PROVE PairsAreOneToOne
  BY DEF PairsAreOneToOne
<1> DEFINE left == Stream("read", ask.sensor)
           right == Stream("other", ask.minus)
           tol == ask.tolerance
           pairs == Pairs(left, right, tol)
<1>1. /\ left \in Seq(Observation) /\ InTime(left) /\ right \in Seq(Observation) /\ InTime(right)
      /\ tol \in Nat
  BY DeltaAnswers, StreamIs, AskIs DEF ReadersInv
<1> HIDE DEF left, right, tol
<1>2. PairsOf(pairs, left, right, tol)
  BY <1>1, PairsAre
<1> HIDE DEF pairs
<1>3. /\ pairs \in Seq(Couple)
      /\ \A k \in 1..Len(pairs) : Dist(pairs[k].left.at, pairs[k].right.at) <= tol
      /\ \A j, k \in 1..Len(pairs) : j < k =>
          pairs[j].left.at < pairs[k].left.at /\ pairs[j].right.at < pairs[k].right.at
      /\ Apart(left, tol) /\ Apart(right, tol) =>
          \A a \in 1..Len(left) : \A b \in 1..Len(right) :
             InReach(left[a], right[b], tol) =>
                \E k \in 1..Len(pairs) : pairs[k] = [left |-> left[a], right |-> right[b]]
  BY <1>2 DEF PairsOf
<1>4. DOMAIN pairs = 1..Len(pairs)
  BY <1>3
<1>5. /\ ToSet(left) = {left[a] : a \in 1..Len(left)}
      /\ ToSet(right) = {right[a] : a \in 1..Len(right)}
      /\ ToSet(pairs) = {pairs[a] : a \in 1..Len(pairs)}
  BY <1>1, <1>3 DEF ToSet
<1>6. ASSUME Apart(left, tol), Apart(right, tol), NEW o \in ToSet(left), NEW q \in ToSet(right),
             Dist(o.at, q.at) <= tol
      PROVE  [left |-> o, right |-> q] \in ToSet(pairs)
  <2>1. PICK a \in 1..Len(left) : o = left[a]
    BY <1>5
  <2>2. PICK b \in 1..Len(right) : q = right[b]
    BY <1>5
  <2>3. InReach(left[a], right[b], tol)
    BY <1>6, <2>1, <2>2 DEF InReach
  <2>4. PICK k \in 1..Len(pairs) : pairs[k] = [left |-> left[a], right |-> right[b]]
    BY <1>3, <1>6, <2>3
  <2> QED
    BY <1>5, <2>1, <2>2, <2>4
<1>7. (\A i, j \in DOMAIN pairs : i < j =>
          pairs[i].left.at < pairs[j].left.at /\ pairs[i].right.at < pairs[j].right.at)
  BY <1>3, <1>4
<1>8. \A i \in DOMAIN pairs : Dist(pairs[i].left.at, pairs[i].right.at) <= tol
  BY <1>3, <1>4
<1>9. (\A i \in 1..(Len(left) - 1) : left[i + 1].at - left[i].at > 2 * tol)
      /\ (\A i \in 1..(Len(right) - 1) : right[i + 1].at - right[i].at > 2 * tol)
      => \A o \in ToSet(left) : \A q \in ToSet(right) :
            Dist(o.at, q.at) <= tol => [left |-> o, right |-> q] \in ToSet(pairs)
  BY <1>6 DEF Apart
<1> QED
  BY <1>7, <1>8, <1>9 DEF PairsAreOneToOne, left, right, tol, pairs

\* Partners of a delta are within reach, used once, and complete where they can be.
THEOREM PairsAreOneToOneAlways == Spec => []PairsAreOneToOne
  BY ReadersInvAlways, PairsHold, PTL

\* The count that is taken later matches no less than a stream has.
LEMMA CountIsMore ==
    ASSUME ReadersInv, NEW topic, Answered(topic), Answered("counts"),
           Place(topic) <= Place("counts"), NEW sensor
    PROVE  /\ Len(Stream(topic, sensor)) \in Nat /\ Count(sensor) \in Nat
           /\ Len(Stream(topic, sensor)) <= Count(sensor)
           /\ Saw("counts") = Saw(topic) => Len(Stream(topic, sensor)) = Count(sensor)
<1> DEFINE one == Saw(topic)
           other == Saw("counts")
<1>1. one \in Seq(Row) /\ other \in Seq(Row)
  BY SawIs DEF ReadersInv
<1>2. Len(Stream(topic, sensor)) = SampleCount(one, sensor, ask.start, ask.end)
  BY <1>1, ObservationsAre DEF Stream
<1>3. Count(sensor) = SampleCount(other, sensor, ask.start, ask.end)
  BY DEF Count
<1>4. \A i \in 1..Len(one) : i \in 1..Len(other) /\ other[i] = one[i]
  BY SawMore
<1> HIDE DEF one, other
<1>5. SampleCount(one, sensor, ask.start, ask.end) <= SampleCount(other, sensor, ask.start, ask.end)
  BY <1>1, <1>4, MatchesMore
<1>6. /\ SampleCount(one, sensor, ask.start, ask.end) \in Nat
      /\ SampleCount(other, sensor, ask.start, ask.end) \in Nat
  BY <1>1, MatchingIs
<1>7. other = one => Len(Stream(topic, sensor)) = Count(sensor)
  BY <1>2, <1>3
<1> QED
  BY <1>2, <1>3, <1>5, <1>6, <1>7 DEF one, other

\* What a gate has let through is a number of readings.
LEMMA SelectedIs ==
    ASSUME ReadersInv, Finished("values"), ask.gate # {}
    PROVE  Len(Selected) \in Nat /\ Len(Selected) <= Len(Stream("read", ask.sensor))
<1> DEFINE states == Stream("signal", Signal)
           subject == Stream("read", ask.sensor)
           kept == Selected
<1>1. /\ states \in Seq(Observation) /\ InTime(states) /\ Len(states) > 0
      /\ subject \in Seq(Observation) /\ InTime(subject)
  BY GateHasStates
<1>2. kept = Gated(subject, states, ask.tolerance, Expected)
  BY DEF Selected, Finished
<1> HIDE DEF states, subject, kept
<1>3. KeptOf(kept, Len(subject), subject, states, ask.tolerance, Expected)
  BY <1>1, <1>2, GatedIs
<1>4. kept \in Seq(Observation) /\ Len(kept) <= Len(subject)
  BY <1>3 DEF KeptOf
<1>5. Len(kept) \in Nat
  BY <1>4
<1> QED
  BY <1>4, <1>5 DEF kept, subject

\* Nor have more of either stream been paired than there are.
LEMMA PairedIs ==
    ASSUME ReadersInv, Finished("delta")
    PROVE  /\ Paired \in Nat
           /\ Paired <= Len(Stream("read", ask.sensor)) /\ Paired <= Len(Stream("other", ask.minus))
<1> DEFINE left == Stream("read", ask.sensor)
           right == Stream("other", ask.minus)
           pairs == Pairs(left, right, ask.tolerance)
<1>1. /\ left \in Seq(Observation) /\ InTime(left) /\ right \in Seq(Observation) /\ InTime(right)
      /\ ask.tolerance \in Nat
  BY DeltaAnswers, StreamIs, AskIs DEF ReadersInv
<1>2. Paired = Len(pairs)
  BY DEF Paired
<1> HIDE DEF left, right
<1>3. PairsOf(pairs, left, right, ask.tolerance)
  BY <1>1, PairsAre
<1> HIDE DEF pairs
<1>4. pairs \in Seq(Couple) /\ Len(pairs) <= Len(left) /\ Len(pairs) <= Len(right)
  BY <1>3 DEF PairsOf
<1>5. Len(pairs) \in Nat
  BY <1>4
<1> QED
  BY <1>2, <1>4, <1>5 DEF left, right

\* What the property of the counts says.
LEMMA CountsHold == ReadersInv => FiguresNeverFallShort
<1> SUFFICES ASSUME ReadersInv PROVE FiguresNeverFallShort
  OBVIOUS
<1> DEFINE read == Len(Stream("read", ask.sensor))
           other == Len(Stream("other", ask.minus))
<1>0. \A topic \in {"read", "other", "counts"} : Answered(topic) => Place(topic) \in Int
  <2>1. \A topic : Answered(topic) => Place(topic) \in 1..Len(seen)
    BY PlaceIs DEF ReadersInv
  <2>2. Len(seen) \in Nat
    BY DEF ReadersInv, Typed, Looked
  <2> QED
    BY <2>1, <2>2
<1>1. ASSUME Finished("values"), ask.gate # {}
      PROVE  /\ read - Len(Selected) <= Excluded
             /\ Saw("counts") = Saw("read") => read - Len(Selected) = Excluded
  <2>0. Kind(ask) = "values" /\ ~Eventful /\ ask.tool = "report"
    BY <1>1 DEF Finished, Eventful
  <2>1. Asked(ask, "read") /\ Asked(ask, "counts")
    BY <2>0 DEF Asked, Topics
  <2>2. Answered("read") /\ Answered("counts")
    BY <1>1, <2>1, FinishedAnswers
  <2>3. InOrder[9] = "read" /\ InOrder[10] = "counts"
    BY InOrderIs
  <2>4. Place("read") < Place("counts")
    BY <2>0, <2>1, <2>2, <2>3, AnsweredInOrder
  <2>5. Place("read") <= Place("counts")
    BY <1>0, <2>2, <2>4
  <2>6. /\ read \in Nat /\ Count(ask.sensor) \in Nat /\ read <= Count(ask.sensor)
        /\ Saw("counts") = Saw("read") => read = Count(ask.sensor)
    BY <2>2, <2>5, CountIsMore
  <2>7. Excluded = Count(ask.sensor) - Len(Selected)
    BY <1>1, <2>0 DEF Excluded
  <2>8. Len(Selected) \in Nat
    BY <1>1, SelectedIs
  <2> HIDE DEF read
  <2> QED
    BY <2>6, <2>7, <2>8
<1>2. ASSUME Finished("delta")
      PROVE  /\ 0 <= read - Paired /\ read - Paired <= Unpaired(ask.sensor)
             /\ 0 <= other - Paired /\ other - Paired <= Unpaired(ask.minus)
             /\ Saw("counts") = Saw("other") =>
                   read - Paired = Unpaired(ask.sensor) /\ other - Paired = Unpaired(ask.minus)
  <2>1. /\ Answered("other") /\ Answered("read") /\ Answered("counts")
        /\ Place("other") < Place("read") /\ Place("read") < Place("counts")
    BY <1>2, DeltaAnswers
  <2>2. Place("other") <= Place("read") /\ Place("read") <= Place("counts") /\ Place("other") <= Place("counts")
    BY <1>0, <2>1
  <2>3. /\ read \in Nat /\ Count(ask.sensor) \in Nat /\ read <= Count(ask.sensor)
        /\ Saw("counts") = Saw("read") => read = Count(ask.sensor)
    BY <2>1, <2>2, CountIsMore
  <2>4. /\ other \in Nat /\ Count(ask.minus) \in Nat /\ other <= Count(ask.minus)
        /\ Saw("counts") = Saw("other") => other = Count(ask.minus)
    BY <2>1, <2>2, CountIsMore
  <2>5. Saw("counts") = Saw("other") => Saw("counts") = Saw("read")
    <3> SUFFICES ASSUME Saw("counts") = Saw("other") PROVE Saw("counts") = Saw("read")
      OBVIOUS
    <3>1. /\ Saw("counts") \in Seq(Row) /\ Saw("read") \in Seq(Row)
      BY <2>1, SawIs DEF ReadersInv
    <3>2. /\ Len(Saw("other")) <= Len(Saw("read")) /\ Len(Saw("read")) <= Len(Saw("counts"))
          /\ \A i \in 1..Len(Saw("read")) : i \in 1..Len(Saw("counts")) /\ Saw("counts")[i] = Saw("read")[i]
      BY <2>1, <2>2, SawMore
    <3> DEFINE a == Saw("counts")
               b == Saw("read")
    <3>3. /\ a \in Seq(Row) /\ b \in Seq(Row) /\ Len(a) <= Len(b) /\ Len(b) <= Len(a)
          /\ \A i \in 1..Len(b) : a[i] = b[i]
      BY <3>1, <3>2
    <3> HIDE DEF a, b
    <3>4. Len(a) = Len(b)
      BY <3>3
    <3>5. a = b
      BY <3>3, <3>4
    <3> QED
      BY <3>5 DEF a, b
  <2>6. Paired \in Nat /\ Paired <= read /\ Paired <= other
    BY <1>2, PairedIs
  <2>7. Unpaired(ask.sensor) = Count(ask.sensor) - Paired /\ Unpaired(ask.minus) = Count(ask.minus) - Paired
    BY DEF Unpaired
  <2> HIDE DEF read, other
  <2>8. 0 <= read - Paired /\ 0 <= other - Paired
    BY <2>3, <2>4, <2>6
  <2>9. read - Paired <= Unpaired(ask.sensor)
    BY <2>3, <2>6, <2>7
  <2>10. other - Paired <= Unpaired(ask.minus)
    BY <2>4, <2>6, <2>7
  <2> QED
    BY <2>3, <2>4, <2>5, <2>6, <2>7, <2>8, <2>9, <2>10
<1> QED
  BY <1>1, <1>2 DEF FiguresNeverFallShort

\* The numbers below a summary never fall short of what the summary left out.
THEOREM FiguresNeverFallShortAlways == Spec => []FiguresNeverFallShort
  BY ReadersInvAlways, CountsHold, PTL

-------------------------------------------------------------------------------
(***************************************************************************)
(* The warning of corrections that moved.                                  *)
(***************************************************************************)

\* A sensor has moved between two configurations when its correction is another.
LEMMA CompareIs ==
    ASSUME NEW before, NEW after, NEW s
    PROVE  s \in Compare(before, after) <=> CorrectionOf(before, s) # CorrectionOf(after, s)
<1> DEFINE of(c) == CorrectionOf(c, s)
<1>1. \A c : s \in DOMAIN c => of(c) = {c[s]}
  BY DEF CorrectionOf
<1>2. \A c : s \notin DOMAIN c => of(c) = {}
  BY DEF CorrectionOf
<1> HIDE DEF of
<1>3. s \in Compare(before, after) <=>
          /\ s \in DOMAIN before \/ s \in DOMAIN after
          /\ ~(s \in DOMAIN before /\ s \in DOMAIN after) \/ before[s] # after[s]
  BY DEF Compare
<1>4. of(before) # of(after) <=>
          /\ s \in DOMAIN before \/ s \in DOMAIN after
          /\ ~(s \in DOMAIN before /\ s \in DOMAIN after) \/ before[s] # after[s]
  <2>1. CASE s \in DOMAIN before /\ s \in DOMAIN after
    BY <1>1, <2>1
  <2>2. CASE s \in DOMAIN before /\ s \notin DOMAIN after
    BY <1>1, <1>2, <2>2
  <2>3. CASE s \notin DOMAIN before /\ s \in DOMAIN after
    BY <1>1, <1>2, <2>3
  <2>4. CASE s \notin DOMAIN before /\ s \notin DOMAIN after
    BY <1>2, <2>4
  <2> QED
    BY <2>1, <2>2, <2>3, <2>4
<1> QED
  BY <1>3, <1>4 DEF of

\* Between two epochs that differ on a sensor, some step does.
LEMMA SomeStepMoved ==
    ASSUME NEW touched \in Seq(Written), NEW p \in 1..Len(touched), NEW q \in 1..Len(touched), p < q,
           NEW s, CorrectionOf(touched[p].config, s) # CorrectionOf(touched[q].config, s)
    PROVE  \E k \in 1..(Len(touched) - 1) : s \in Compare(touched[k].config, touched[k + 1].config)
<1> SUFFICES ASSUME \A k \in 1..(Len(touched) - 1) : s \notin Compare(touched[k].config, touched[k + 1].config)
             PROVE  FALSE
  OBVIOUS
<1> DEFINE of(k) == CorrectionOf(touched[k].config, s)
           G == {k \in p..q : of(k) = of(p)}
<1>1. \A k \in 1..(Len(touched) - 1) : of(k) = of(k + 1)
  BY CompareIs
<1>2. p \in Int /\ q \in Int /\ Len(touched) \in Nat /\ 1 <= p /\ q <= Len(touched)
  OBVIOUS
<1>a. of(p) # of(q)
  OBVIOUS
<1> HIDE DEF of
<1>3. Inductive(G, p, q)
  <2>1. p \in G
    BY <1>2
  <2>2. ASSUME NEW n \in p..(q - 1), n \in G PROVE n + 1 \in G
    <3>1. n \in 1..(Len(touched) - 1) /\ n + 1 \in p..q
      BY <1>2
    <3> QED
      BY <1>1, <2>2, <3>1
  <2> QED
    BY <2>1, <2>2 DEF Inductive
<1>4. p..q \subseteq G
  <2> HIDE DEF G
  <2> QED
    BY <1>2, <1>3, Climb
<1>5. q \in G
  BY <1>2, <1>4
<1> QED
  BY <1>5, <1>a

\* The epoch in effect at an instant of a window is among those the window touched.
LEMMA SpanningHas ==
    ASSUME NEW journal \in Seq(Written), NEW j, NEW t \in Int, InEffect(journal, j, t),
           NEW from \in Int, NEW to \in Int, from <= t, t <= to
    PROVE  /\ Spanning(journal, from, to) \in Seq(Written)
           /\ \E p \in 1..Len(Spanning(journal, from, to)) : Spanning(journal, from, to)[p] = journal[j]
<1> DEFINE R == Reached(journal, from)
           opening == IF R = {} THEN <<>> ELSE <<EpochAt(journal, from)>>
           places == {i \in DOMAIN journal : from < journal[i].at /\ journal[i].at <= to}
           inside == Chosen(journal, places)
           touched == Spanning(journal, from, to)
<1>0. \A w \in Written : w.at \in Int
  BY DEF Written
<1>1. /\ Len(journal) \in Nat /\ DOMAIN journal = 1..Len(journal)
      /\ \A i \in 1..Len(journal) : journal[i] \in Written /\ journal[i].at \in Int
  BY <1>0
<1>2. j \in 1..Len(journal) /\ journal[j].at <= t /\ \A k \in 1..Len(journal) : j < k => t < journal[k].at
  BY DEF InEffect
<1>3. touched = opening \o inside
  BY DEF Spanning
<1>4. R = {i \in 1..Len(journal) : journal[i].at <= from} /\ places \in SUBSET (1..Len(journal))
  BY <1>1 DEF Reached
<1>5. inside \in Seq(Written) /\ \A i \in places : \E k \in 1..Len(inside) : inside[k] = journal[i]
  <2> HIDE DEF places
  <2>1. inside \in Seq(Written) /\ \E order : Picks(order, inside, journal, places)
    BY <1>4, ChosenIs
  <2>2. PICK order : Picks(order, inside, journal, places)
    BY <2>1
  <2> HIDE DEF inside
  <2>3. /\ \A k \in 1..Len(inside) : inside[k] = journal[order[k]]
        /\ \A i \in places : \E k \in 1..Len(inside) : order[k] = i
    BY <2>2 DEF Picks
  <2>4. \A i \in places : \E k \in 1..Len(inside) : inside[k] = journal[i]
    BY <2>3
  <2> QED
    BY <2>1, <2>4
<1>6. R # {} => \E i \in R : (\A k \in R : k <= i) /\ EpochAt(journal, from) = journal[i]
  <2> SUFFICES ASSUME R # {} PROVE \E i \in R : (\A k \in R : k <= i) /\ EpochAt(journal, from) = journal[i]
    OBVIOUS
  <2>1. R \subseteq Int /\ IsFiniteSet(R)
    <3>1. IsFiniteSet(1..Len(journal)) /\ R \subseteq 1..Len(journal)
      BY <1>1, <1>4, FS_Interval
    <3> QED
      BY <3>1, FS_Subset
  <2>2. Max(R) \in R /\ \A k \in R : k <= Max(R)
    BY <2>1, Extremes
  <2> DEFINE last == CHOOSE i \in R : \A k \in R : k <= i
  <2>3. last \in R /\ \A k \in R : k <= last
    BY <2>2
  <2>4. EpochAt(journal, from) = journal[last]
    BY DEF EpochAt
  <2> QED
    BY <2>3, <2>4
<1>7. opening \in Seq(Written)
  <2>1. R # {} => EpochAt(journal, from) \in Written
    BY <1>1, <1>4, <1>6
  <2> QED
    BY <2>1
<1> HIDE DEF inside, touched
<1>8. CASE journal[j].at <= from
  <2>1. j \in R
    BY <1>2, <1>4, <1>8
  <2>2. PICK i \in R : (\A k \in R : k <= i) /\ EpochAt(journal, from) = journal[i]
    BY <1>6, <2>1
  <2>3. i = j
    <3>1. j <= i /\ i \in 1..Len(journal) /\ journal[i].at <= from /\ journal[i].at \in Int
      BY <1>1, <1>4, <2>1, <2>2
    <3>2. ~(j < i)
      <4>1. j < i => t < journal[i].at
        BY <1>2, <3>1
      <4> QED
        BY <3>1, <4>1
    <3> QED
      BY <1>2, <3>1, <3>2
  <2>4. Len(opening) = 1 /\ opening[1] = journal[j]
    BY <2>1, <2>2, <2>3
  <2> HIDE DEF opening
  <2>5. touched \in Seq(Written) /\ Len(touched) = Len(opening) + Len(inside) /\ touched[1] = opening[1]
    <3>1. 1 \in 1..Len(opening)
      BY <2>4
    <3> QED
      BY <1>3, <1>5, <1>7, <3>1, Joined
  <2>6. Len(inside) \in Nat
    BY <1>5
  <2>7. 1 \in 1..Len(touched)
    BY <2>4, <2>5, <2>6
  <2> QED
    BY <2>4, <2>5, <2>7 DEF touched
<1>9. CASE ~(journal[j].at <= from)
  <2>1. j \in places
    <3>1. journal[j].at \in Int
      BY <1>1, <1>2
    <3> QED
      BY <1>1, <1>2, <1>9, <3>1
  <2>2. PICK k \in 1..Len(inside) : inside[k] = journal[j]
    BY <1>5, <2>1
  <2> HIDE DEF opening
  <2>3. /\ touched \in Seq(Written) /\ Len(touched) = Len(opening) + Len(inside)
        /\ touched[Len(opening) + k] = inside[k]
    BY <1>3, <1>5, <1>7, Joined
  <2>4. Len(inside) \in Nat /\ Len(opening) \in Nat
    BY <1>5, <1>7
  <2>5. Len(opening) + k \in 1..Len(touched)
    BY <2>3, <2>4
  <2> QED
    BY <2>2, <2>3, <2>5 DEF touched
<1> QED
  BY <1>8, <1>9

\* A sensor a journal corrects differently at two instants.
Disagree(journal, j, t, l, u, s) ==
    /\ InEffect(journal, j, t) /\ InEffect(journal, l, u)
    /\ CorrectionOf(journal[j].config, s) # CorrectionOf(journal[l].config, s)

\* An instant of a window.
WithinWindow(t, from, to) == t \in Int /\ from <= t /\ t <= to

\* A sensor among the changes of a window.
Announced(journal, from, to, s) ==
    \E k \in DOMAIN ChangesBetween(journal, from, to) : s \in ChangesBetween(journal, from, to)[k]

\* What a journal says of a window: each sensor whose correction differs at two of its instants.
LEMMA ChangesAreFound ==
    ASSUME NEW journal \in Seq(Written), NEW j, NEW t \in Int, InEffect(journal, j, t),
           NEW l, NEW u \in Int, InEffect(journal, l, u),
           NEW from \in Int, NEW to \in Int, from <= t, t <= to, from <= u, u <= to,
           NEW s, CorrectionOf(journal[j].config, s) # CorrectionOf(journal[l].config, s)
    PROVE  \E k \in DOMAIN ChangesBetween(journal, from, to) : s \in ChangesBetween(journal, from, to)[k]
<1> DEFINE touched == Spanning(journal, from, to)
           moves == ChangesBetween(journal, from, to)
<1>0. \A i, v : /\ v \in Int /\ InEffect(journal, i, v) /\ from <= v /\ v <= to
                => /\ Spanning(journal, from, to) \in Seq(Written)
                   /\ \E p \in 1..Len(Spanning(journal, from, to)) :
                         Spanning(journal, from, to)[p] = journal[i]
  BY SpanningHas
<1>1. /\ Spanning(journal, from, to) \in Seq(Written)
      /\ \E p \in 1..Len(touched) : touched[p] = journal[j]
  BY <1>0
<1>2. \E q \in 1..Len(touched) : touched[q] = journal[l]
  BY <1>0
<1>a. touched \in Seq(Written)
  BY <1>1
<1>3. moves = [i \in 1..(Len(touched) - 1) |-> Compare(touched[i].config, touched[i + 1].config)]
  BY DEF ChangesBetween
<1> HIDE DEF touched, moves
<1>4. PICK p \in 1..Len(touched) : touched[p] = journal[j]
  BY <1>1
<1>5. PICK q \in 1..Len(touched) : touched[q] = journal[l]
  BY <1>2
<1>6. CorrectionOf(touched[p].config, s) # CorrectionOf(touched[q].config, s)
  BY <1>4, <1>5
<1>7. p < q \/ q < p
  <2>1. p # q
    BY <1>6
  <2> QED
    BY <1>a, <2>1
<1>8. \E k \in 1..(Len(touched) - 1) : s \in Compare(touched[k].config, touched[k + 1].config)
  <2>1. CASE p < q
    BY <1>a, <1>6, <2>1, SomeStepMoved
  <2>2. CASE q < p
    BY <1>a, <1>6, <2>2, SomeStepMoved
  <2> QED
    BY <1>7, <2>1, <2>2
<1> QED
  BY <1>3, <1>8 DEF moves

\* The same, of two instants at which the journal disagrees.
LEMMA DisagreementTold ==
    ASSUME NEW journal \in Seq(Written), NEW j, NEW t, NEW l, NEW u, NEW s,
           Disagree(journal, j, t, l, u, s),
           NEW from \in Int, NEW to \in Int, WithinWindow(t, from, to), WithinWindow(u, from, to)
    PROVE  Announced(journal, from, to, s)
<1>1. t \in Int /\ u \in Int /\ from <= t /\ t <= to /\ from <= u /\ u <= to
  BY DEF WithinWindow
<1>2. /\ InEffect(journal, j, t) /\ InEffect(journal, l, u)
      /\ CorrectionOf(journal[j].config, s) # CorrectionOf(journal[l].config, s)
  BY DEF Disagree
<1>3. \E k \in DOMAIN ChangesBetween(journal, from, to) : s \in ChangesBetween(journal, from, to)[k]
  BY <1>1, <1>2, ChangesAreFound
<1> QED
  BY <1>3 DEF Announced

\* The coverage of a sensor starts and ends with its readings.
LEMMA CoverageIs ==
    ASSUME NEW log \in Seq(Row), NEW i \in 1..Len(log)
    PROVE  LET c == Coverage(log, log[i].sensor) IN
           /\ c.first \in Int /\ c.first <= log[i].at
           /\ c.last \in Int /\ log[i].at <= c.last
<1> DEFINE s == log[i].sensor
           q == Query(log, s, Open, Open)
           found == Matching(log, s, Open, Open)
           times == Times(q)
           c == Coverage(log, s)
<1>1. /\ q \in Seq(Row)
      /\ \E place \in [1..Len(q) -> found] :
            /\ \A k \in 1..Len(q) : q[k] = log[place[k]]
            /\ \A l \in found : \E k \in 1..Len(q) : place[k] = l
      /\ \A j, k \in 1..Len(q) : j < k => q[j].at <= q[k].at
  BY QueryIs
<1>2. i \in found
  BY MatchingIs DEF InWindow
<1>3. c.first = times[1] /\ c.last = times[Len(times)]
  BY DEF Coverage
<1> HIDE DEF q, c
<1>4. PICK k \in 1..Len(q) : q[k] = log[i]
  BY <1>1, <1>2
<1>5. Len(q) \in Nat /\ 1 \in 1..Len(q) /\ Len(q) \in 1..Len(q) /\ DOMAIN q = 1..Len(q)
  BY <1>1, <1>4
<1>6. times = [l \in 1..Len(q) |-> q[l].at]
  BY <1>5 DEF Times
<1>7. Len(times) = Len(q)
  BY <1>5, <1>6
<1>8. c.first = q[1].at /\ c.last = q[Len(q)].at
  BY <1>3, <1>5, <1>6, <1>7
<1>9. \A l \in 1..Len(q) : q[l].at \in Int
  <2>1. \A l \in 1..Len(q) : q[l] \in Row
    BY <1>1
  <2> QED
    BY <2>1 DEF Row
<1>10. q[1].at <= q[k].at /\ q[k].at <= q[Len(q)].at
  <2>1. (1 = k \/ 1 < k) /\ (k = Len(q) \/ k < Len(q))
    <3> DEFINE n == Len(q)
    <3>1. n \in Nat /\ k \in 1..n
      BY <1>4, <1>5
    <3> HIDE DEF n
    <3>2. (1 = k \/ 1 < k) /\ (k = n \/ k < n)
      BY <3>1
    <3> QED
      BY <3>2 DEF n
  <2>2. q[1].at \in Int /\ q[k].at \in Int /\ q[Len(q)].at \in Int
    BY <1>5, <1>9
  <2>3. 1 < k => q[1].at <= q[k].at
    BY <1>1, <1>5
  <2>4. k < Len(q) => q[k].at <= q[Len(q)].at
    BY <1>1, <1>5
  <2> QED
    BY <2>1, <2>2, <2>3, <2>4
<1>11. /\ c.first \in Int /\ c.first <= log[i].at
       /\ c.last \in Int /\ log[i].at <= c.last
  BY <1>4, <1>5, <1>8, <1>9, <1>10
<1> QED
  BY <1>11 DEF c

\* A reading a report covers lies within the window of its warning.
LEMMA WarnedWindow ==
    ASSUME Typed, Answered("window"), NEW i \in 1..Len(Saw("window")),
           InWindow(rows[i].at, ask.start, ask.end)
    PROVE  /\ WarnedFrom \in Int /\ WarnedFrom <= rows[i].at
           /\ WarnedTo \in Int /\ rows[i].at <= WarnedTo
<1> DEFINE saw == Saw("window")
           of(k) == Coverage(saw, saw[k].sensor)
           first == [k \in 1..Len(saw) |-> of(k).first]
           last == [k \in 1..Len(saw) |-> of(k).last]
           firsts == {c.first : c \in Covered}
           lasts == {c.last : c \in Covered}
<1>1. saw \in Seq(Row) /\ saw[i] = rows[i] /\ Len(saw) \in Nat
  BY SawIs
<1>2. Covered = {Coverage(saw, s) : s \in {r.sensor : r \in ToSet(saw)}}
  BY DEF Covered
<1>3. ask.start \in Int \cup {Open} /\ ask.end \in Int \cup {Open} /\ Open \notin Int
  BY AskIs, ReadersAssumption DEF CommandLine
<1> HIDE DEF saw
<1>4. ToSet(saw) = {saw[k] : k \in 1..Len(saw)}
  BY <1>1 DEF ToSet
<1>5. \A k \in 1..Len(saw) : /\ of(k).first \in Int /\ of(k).first <= saw[k].at
                             /\ of(k).last \in Int /\ saw[k].at <= of(k).last
  BY <1>1, CoverageIs
<1> HIDE DEF of
<1>6. Covered = {of(k) : k \in 1..Len(saw)}
  BY <1>2, <1>4 DEF of
<1>7. firsts = {first[k] : k \in DOMAIN first} /\ lasts = {last[k] : k \in DOMAIN last}
  BY <1>6
<1>8. IsFiniteSet(1..Len(saw)) /\ DOMAIN first = 1..Len(saw) /\ DOMAIN last = 1..Len(saw)
  BY <1>1, FS_Interval
<1>9. IsFiniteSet(firsts) /\ IsFiniteSet(lasts)
  <2> HIDE DEF firsts, lasts, first, last
  <2> QED
    BY <1>7, <1>8, FiniteImage
<1>10. i \in 1..Len(saw)
  BY DEF saw
<1>11. /\ firsts \subseteq Int /\ of(i).first \in firsts
       /\ lasts \subseteq Int /\ of(i).last \in lasts
  BY <1>5, <1>6, <1>10
<1> HIDE DEF firsts, lasts
<1>12. /\ Min(firsts) \in Int /\ Min(firsts) <= of(i).first
       /\ Max(lasts) \in Int /\ of(i).last <= Max(lasts)
  <2>1. firsts # {} /\ lasts # {}
    BY <1>11
  <2>2. Min(firsts) \in firsts /\ \A y \in firsts : Min(firsts) <= y
    BY <1>9, <1>11, <2>1, Extremes
  <2>3. Max(lasts) \in lasts /\ \A y \in lasts : y <= Max(lasts)
    BY <1>9, <1>11, <2>1, Extremes
  <2> QED
    BY <1>11, <2>2, <2>3
<1>13. of(i).first \in Int /\ of(i).first <= rows[i].at /\ of(i).last \in Int /\ rows[i].at <= of(i).last
  BY <1>1, <1>5, <1>10
<1>14. rows[i].at \in Int
  <2>1. saw[i] \in Row
    BY <1>1, <1>10
  <2> QED
    BY <1>1, <2>1 DEF Row
<1>15. WarnedFrom = (IF ask.start # Open THEN ask.start ELSE Min(firsts))
       /\ WarnedTo = (IF ask.end # Open THEN ask.end ELSE Max(lasts))
  BY DEF WarnedFrom, WarnedTo, firsts, lasts
<1>16. (ask.start = Open \/ ask.start <= rows[i].at) /\ (ask.end = Open \/ rows[i].at < ask.end)
  BY DEF InWindow
<1>17. WarnedFrom \in Int /\ WarnedFrom <= rows[i].at
  <2>1. CASE ask.start = Open
    BY <1>12, <1>13, <1>14, <1>15, <2>1
  <2>2. CASE ask.start # Open
    BY <1>3, <1>15, <1>16, <2>2
  <2> QED
    BY <2>1, <2>2
<1>18. WarnedTo \in Int /\ rows[i].at <= WarnedTo
  <2>1. CASE ask.end = Open
    BY <1>12, <1>13, <1>14, <1>15, <2>1
  <2>2. CASE ask.end # Open
    BY <1>3, <1>14, <1>15, <1>16, <2>2
  <2> QED
    BY <2>1, <2>2
<1> QED
  BY <1>17, <1>18

\* What the warning was made from names the configuration of each reading it covers.
LEMMA JournalNames ==
    ASSUME ReadersInv, Attributed, ask.journal, Answered("window"), Answered("moves"),
           Place("window") < Place("moves"), NEW i \in 1..Len(Saw("window"))
    PROVE  LET journal == SubSeq(epochs, 1, seen[Place("moves")].epochs) IN
           /\ journal \in Seq(Written) /\ rows[i].at \in Int
           /\ \E j : InEffect(journal, j, rows[i].at) /\ journal[j].config = made[i]
<1> DEFINE w == Place("window")
           m == Place("moves")
           n == seen[m].epochs
           journal == SubSeq(epochs, 1, n)
           t == rows[i].at
<1>0. Typed
  BY DEF ReadersInv
<1>1. /\ epochs \in Seq(Written) /\ Len(epochs) \in Nat /\ Len(rows) \in Nat
      /\ \A l \in 1..Len(rows) : rows[l].at \in Int
      /\ \A j \in 1..Len(epochs) : epochs[j].at \in Nat
      /\ \A k \in 1..Len(seen) : seen[k].at \in Nat /\ seen[k].epochs \in Nat /\ seen[k].epochs <= Len(epochs)
  BY <1>0, RecordIs
<1>2. w \in 1..Len(seen) /\ m \in 1..Len(seen)
  BY <1>0, PlaceIs
<1>3. seen[w].at <= seen[m].at
  BY <1>0, <1>2 DEF Typed, Looked
<1>4. Len(Saw("window")) = seen[w].rows /\ Len(Saw("window")) \in 0..Len(rows)
  BY <1>0, SawIs
<1>5. i \in 1..Len(rows) /\ i <= seen[w].rows
  BY <1>1, <1>4
<1> HIDE DEF w, m
<1>6. t <= seen[w].at
  BY <1>2, <1>5 DEF Attributed
<1>7. \A k \in 1..Len(epochs) : n < k => t < epochs[k].at
  <2>1. t \in Int /\ seen[w].at \in Int /\ seen[m].at \in Int /\ t <= seen[m].at
    BY <1>1, <1>2, <1>3, <1>5, <1>6
  <2> TAKE k \in 1..Len(epochs)
  <2>2. n < k => seen[m].at < epochs[k].at
    BY <1>2 DEF Attributed
  <2>3. epochs[k].at \in Int
    BY <1>1
  <2> QED
    BY <2>1, <2>2, <2>3
<1>8. epochs # <<>>
  BY <1>0 DEF Typed, Journalled
<1>9. PICK j \in 1..Len(epochs) : InEffect(epochs, j, t) /\ epochs[j].config = made[i]
  BY <1>5, <1>8 DEF Attributed
<1>10. n \in Nat /\ n <= Len(epochs)
  BY <1>1, <1>2
<1> HIDE DEF n
<1>11. j <= n
  <2>1. epochs[j].at <= t /\ epochs[j].at \in Int /\ t \in Int
    BY <1>1, <1>5, <1>9 DEF InEffect
  <2>2. ~(n < j)
    <3>1. n < j => t < epochs[j].at
      BY <1>7
    <3> QED
      BY <2>1, <3>1
  <2> QED
    BY <1>10, <2>2
<1>12. journal \in Seq(Written) /\ Len(journal) = n /\ \A k \in 1..n : journal[k] = epochs[k]
  BY <1>1, <1>10
<1>13. InEffect(journal, j, t) /\ journal[j].config = made[i]
  <2>1. j \in 1..n
    BY <1>10, <1>11
  <2>2. epochs[j].at <= t /\ \A k \in 1..Len(epochs) : j < k => t < epochs[k].at
    BY <1>9 DEF InEffect
  <2> HIDE DEF journal, t
  <2>3. \A k \in 1..Len(journal) : k \in 1..Len(epochs) /\ journal[k] = epochs[k]
    BY <1>1, <1>10, <1>12
  <2>4. j \in 1..Len(journal)
    BY <1>12, <2>1
  <2> QED
    BY <1>9, <2>2, <2>3, <2>4 DEF InEffect
<1>14. t \in Int
  BY <1>1, <1>5
<1> QED
  BY <1>12, <1>13, <1>14 DEF n, m

\* What the property of the warning says.
LEMMA WarningHolds == ReadersInv /\ Attributed => WarnedOfEveryMove
<1> SUFFICES ASSUME ReadersInv, Attributed, ask.tool = "report", ask.journal, Answered("moves")
             PROVE  WarnedOfEveryMove
  BY DEF WarnedOfEveryMove
<1>0. Typed
  BY DEF ReadersInv
<1>1. Asked(ask, "window") /\ Asked(ask, "moves")
  <2>1. InOrder[3] = "moves"
    BY InOrderIs
  <2>2. Kind(ask) \notin {"usage", "provenance"}
    <3>1. PICK q \in 1..Len(seen) : seen[q].what = "moves"
      BY <1>0 DEF Answered, Typed, Looked
    <3>2. q \in 1..Len(Plan) /\ seen[q].what = Plan[q]
      <4>1. "moves" \notin {"around", "occasions"} /\ q \in 1..q
        <5>1. Len(seen) \in Nat
          BY <1>0, RecordIs
        <5> QED
          BY <5>1
      <4>2. seen[q].what \notin {"around", "occasions"}
        BY <3>1, <4>1
      <4> QED
        BY <4>1, <4>2, AsPlanned
    <3>3. Asked(ask, "moves")
      BY <3>1, <3>2, PlanIs
    <3> QED
      BY <3>3 DEF Asked, Topics
  <2> QED
    BY <2>2 DEF Asked
<1>2. Answered("window") /\ Place("window") < Place("moves")
  <2>1. InOrder[2] = "window" /\ InOrder[3] = "moves"
    BY InOrderIs
  <2> QED
    BY <1>1, <2>1, AnsweredInOrder
<1> DEFINE saw == Saw("window")
           journal == SubSeq(epochs, 1, seen[Place("moves")].epochs)
           moves == ChangesBetween(journal, WarnedFrom, WarnedTo)
<1>3. saw \in Seq(Row) /\ DOMAIN saw = 1..Len(saw)
  <2>1. saw \in Seq(Row)
    BY <1>0, <1>2, SawIs
  <2> HIDE DEF saw
  <2> QED
    BY <2>1
<1>4. ASSUME NEW i \in DOMAIN saw, NEW j \in DOMAIN saw, rows[i].sensor = rows[j].sensor,
             rows[i].sensor \in InPlay(ask),
             InWindow(rows[i].at, ask.start, ask.end), InWindow(rows[j].at, ask.start, ask.end),
             CorrectionOf(made[i], rows[i].sensor) # CorrectionOf(made[j], rows[j].sensor)
      PROVE  rows[i].sensor \in Warned
  <2> DEFINE s == rows[i].sensor
  <2>1. i \in 1..Len(saw) /\ j \in 1..Len(saw)
    BY <1>3, <1>4
  <2>2. saw # <<>>
    <3> HIDE DEF saw
    <3> QED
      BY <1>3, <2>1
  <2>3. Warned = UNION {moves[k] \cap InPlay(ask) : k \in DOMAIN moves}
    BY <2>2 DEF Warned
  <2>4. /\ WarnedFrom \in Int /\ WarnedFrom <= rows[i].at /\ rows[i].at <= WarnedTo
        /\ WarnedTo \in Int /\ WarnedFrom <= rows[j].at /\ rows[j].at <= WarnedTo
    BY <1>0, <1>2, <1>4, <2>1, WarnedWindow
  <2>5. /\ journal \in Seq(Written) /\ rows[i].at \in Int
        /\ \E k : InEffect(journal, k, rows[i].at) /\ journal[k].config = made[i]
    BY <1>2, <2>1, JournalNames
  <2>6. /\ rows[j].at \in Int
        /\ \E k : InEffect(journal, k, rows[j].at) /\ journal[k].config = made[j]
    BY <1>2, <2>1, JournalNames
  <2> HIDE DEF journal
  <2>7. PICK k : InEffect(journal, k, rows[i].at) /\ journal[k].config = made[i]
    BY <2>5
  <2>8. PICK l : InEffect(journal, l, rows[j].at) /\ journal[l].config = made[j]
    BY <2>6
  <2>9. CorrectionOf(journal[k].config, s) # CorrectionOf(journal[l].config, s)
    BY <1>4, <2>7, <2>8
  <2>10. Announced(journal, WarnedFrom, WarnedTo, s)
    <3>1. Disagree(journal, k, rows[i].at, l, rows[j].at, s)
      BY <2>7, <2>8, <2>9 DEF Disagree
    <3>2. WithinWindow(rows[i].at, WarnedFrom, WarnedTo) /\ WithinWindow(rows[j].at, WarnedFrom, WarnedTo)
      BY <2>4, <2>5, <2>6 DEF WithinWindow
    <3>3. journal \in Seq(Written) /\ WarnedFrom \in Int /\ WarnedTo \in Int
      BY <2>4, <2>5
    <3> QED
      BY <3>1, <3>2, <3>3, DisagreementTold
  <2>11. \E m \in DOMAIN moves : s \in moves[m]
    BY <2>10 DEF Announced
  <2> QED
    BY <1>4, <2>3, <2>11
<1> QED
  BY <1>4 DEF WarnedOfEveryMove, saw

\* No reading under a moved correction goes without the warning.
THEOREM WarnedOfEveryMoveAlways == Spec => []WarnedOfEveryMove
  BY AttributedAlways, WarningHolds, PTL

-------------------------------------------------------------------------------
(***************************************************************************)
(* The instants of a sensor, and the gaps between them.                    *)
(***************************************************************************)

\* Instants in the order of time, each once.
Listed(T, n, S) ==
    /\ n \in Nat /\ DOMAIN T = 1..n
    /\ \A k \in 1..n : T[k] \in Int
    /\ \A j, k \in 1..n : j < k => T[j] < T[k]
    /\ S = {T[k] : k \in 1..n}

Neighbours(S) ==
    {p[2] - p[1] : p \in {q \in S \X S : q[1] < q[2] /\ \A u \in S : u <= q[1] \/ q[2] <= u}}

\* What is listed is a set of that many integers, from the first to the last.
LEMMA ListedIs ==
    ASSUME NEW T, NEW n, NEW S, Listed(T, n, S)
    PROVE  /\ S \subseteq Int /\ IsFiniteSet(S) /\ Cardinality(S) = n
           /\ S = {} <=> n = 0
           /\ n > 0 => Max(S) = T[n] /\ Min(S) = T[1]
<1>1. /\ n \in Nat /\ DOMAIN T = 1..n
      /\ \A k \in 1..n : T[k] \in Int
      /\ \A j, k \in 1..n : j < k => T[j] < T[k]
      /\ S = {T[k] : k \in 1..n}
  BY DEF Listed
<1>2. S \subseteq Int
  BY <1>1
<1>3. IsFiniteSet(S) /\ Cardinality(S) = n
  <2> DEFINE f == [k \in 1..n |-> T[k]]
  <2>1. f \in Bijection(1..n, S) /\ ExistsBijection(1..n, S)
    <3>1. \A j, k \in 1..n : T[j] = T[k] => j = k
      <4> SUFFICES ASSUME NEW j \in 1..n, NEW k \in 1..n, j # k PROVE T[j] # T[k]
        OBVIOUS
      <4>1. j < k \/ k < j
        BY <1>1
      <4>2. T[j] \in Int /\ T[k] \in Int
        BY <1>1
      <4>3. T[j] < T[k] \/ T[k] < T[j]
        BY <1>1, <4>1
      <4> QED
        BY <4>2, <4>3
    <3>2. f \in Injection(1..n, S)
      BY <1>1, <3>1 DEF Injection, IsInjective
    <3>3. f \in Surjection(1..n, S)
      BY <1>1 DEF Surjection
    <3> QED
      BY <3>2, <3>3 DEF Bijection, ExistsBijection
  <2>2. IsFiniteSet(1..n) /\ Cardinality(1..n) = n
    BY <1>1, FS_Interval
  <2> HIDE DEF f
  <2>3. IsFiniteSet(S) /\ Cardinality(S) = Cardinality(1..n)
    BY <2>1, <2>2, FS_Bijection
  <2> QED
    BY <2>2, <2>3
<1>4. S = {} <=> n = 0
  BY <1>3, FS_EmptySet
<1>5. n > 0 => Max(S) = T[n] /\ Min(S) = T[1]
  <2> SUFFICES ASSUME n > 0 PROVE Max(S) = T[n] /\ Min(S) = T[1]
    OBVIOUS
  <2>1. /\ Max(S) \in S /\ \A y \in S : y <= Max(S)
        /\ Min(S) \in S /\ \A y \in S : Min(S) <= y
    <3>1. S # {}
      BY <1>1, <1>4
    <3> QED
      BY <1>2, <1>3, <3>1, Extremes
  <2>2. 1 \in 1..n /\ n \in 1..n /\ T[1] \in S /\ T[n] \in S
    BY <1>1
  <2>3. PICK j \in 1..n : T[j] = Max(S)
    BY <1>1, <2>1
  <2>4. PICK k \in 1..n : T[k] = Min(S)
    BY <1>1, <2>1
  <2>5. (j = n \/ j < n) /\ (k = 1 \/ 1 < k)
    BY <1>1
  <2>6. j < n => T[j] < T[n]
    BY <1>1, <2>2
  <2>7. 1 < k => T[1] < T[k]
    BY <1>1, <2>2
  <2>8. T[n] <= Max(S) /\ Min(S) <= T[1]
    BY <2>1, <2>2
  <2>9. Max(S) \in Int /\ Min(S) \in Int /\ T[n] \in Int /\ T[1] \in Int
    BY <1>1, <1>2, <2>1, <2>2
  <2>10. j = n
    BY <2>3, <2>5, <2>6, <2>8, <2>9
  <2>11. k = 1
    BY <2>4, <2>5, <2>7, <2>8, <2>9
  <2> QED
    BY <2>3, <2>4, <2>10, <2>11
<1> QED
  BY <1>2, <1>3, <1>4, <1>5

\* The gaps between neighbours are those between one and the next in the list.
LEMMA NeighboursAre ==
    ASSUME NEW T, NEW n, NEW S, Listed(T, n, S)
    PROVE  Neighbours(S) = {T[k + 1] - T[k] : k \in 1..(n - 1)}
<1>1. /\ n \in Nat
      /\ \A k \in 1..n : T[k] \in Int
      /\ \A j, k \in 1..n : j < k => T[j] < T[k]
      /\ S = {T[k] : k \in 1..n}
  BY DEF Listed
<1> DEFINE apart == {q \in S \X S : q[1] < q[2] /\ \A u \in S : u <= q[1] \/ q[2] <= u}
           steps == {T[k + 1] - T[k] : k \in 1..(n - 1)}
<1>2. ASSUME NEW q \in apart PROVE q[2] - q[1] \in steps
  <2>1. q[1] \in S /\ q[2] \in S /\ q[1] < q[2] /\ \A u \in S : u <= q[1] \/ q[2] <= u
    OBVIOUS
  <2>2. PICK j \in 1..n : T[j] = q[1]
    BY <1>1, <2>1
  <2>3. PICK k \in 1..n : T[k] = q[2]
    BY <1>1, <2>1
  <2>4. j < k
    <3>1. j = k \/ k < j \/ j < k
      BY <1>1
    <3>2. T[j] \in Int /\ T[k] \in Int /\ T[j] < T[k]
      BY <1>1, <2>1, <2>2, <2>3
    <3>3. k < j => T[k] < T[j]
      BY <1>1
    <3> QED
      BY <3>1, <3>2, <3>3
  <2>5. k = j + 1
    <3>1. j + 1 \in 1..n /\ (k = j + 1 \/ j + 1 < k) /\ j < j + 1
      BY <1>1, <2>4
    <3>2. T[j] \in Int /\ T[j + 1] \in Int /\ T[k] \in Int
      BY <1>1, <3>1
    <3>3. T[j] < T[j + 1]
      BY <1>1, <3>1
    <3>4. j + 1 < k => T[j + 1] < T[k]
      BY <1>1, <3>1
    <3>5. T[j + 1] <= T[j] \/ T[k] <= T[j + 1]
      BY <1>1, <2>1, <2>2, <2>3, <3>1
    <3> QED
      BY <3>1, <3>2, <3>3, <3>4, <3>5
  <2>6. j \in 1..(n - 1)
    BY <1>1, <2>4
  <2> QED
    BY <2>2, <2>3, <2>5, <2>6
<1>3. ASSUME NEW k \in 1..(n - 1) PROVE <<T[k], T[k + 1]>> \in apart
  <2>1. k \in 1..n /\ k + 1 \in 1..n /\ k < k + 1
    BY <1>1
  <2>2. T[k] \in S /\ T[k + 1] \in S /\ T[k] < T[k + 1]
    BY <1>1, <2>1
  <2>3. ASSUME NEW u \in S PROVE u <= T[k] \/ T[k + 1] <= u
    <3>1. PICK l \in 1..n : T[l] = u
      BY <1>1
    <3>2. l < k \/ l = k \/ l = k + 1 \/ k + 1 < l
      BY <1>1
    <3>3. T[l] \in Int /\ T[k] \in Int /\ T[k + 1] \in Int
      BY <1>1, <2>1
    <3>4. (l < k => T[l] < T[k]) /\ (k + 1 < l => T[k + 1] < T[l])
      BY <1>1, <2>1
    <3> QED
      BY <3>1, <3>2, <3>3, <3>4
  <2> QED
    BY <2>2, <2>3
<1>4. {p[2] - p[1] : p \in apart} = steps
  <2>1. {p[2] - p[1] : p \in apart} \subseteq steps
    <3> HIDE DEF apart, steps
    <3> QED
      BY <1>2
  <2>2. ASSUME NEW x \in steps PROVE x \in {p[2] - p[1] : p \in apart}
    <3>1. PICK k \in 1..(n - 1) : x = T[k + 1] - T[k]
      BY <2>2
    <3> DEFINE p == <<T[k], T[k + 1]>>
    <3>2. p \in apart /\ p[2] - p[1] = x
      BY <1>3, <3>1
    <3> HIDE DEF apart, p
    <3> QED
      BY <3>2
  <2> QED
    BY <2>1, <2>2
<1> QED
  BY <1>4 DEF Neighbours

\* The instants of the readings of a sensor, as a query lists them.
Instants(log, sensor) == Times(Query(log, sensor, Open, Open))

\* They are the instants of its rows, in order and each of them once.
LEMMA InstantsListed ==
    ASSUME NEW log \in Seq(Row), Distinct(log), NEW sensor
    PROVE  /\ Instants(log, sensor) \in Seq(Int)
           /\ Len(Instants(log, sensor)) = SampleCount(log, sensor, Open, Open)
           /\ Listed(Instants(log, sensor), Len(Instants(log, sensor)),
                     {r.at : r \in {q \in ToSet(log) : q.sensor = sensor}})
<1> DEFINE q == Query(log, sensor, Open, Open)
           found == Matching(log, sensor, Open, Open)
           T == Instants(log, sensor)
           heard == {r \in ToSet(log) : r.sensor = sensor}
           S == {r.at : r \in heard}
<1>1. /\ q \in Seq(Row) /\ InTime(q)
      /\ Len(q) = SampleCount(log, sensor, Open, Open)
      /\ \E place \in [1..Len(q) -> found] :
            /\ \A k \in 1..Len(q) : q[k] = log[place[k]]
            /\ \A i \in found : \E k \in 1..Len(q) : place[k] = i
  BY QueryIs
<1>2. found = {i \in 1..Len(log) : log[i].sensor = sensor}
  BY MatchingIs DEF InWindow
<1>3. T = Times(q)
  BY DEF Instants
<1> HIDE DEF q, found, T
<1>4. PICK place \in [1..Len(q) -> found] :
            /\ \A k \in 1..Len(q) : q[k] = log[place[k]]
            /\ \A i \in found : \E k \in 1..Len(q) : place[k] = i
  BY <1>1
<1>5. DOMAIN q = 1..Len(q) /\ Len(q) \in Nat /\ \A k \in 1..Len(q) : q[k] \in Row
  BY <1>1
<1>6. T = [k \in 1..Len(q) |-> q[k].at]
  BY <1>3, <1>5 DEF Times
<1>7. \A k \in 1..Len(q) : q[k].at \in Int
  BY <1>5 DEF Row
<1>8. T \in Seq(Int) /\ Len(T) = Len(q) /\ DOMAIN T = 1..Len(q)
  BY <1>5, <1>6, <1>7
<1>9. S = {T[k] : k \in 1..Len(q)}
  <2>1. ToSet(log) = {log[i] : i \in 1..Len(log)}
    BY DEF ToSet
  <2>2. heard = {log[i] : i \in found}
    BY <1>2, <2>1
  <2>3. heard = {q[k] : k \in 1..Len(q)}
    <3>1. ASSUME NEW r \in heard PROVE r \in {q[k] : k \in 1..Len(q)}
      BY <1>4, <2>2
    <3>2. ASSUME NEW k \in 1..Len(q) PROVE q[k] \in heard
      BY <1>4, <2>2
    <3> HIDE DEF heard
    <3> QED
      BY <3>1, <3>2
  <2> HIDE DEF heard
  <2> QED
    BY <1>6, <2>3
<1>10. \A j, k \in 1..Len(q) : j < k => T[j] < T[k]
  BY <1>1, <1>6 DEF InTime
<1> HIDE DEF S
<1>11. Listed(T, Len(T), S)
  BY <1>5, <1>6, <1>7, <1>8, <1>9, <1>10 DEF Listed
<1> QED
  BY <1>1, <1>8, <1>11 DEF T, S

\* The greater of two.
LEMMA GreaterIs ==
    ASSUME NEW a \in Int, NEW b \in Int
    PROVE  Max({a, b}) \in {a, b} /\ a <= Max({a, b}) /\ b <= Max({a, b})
<1>1. IsFiniteSet({a, b})
  <2>1. IsFiniteSet({} \cup {a}) /\ {} \cup {a} = {a}
    BY FS_EmptySet, FS_AddElement
  <2>2. IsFiniteSet({a} \cup {b}) /\ {a} \cup {b} = {a, b}
    BY <2>1, FS_AddElement
  <2> QED
    BY <2>2
<1>2. {a, b} \subseteq Int /\ {a, b} # {} /\ a \in {a, b} /\ b \in {a, b}
  OBVIOUS
<1> QED
  BY <1>1, <1>2, Extremes

\* The gap that ends at a place of a list.
Step(T, i) == T[i] - T[i - 1]

\* The recent gaps are those from a place on, arranged by their length.
RecentOf(g, T, from, m, order) ==
    /\ from \in Nat /\ from >= 1 /\ m \in Nat /\ Len(T) = from + m
    /\ (m >= 3 \/ from = 1) /\ (Len(T) >= 2 => m >= 1)
    /\ g \in Seq(Int) /\ Len(g) = m
    /\ order \in [1..m -> 1..m]
    /\ \A k \in 1..m : g[k] = Step(T, from + order[k])
    /\ \A j, k \in 1..m : j < k => \/ g[j] < g[k]
                                   \/ g[j] = g[k] /\ order[j] < order[k]

\* The gaps the cadence is taken from are the last of them, sorted, and each is one
\* (connectivity.py:316).
LEMMA RecentGapsAre ==
    ASSUME NEW log \in Seq(Row), Distinct(log), NEW sensor, SampleCount(log, sensor, Open, Open) > 0
    PROVE  \E from, m, order : RecentOf(RecentGaps(log, sensor), Instants(log, sensor), from, m, order)
<1> DEFINE q == Query(log, sensor, Open, Open)
           T == Instants(log, sensor)
           n == Len(q)
           from == Max({1, n - CadenceSample + 1})
           part == SubSeq(q, from, n)
           times == Times(part)
           gaps == [i \in 1..(Len(times) - 1) |-> times[i + 1] - times[i]]
           g == Arranged(gaps, gaps)
           m == n - from
<1>1. q \in Seq(Row) /\ n = SampleCount(log, sensor, Open, Open)
  BY QueryIs
<1>2. T \in Seq(Int) /\ Len(T) = n
  BY <1>1, InstantsListed
<1>3. n \in Nat /\ n > 0 /\ \A i \in 1..n : T[i] = q[i].at
  <2>1. T = Times(q)
    BY DEF Instants
  <2> HIDE DEF q, T
  <2>2. n \in Nat /\ n > 0
    BY <1>1
  <2>3. DOMAIN q = 1..Len(q)
    BY <1>1
  <2> QED
    BY <2>1, <2>2, <2>3 DEF Times
<1>4. from \in {1, n - CadenceSample + 1} /\ 1 <= from /\ n - CadenceSample + 1 <= from
  <2> DEFINE b == n - CadenceSample + 1
  <2>1. b \in Int
    BY <1>3, ConnectivityAssumption
  <2> HIDE DEF b
  <2>2. Max({1, b}) \in {1, b} /\ 1 <= Max({1, b}) /\ b <= Max({1, b})
    BY <2>1, GreaterIs
  <2> QED
    BY <2>2 DEF b
<1>5. RecentGaps(log, sensor) = g
  BY DEF RecentGaps
<1> HIDE DEF q, T, from
<1>6. /\ from \in Nat /\ from <= n /\ m \in Nat /\ n = from + m
      /\ (m >= 3 \/ from = 1) /\ (n >= 2 => m >= 1)
  BY <1>3, <1>4, ConnectivityAssumption
<1>7. Len(part) = m + 1 /\ part \in Seq(Row) /\ \A i \in 1..(m + 1) : part[i] = q[from - 1 + i]
  <2>1. from \in 1..n /\ n \in 1..n /\ from <= n
    BY <1>3, <1>4, <1>6
  <2>2. part \in Seq(Row) /\ Len(part) = n - from + 1 /\ \A i \in 1..(n - from + 1) : part[i] = q[from + i - 1]
    BY <1>1, <2>1
  <2>3. \A i \in 1..(m + 1) : from + i - 1 = from - 1 + i
    BY <1>6
  <2> QED
    BY <1>6, <2>2, <2>3
<1> HIDE DEF part
<1>8. DOMAIN part = 1..(m + 1)
  BY <1>7
<1>9. times = [i \in 1..(m + 1) |-> part[i].at]
  BY <1>8 DEF Times
<1>10. Len(times) = m + 1 /\ \A i \in 1..(m + 1) : times[i] = T[from - 1 + i]
  <2>1. \A i \in 1..(m + 1) : from - 1 + i \in 1..n
    BY <1>3, <1>4, <1>6
  <2>2. Len(times) = m + 1
    BY <1>6, <1>9
  <2> QED
    BY <1>3, <1>7, <1>9, <2>1, <2>2
<1> HIDE DEF times
<1>11. gaps = [i \in 1..m |-> Step(T, from + i)]
  <2>1. Len(times) - 1 = m
    BY <1>6, <1>10
  <2>2. ASSUME NEW i \in 1..m PROVE times[i + 1] - times[i] = Step(T, from + i)
    <3>1. i \in 1..(m + 1) /\ i + 1 \in 1..(m + 1) /\ from - 1 + (i + 1) = from + i /\ from - 1 + i = (from + i) - 1
      BY <1>6
    <3>2. times[i + 1] = T[from + i] /\ times[i] = T[(from + i) - 1]
      BY <1>10, <3>1
    <3> QED
      BY <3>2 DEF Step
  <2> QED
    BY <2>1, <2>2
<1>12. \A i \in 1..m : Step(T, from + i) \in Int
  <2> TAKE i \in 1..m
  <2>1. from + i \in 1..n /\ (from + i) - 1 \in 1..n
    <3>1. i \in Int /\ 1 <= i /\ i <= m /\ from \in Int /\ 1 <= from /\ n = from + m /\ m \in Int
      BY <1>4, <1>6
    <3> QED
      BY <3>1
  <2>2. T[from + i] \in Int /\ T[(from + i) - 1] \in Int
    <3>1. \A k \in 1..n : T[k] \in Int
      BY <1>2
    <3> QED
      BY <2>1, <3>1
  <2> QED
    BY <2>2 DEF Step
<1>13. gaps \in Seq(Int) /\ Len(gaps) = m /\ DOMAIN gaps = 1..m /\ \A i \in 1..m : gaps[i] \in Int
  <2> HIDE DEF m, gaps
  <2> QED
    BY <1>6, <1>11, <1>12
<1> HIDE DEF gaps
<1> DEFINE order == Ordered(gaps)
<1>14. /\ g \in Seq(Int) /\ Len(g) = Cardinality(DOMAIN gaps)
       /\ order \in [1..Len(g) -> DOMAIN gaps]
       /\ \A k \in 1..Len(g) : g[k] = gaps[order[k]]
       /\ \A j, k \in 1..Len(g) : j < k <=> Before(gaps, order[j], order[k])
  <2>1. gaps \in Seq(Int) /\ DOMAIN gaps \subseteq 1..Len(gaps) /\ \A i \in DOMAIN gaps : gaps[i] \in Int
    BY <1>13
  <2> HIDE DEF m
  <2> QED
    BY <2>1, ArrangedIs
<1>15. Cardinality(DOMAIN gaps) = m
  BY <1>6, <1>13, FS_Interval
<1> HIDE DEF g, order, m
<1>b. m \in Nat
  BY <1>6
<1>16. /\ order \in [1..m -> 1..m]
       /\ \A k \in 1..m : g[k] = Step(T, from + order[k])
       /\ \A j, k \in 1..m : j < k => \/ g[j] < g[k]
                                      \/ g[j] = g[k] /\ order[j] < order[k]
  <2>1. Len(g) = m /\ order \in [1..m -> 1..m]
    BY <1>13, <1>14, <1>15
  <2>2. \A k \in 1..m : order[k] \in 1..m /\ g[k] = gaps[order[k]]
    BY <1>14, <2>1
  <2>3. \A k \in 1..m : g[k] = Step(T, from + order[k])
    BY <1>11, <2>2
  <2>4. \A j, k \in 1..m : j < k => \/ gaps[order[j]] < gaps[order[k]]
                                    \/ gaps[order[j]] = gaps[order[k]] /\ order[j] < order[k]
    BY <1>14, <2>1 DEF Before
  <2>5. ASSUME NEW j \in 1..m, NEW k \in 1..m, j < k
        PROVE  g[j] < g[k] \/ (g[j] = g[k] /\ order[j] < order[k])
    <3>1. g[j] = gaps[order[j]] /\ g[k] = gaps[order[k]]
      BY <2>2
    <3>2. gaps[order[j]] < gaps[order[k]] \/ (gaps[order[j]] = gaps[order[k]] /\ order[j] < order[k])
      BY <2>4, <2>5
    <3> QED
      BY <3>1, <3>2
  <2> QED
    BY <2>1, <2>3, <2>5
<1>17. RecentOf(g, T, from, m, order)
  BY <1>2, <1>4, <1>6, <1>14, <1>15, <1>16 DEF RecentOf
<1> QED
  BY <1>5, <1>17 DEF T

\* A cadence is twice a gap or the sum of two, and none where there are too few.
LEMMA CadenceIs ==
    ASSUME NEW log \in Seq(Row), Distinct(log), NEW sensor
    PROVE  LET c == Cadence(log, sensor)
               n == SampleCount(log, sensor, Open, Open)
               T == Instants(log, sensor)
           IN  /\ n < MinimumForCadence => c = 0
               /\ n >= MinimumForCadence =>
                     \E from, m, order, a, b :
                        /\ RecentOf(RecentGaps(log, sensor), T, from, m, order)
                        /\ a \in 1..m /\ b \in 1..m /\ a <= b /\ (m >= 3 => b < m)
                        /\ c = RecentGaps(log, sensor)[a] + RecentGaps(log, sensor)[b]
<1> DEFINE c == Cadence(log, sensor)
           n == SampleCount(log, sensor, Open, Open)
           T == Instants(log, sensor)
           g == RecentGaps(log, sensor)
<1>0. n \in Nat /\ MinimumForCadence \in Nat /\ 2 <= MinimumForCadence
  BY MatchingIs, ConnectivityAssumption
<1>1. n < MinimumForCadence => c = 0
  BY DEF Cadence
<1>2. ASSUME n >= MinimumForCadence
      PROVE  \E from, m, order, a, b :
                        /\ RecentOf(g, T, from, m, order)
                        /\ a \in 1..m /\ b \in 1..m /\ a <= b /\ (m >= 3 => b < m)
                        /\ c = g[a] + g[b]
  <2>1. n > 0 /\ n >= 2
    BY <1>0, <1>2
  <2>2. PICK from, m, order : RecentOf(g, T, from, m, order)
    BY <2>1, RecentGapsAre
  <2>3. m \in Nat /\ m >= 1 /\ Len(g) = m
    <3>1. Len(T) = n
      BY InstantsListed
    <3> HIDE DEF T, g
    <3> QED
      BY <2>1, <2>2, <3>1 DEF RecentOf
  <2> DEFINE a == (m + 1) \div 2
             b == m \div 2 + 1
  <2>4. c = g[a] + g[b]
    <3>1. ~(n < MinimumForCadence)
      BY <1>0, <1>2
    <3> QED
      BY <2>3, <3>1 DEF Cadence, MedianOf
  <2>5. a \in 1..m /\ b \in 1..m /\ a <= b /\ (m >= 3 => b < m)
    BY <2>3
  <2> HIDE DEF a, b, g, T, c
  <2> QED
    BY <2>2, <2>4, <2>5
<1> QED
  BY <1>1, <1>2

\* What a gap of a list is.
LEMMA StepIs ==
    ASSUME NEW T, NEW n, NEW S, Listed(T, n, S), NEW i \in 2..n
    PROVE  Step(T, i) \in Int /\ Step(T, i) > 0 /\ Step(T, i) \in Neighbours(S)
<1>1. i \in 1..n /\ i - 1 \in 1..n /\ i - 1 < i /\ i - 1 \in 1..(n - 1) /\ (i - 1) + 1 = i
  BY DEF Listed
<1>2. T[i] \in Int /\ T[i - 1] \in Int /\ T[i - 1] < T[i]
  BY <1>1 DEF Listed
<1>3. Step(T, i) = T[i] - T[i - 1]
  BY DEF Step
<1>4. Neighbours(S) = {T[k + 1] - T[k] : k \in 1..(n - 1)}
  BY NeighboursAre
<1>5. T[(i - 1) + 1] - T[i - 1] \in Neighbours(S)
  BY <1>1, <1>4
<1> QED
  BY <1>1, <1>2, <1>3, <1>5

\* The recent gaps are gaps between neighbours.
LEMMA RecentAreNeighbours ==
    ASSUME NEW g, NEW T, NEW from, NEW m, NEW order, RecentOf(g, T, from, m, order),
           NEW S, Listed(T, Len(T), S), NEW k \in 1..m
    PROVE  /\ from + order[k] \in 2..Len(T) /\ g[k] = Step(T, from + order[k])
           /\ g[k] \in Int /\ g[k] > 0 /\ g[k] \in Neighbours(S)
<1>1. /\ from \in Nat /\ from >= 1 /\ m \in Nat /\ Len(T) = from + m /\ order[k] \in 1..m
      /\ g[k] = Step(T, from + order[k])
  BY DEF RecentOf
<1> DEFINE i == from + order[k]
<1>2. i \in 2..Len(T)
  <2>1. from \in Int /\ from >= 1 /\ order[k] \in Int /\ 1 <= order[k] /\ order[k] <= m /\ m \in Int /\ Len(T) = from + m
    BY <1>1
  <2> QED
    BY <2>1
<1> HIDE DEF i
<1>3. Step(T, i) \in Int /\ Step(T, i) > 0 /\ Step(T, i) \in Neighbours(S)
  BY <1>2, StepIs
<1> QED
  BY <1>1, <1>2, <1>3 DEF i

\* There is a cadence where there are enough readings for one, and it is no less
\* than twice the shortest of all gaps.
LEMMA CadenceCounts ==
    ASSUME NEW log \in Seq(Row), Distinct(log), NEW sensor
    PROVE  LET c == Cadence(log, sensor)
               S == {r.at : r \in {q \in ToSet(log) : q.sensor = sensor}}
           IN  /\ c \in Nat
               /\ c > 0 => /\ Neighbours(S) # {} /\ Min(Neighbours(S)) \in Nat
                           /\ c >= 2 * Min(Neighbours(S))
<1> DEFINE c == Cadence(log, sensor)
           n == SampleCount(log, sensor, Open, Open)
           T == Instants(log, sensor)
           g == RecentGaps(log, sensor)
           S == {r.at : r \in {q \in ToSet(log) : q.sensor = sensor}}
           N == Neighbours(S)
<1>1. n \in Nat /\ MinimumForCadence \in Nat
  BY MatchingIs, ConnectivityAssumption
<1>2. Listed(T, Len(T), S) /\ T \in Seq(Int)
  BY InstantsListed
<1>3. /\ n < MinimumForCadence => c = 0
      /\ n >= MinimumForCadence =>
            \E from, m, order, a, b :
               /\ RecentOf(g, T, from, m, order)
               /\ a \in 1..m /\ b \in 1..m /\ a <= b /\ (m >= 3 => b < m)
               /\ c = g[a] + g[b]
  BY CadenceIs
<1> HIDE DEF c, n, T, g, S
<1>4. Len(T) \in Nat
  BY <1>2
<1>5. N \subseteq Nat /\ IsFiniteSet(N)
  <2> DEFINE f == [k \in 1..(Len(T) - 1) |-> T[k + 1] - T[k]]
  <2>1. N = {T[k + 1] - T[k] : k \in 1..(Len(T) - 1)}
    BY <1>2, NeighboursAre
  <2>2. N = {f[k] : k \in DOMAIN f}
    BY <2>1
  <2>3. IsFiniteSet(DOMAIN f)
    BY <1>4, FS_Interval
  <2>4. IsFiniteSet(N)
    <3> HIDE DEF f, N
    <3> QED
      BY <2>2, <2>3, FiniteImage
  <2>5. \A k \in 1..(Len(T) - 1) : T[k + 1] - T[k] \in Nat
    <3> TAKE k \in 1..(Len(T) - 1)
    <3>1. k \in 1..Len(T) /\ k + 1 \in 1..Len(T) /\ k < k + 1
      BY <1>4
    <3>2. T[k] \in Int /\ T[k + 1] \in Int /\ T[k] < T[k + 1]
      BY <1>2, <3>1 DEF Listed
    <3> QED
      BY <3>2
  <2> QED
    BY <2>1, <2>4, <2>5
<1>6. ASSUME n >= MinimumForCadence
      PROVE  c \in Nat /\ N # {} /\ Min(N) \in Nat /\ c >= 2 * Min(N)
  <2>1. PICK from, m, order, a, b :
               /\ RecentOf(g, T, from, m, order)
               /\ a \in 1..m /\ b \in 1..m /\ a <= b /\ (m >= 3 => b < m)
               /\ c = g[a] + g[b]
    BY <1>3, <1>6
  <2>2. g[a] \in Int /\ g[a] > 0 /\ g[a] \in N
    BY <1>2, <2>1, RecentAreNeighbours
  <2>3. g[b] \in Int /\ g[b] > 0 /\ g[b] \in N
    BY <1>2, <2>1, RecentAreNeighbours
  <2> HIDE DEF N
  <2>4. N # {} /\ N \subseteq Int
    BY <1>5, <2>2
  <2>5. Min(N) \in N /\ \A y \in N : Min(N) <= y
    BY <1>5, <2>4, Extremes
  <2>6. Min(N) \in Nat /\ Min(N) <= g[a] /\ Min(N) <= g[b]
    BY <1>5, <2>2, <2>3, <2>5
  <2> QED
    BY <2>1, <2>2, <2>3, <2>4, <2>6
<1>7. ASSUME n < MinimumForCadence PROVE c = 0
  BY <1>3, <1>7
<1>8. n >= MinimumForCadence \/ n < MinimumForCadence
  BY <1>1
<1>9. c \in Nat /\ (c > 0 => N # {} /\ Min(N) \in Nat /\ c >= 2 * Min(N))
  BY <1>6, <1>7, <1>8
<1> QED
  BY <1>9 DEF c, S

-------------------------------------------------------------------------------
(***************************************************************************)
(* The connection table.                                                   *)
(***************************************************************************)

\* A table that is finished has asked what is on record, and then for the cadences.
LEMMA TableAsked ==
    ASSUME ReadersInv, Connections
    PROVE  /\ Answered("recorded") /\ Answered("cadence")
           /\ Now \in Int
<1>1. /\ Typed /\ seen \in Seq(Answer) /\ Len(seen) \in Nat
      /\ \A k \in 1..Len(seen) : seen[k].what = Questions[k]
  BY DEF ReadersInv, Scripted, Typed, Looked
<1>2. Questions = <<"recorded", "cadence">>
  BY DEF Connections, Questions
<1>3. Len(Questions) = 2 /\ Questions[1] = "recorded" /\ Questions[2] = "cadence"
  BY <1>2
<1>4. Len(seen) <= 2
  BY <1>3 DEF ReadersInv, Scripted
<1>5. ~Answered("check") /\ ~Answered("earliest")
  <2> SUFFICES ASSUME NEW k \in 1..Len(seen), seen[k].what \in {"check", "earliest"} PROVE FALSE
    BY <1>1 DEF Answered
  <2>1. k = 1 \/ k = 2
    BY <1>1, <1>4
  <2> QED
    BY <1>1, <1>3, <2>1
<1>6. Len(seen) = 2
  BY <1>3, <1>5 DEF Connections, Done, Refused, RefusedAtFirst
<1>7. 1 \in 1..Len(seen) /\ 2 \in 1..Len(seen) /\ DOMAIN seen = 1..Len(seen)
  BY <1>1, <1>6
<1>8. seen[1].what = "recorded" /\ seen[2].what = "cadence"
  BY <1>1, <1>3, <1>7
<1>9. Answered("recorded") /\ Answered("cadence")
  BY <1>7, <1>8 DEF Answered
<1>10. Now \in Int
  <2>1. ask.idle \in Int
    BY <1>1, AskIs DEF CommandLine
  <2>2. seen[1].at \in Nat
    BY <1>1, <1>7, RecordIs
  <2> QED
    BY <2>1, <2>2 DEF Now
<1> QED
  BY <1>9, <1>10

\* The instants of a sensor that a statement saw.
LEMMA HeardIs ==
    ASSUME Typed, NEW topic, Answered(topic), NEW sensor
    PROVE  LET T == Instants(Saw(topic), sensor) IN
           /\ Saw(topic) \in Seq(Row) /\ Distinct(Saw(topic))
           /\ T \in Seq(Int) /\ Len(T) = SampleCount(Saw(topic), sensor, Open, Open) /\ Len(T) \in Nat
           /\ Listed(T, Len(T), Heard(topic, sensor))
           /\ Gaps(topic, sensor) = Neighbours(Heard(topic, sensor))
<1> DEFINE log == Saw(topic)
           T == Instants(log, sensor)
<1>1. log \in Seq(Row) /\ Distinct(log)
  BY SawIs
<1>2. Heard(topic, sensor) = {r.at : r \in {q \in ToSet(log) : q.sensor = sensor}}
  BY DEF Heard
<1>3. Gaps(topic, sensor) = Neighbours(Heard(topic, sensor))
  BY DEF Gaps, Neighbours
<1> HIDE DEF log
<1>4. /\ T \in Seq(Int) /\ Len(T) = SampleCount(log, sensor, Open, Open)
      /\ Listed(T, Len(T), {r.at : r \in {q \in ToSet(log) : q.sensor = sensor}})
  BY <1>1, InstantsListed
<1> HIDE DEF T
<1>5. Len(T) \in Nat
  BY <1>4
<1> QED
  BY <1>1, <1>2, <1>3, <1>4, <1>5 DEF log, T

\* A sensor is recorded in one unit, so its last reading is the last of the group.
LEMMA LastSeenIs ==
    ASSUME Typed, Answered("recorded"), NEW sensor, Heard("recorded", sensor) # {}
    PROVE  LastSeen(Saw("recorded"), sensor) = Max(Heard("recorded", sensor))
<1> DEFINE log == Saw("recorded")
           mine == {q \in ToSet(log) : q.sensor = sensor}
           units == UnitsOf(log, {sensor}, Open, Open)
           unit == CHOOSE u \in Units : u \in units
<1>1. /\ log \in Seq(Row) /\ Len(log) \in 0..Len(rows)
      /\ \A i \in 1..Len(log) : log[i] = rows[i]
  BY SawIs
<1>2. Heard("recorded", sensor) = {r.at : r \in mine}
  BY DEF Heard
<1> HIDE DEF log
<1>3. ToSet(log) = {log[i] : i \in 1..Len(log)}
  BY <1>1 DEF ToSet
<1>4. \A r \in mine : r \in Row /\ r.unit = UnitOf[sensor]
  <2> TAKE r \in mine
  <2>1. PICK i \in 1..Len(log) : r = log[i]
    BY <1>3
  <2>2. i \in 1..Len(rows) /\ log[i] = rows[i]
    BY <1>1
  <2>3. Proper(rows[i]) /\ rows[i].sensor = sensor
    BY <2>1, <2>2 DEF Typed, Appended, Kept
  <2> QED
    BY <2>1, <2>2, <2>3 DEF Proper
<1>5. units = {r.unit : r \in mine}
  BY DEF UnitsOf, InWindow
<1>6. mine # {}
  BY <1>2
<1> HIDE DEF mine
<1>7. units = {UnitOf[sensor]}
  BY <1>4, <1>5, <1>6
<1>8. UnitOf[sensor] \in Units
  <2>1. PICK r \in mine : r \in Row /\ r.unit = UnitOf[sensor]
    BY <1>4, <1>6
  <2> QED
    BY <2>1 DEF Row
<1> HIDE DEF units
<1>9. unit = UnitOf[sensor]
  BY <1>7, <1>8
<1>10. LastSeen(log, sensor) = Max({r.at : r \in {q \in ToSet(log) : q.sensor = sensor /\ q.unit = unit}})
  BY DEF LastSeen, units
<1> HIDE DEF unit
<1>11. {q \in ToSet(log) : q.sensor = sensor /\ q.unit = unit} = mine
  BY <1>4, <1>9 DEF mine
<1> QED
  BY <1>2, <1>10, <1>11 DEF log

\* A sensor is said never to have been heard exactly when it is not on record.
\* What is said of any other depends on how long it has been silent.
LEMMA VerdictIs ==
    ASSUME ReadersInv, Connections, NEW s
    PROVE  LET since == Now - Max(Heard("recorded", s))
               cadence == Cadence(Saw("cadence"), s)
           IN  /\ Heard("recorded", s) = {} => Verdict(s) = "never"
               /\ Heard("recorded", s) # {} =>
                     /\ since \in Int /\ cadence \in Nat
                     /\ since < -FutureTolerance => Verdict(s) = "late"
                     /\ since >= -FutureTolerance /\ cadence = 0 => Verdict(s) = "new"
                     /\ since >= -FutureTolerance /\ cadence > 0 =>
                           Verdict(s) = IF 2 * since >= cadence * SilentMultiple THEN "silent"
                                        ELSE IF 2 * since >= cadence * LateMultiple THEN "late"
                                        ELSE "live"
<1> DEFINE log == Saw("recorded")
           later == Saw("cadence")
           heard == Heard("recorded", s)
           since == Now - Max(heard)
           cadence == Cadence(later, s)
           T == Instants(log, s)
<1>0. Typed
  BY DEF ReadersInv
<1>1. Answered("recorded") /\ Answered("cadence") /\ Now \in Int
  BY TableAsked
<1>2. /\ Len(T) = SampleCount(log, s, Open, Open) /\ Len(T) \in Nat
      /\ Listed(T, Len(T), heard)
  BY <1>0, <1>1, HeardIs
<1>3. Verdict(s) = Judge(log, later, s, Now)
  BY DEF Verdict
<1>4. heard # {} => LastSeen(log, s) = Max(heard)
  BY <1>0, <1>1, LastSeenIs
<1> HIDE DEF heard, T, log
<1>5. heard = {} <=> Len(T) = 0
  BY <1>2, ListedIs
<1>6. heard # {} => Max(heard) \in Int
  <2>1. heard \subseteq Int /\ IsFiniteSet(heard)
    BY <1>2, ListedIs
  <2> QED
    BY <2>1, Extremes
<1>7. cadence \in Nat
  <2>1. later \in Seq(Row) /\ Distinct(later)
    BY <1>0, <1>1, SawIs
  <2> HIDE DEF later, cadence
  <2>2. cadence = Cadence(later, s)
    BY DEF cadence
  <2> QED
    BY <2>1, <2>2, CadenceCounts
<1> HIDE DEF later, cadence
<1>8. heard = {} => Verdict(s) = "never"
  BY <1>2, <1>3, <1>5 DEF Judge
<1>9. FutureTolerance \in Nat
  BY ConnectivityAssumption
<1>10. ASSUME heard # {}
       PROVE  /\ since \in Int
              /\ since < -FutureTolerance => Verdict(s) = "late"
              /\ since >= -FutureTolerance /\ cadence = 0 => Verdict(s) = "new"
              /\ since >= -FutureTolerance /\ cadence > 0 =>
                    Verdict(s) = IF 2 * since >= cadence * SilentMultiple THEN "silent"
                                 ELSE IF 2 * since >= cadence * LateMultiple THEN "late"
                                 ELSE "live"
  <2>1. since \in Int
    BY <1>1, <1>6, <1>10
  <2>2. SampleCount(log, s, Open, Open) # 0
    BY <1>2, <1>5, <1>10
  <2>3. Verdict(s) =
          CASE since < -FutureTolerance -> "late"
            [] since >= -FutureTolerance /\ cadence = 0 -> "new"
            [] since >= -FutureTolerance /\ cadence > 0 ->
                  IF 2 * since >= cadence * SilentMultiple THEN "silent"
                  ELSE IF 2 * since >= cadence * LateMultiple THEN "late"
                  ELSE "live"
    BY <1>3, <1>4, <1>10, <2>2 DEF Judge, cadence
  <2> HIDE DEF since
  <2>4. since < -FutureTolerance => Verdict(s) = "late"
    BY <1>7, <1>9, <2>1, <2>3
  <2>5. since >= -FutureTolerance /\ cadence = 0 => Verdict(s) = "new"
    BY <1>7, <1>9, <2>1, <2>3
  <2>6. since >= -FutureTolerance /\ cadence > 0 =>
          Verdict(s) = IF 2 * since >= cadence * SilentMultiple THEN "silent"
                       ELSE IF 2 * since >= cadence * LateMultiple THEN "late"
                       ELSE "live"
    BY <1>7, <1>9, <2>1, <2>3
  <2> QED
    BY <2>1, <2>4, <2>5, <2>6
<1> QED
  BY <1>7, <1>8, <1>10 DEF log, later, heard, cadence

\* Products of a greater number are greater.
LEMMA Products ==
    ASSUME NEW a \in Int, NEW b \in Int, a <= b, NEW k \in Nat
    PROVE  a * k \in Int /\ b * k \in Int /\ a * k <= b * k
<1>1. (b - a) * k >= 0 /\ (b - a) * k = b * k - a * k
  OBVIOUS
<1> QED
  BY <1>1

\* Beyond a multiple of a cadence is beyond that multiple of the shortest gap.
LEMMA BeyondShortest ==
    ASSUME NEW c \in Nat, NEW shortest \in Nat, c >= 2 * shortest, NEW since \in Int,
           2 * since >= c * SilentMultiple \/ 2 * since >= c * LateMultiple
    PROVE  since >= LateMultiple * shortest
<1>1. LateMultiple \in Nat /\ SilentMultiple \in Nat /\ LateMultiple <= SilentMultiple
  BY ConnectivityAssumption
<1>2. LateMultiple * c <= SilentMultiple * c /\ LateMultiple * c \in Int /\ SilentMultiple * c \in Int
  BY <1>1, Products
<1>3. LateMultiple * c = c * LateMultiple /\ SilentMultiple * c = c * SilentMultiple
  BY <1>1
<1>4. 2 * since >= c * LateMultiple
  BY <1>2, <1>3
<1>5. (2 * shortest) * LateMultiple <= c * LateMultiple /\ c * LateMultiple \in Int
  <2>1. 2 * shortest \in Int
    OBVIOUS
  <2> QED
    BY <1>1, <2>1, Products
<1>6. (2 * shortest) * LateMultiple = 2 * (LateMultiple * shortest) /\ LateMultiple * shortest \in Int
  BY <1>1
<1> QED
  BY <1>4, <1>5, <1>6

\* What the property of the buses says.
LEMMA BusHolds == ReadersInv => DeadBusIsQuiet
<1> SUFFICES ASSUME ReadersInv, Connections PROVE DeadBusIsQuiet
  BY DEF DeadBusIsQuiet
<1> DEFINE verdicts == {Verdict(s) : s \in {Subject, Other}}
           bus == BusVerdict(verdicts)
           heard(s) == Heard("recorded", s)
           since(s) == Now - Max(heard(s))
           cadence(s) == Cadence(Saw("cadence"), s)
           gaps(s) == Gaps("cadence", s)
<1>0. Typed
  BY DEF ReadersInv
<1>1. \A s \in {Subject, Other} :
         /\ heard(s) = {} => Verdict(s) = "never"
         /\ heard(s) # {} =>
               /\ since(s) \in Int /\ cadence(s) \in Nat
               /\ since(s) < -FutureTolerance => Verdict(s) = "late"
               /\ since(s) >= -FutureTolerance /\ cadence(s) = 0 => Verdict(s) = "new"
               /\ since(s) >= -FutureTolerance /\ cadence(s) > 0 =>
                     Verdict(s) = IF 2 * since(s) >= cadence(s) * SilentMultiple THEN "silent"
                                  ELSE IF 2 * since(s) >= cadence(s) * LateMultiple THEN "late"
                                  ELSE "live"
  BY VerdictIs
<1>2. \A s \in {Subject, Other} : cadence(s) > 0 =>
         gaps(s) # {} /\ Min(gaps(s)) \in Nat /\ cadence(s) >= 2 * Min(gaps(s))
  <2> TAKE s \in {Subject, Other}
  <2> DEFINE log == Saw("cadence")
  <2>1. log \in Seq(Row) /\ Distinct(log) /\ Gaps("cadence", s) = Neighbours(Heard("cadence", s))
    BY <1>0, TableAsked, HeardIs
  <2>2. Heard("cadence", s) = {r.at : r \in {q \in ToSet(log) : q.sensor = s}}
    BY DEF Heard
  <2>3. cadence(s) = Cadence(log, s)
    OBVIOUS
  <2> HIDE DEF log, cadence
  <2>4. cadence(s) > 0 => LET S == {r.at : r \in {q \in ToSet(log) : q.sensor = s}} IN
           Neighbours(S) # {} /\ Min(Neighbours(S)) \in Nat /\ cadence(s) >= 2 * Min(Neighbours(S))
    BY <2>1, <2>3, CadenceCounts
  <2> QED
    BY <2>1, <2>2, <2>4
<1>3. FutureTolerance \in Nat
  BY ConnectivityAssumption
<1> HIDE DEF heard, since, cadence, gaps
<1>4. \A s \in {Subject, Other} : heard(s) # {} => Verdict(s) # "never"
  BY <1>1, <1>3
<1>5. bus = "live" => \A s \in {Subject, Other} : heard(s) # {}
  <2> SUFFICES ASSUME bus = "live", NEW s \in {Subject, Other} PROVE heard(s) # {}
    OBVIOUS
  <2>1. verdicts \subseteq Healthy
    BY DEF BusVerdict
  <2>2. Verdict(s) # "never"
    BY <2>1 DEF Healthy
  <2> QED
    BY <1>1, <2>2
<1>6. bus = "never" => \A s \in {Subject, Other} : heard(s) = {}
  <2> SUFFICES ASSUME bus = "never", NEW s \in {Subject, Other} PROVE heard(s) = {}
    OBVIOUS
  <2>1. verdicts = {"never"}
    BY DEF BusVerdict
  <2>2. Verdict(s) = "never"
    BY <2>1
  <2> QED
    BY <1>4, <2>2
<1>7. ASSUME bus = "silent", NEW s \in {Subject, Other}, heard(s) # {}
      PROVE  \/ since(s) < -FutureTolerance
             \/ gaps(s) # {} /\ since(s) >= LateMultiple * Min(gaps(s))
  <2>1. verdicts \cap Healthy = {}
    BY <1>7 DEF BusVerdict
  <2>2. Verdict(s) # "live" /\ Verdict(s) # "new"
    BY <2>1 DEF Healthy
  <2> SUFFICES ASSUME since(s) >= -FutureTolerance
               PROVE  gaps(s) # {} /\ since(s) >= LateMultiple * Min(gaps(s))
    BY <1>1, <1>3, <1>7
  <2>3. since(s) \in Int /\ cadence(s) \in Nat /\ cadence(s) > 0
    BY <1>1, <1>7, <2>2
  <2>4. 2 * since(s) >= cadence(s) * SilentMultiple \/ 2 * since(s) >= cadence(s) * LateMultiple
    BY <1>1, <1>7, <2>2, <2>3
  <2>5. gaps(s) # {} /\ Min(gaps(s)) \in Nat /\ cadence(s) >= 2 * Min(gaps(s))
    BY <1>2, <2>3
  <2> QED
    BY <2>3, <2>4, <2>5, BeyondShortest
<1> QED
  BY <1>5, <1>6, <1>7 DEF DeadBusIsQuiet, heard, since, gaps

\* A bus that is called dead was quiet.
THEOREM DeadBusIsQuietAlways == Spec => []DeadBusIsQuiet
  BY ReadersInvAlways, BusHolds, PTL

\* What never falls does not fall over several steps.
LEMMA Rising ==
    ASSUME NEW a \in Int, NEW b \in Int, NEW F, \A k \in a..b : F[k] \in Int,
           \A k \in a..(b - 1) : F[k] <= F[k + 1]
    PROVE  \A j, k \in a..b : j <= k => F[j] <= F[k]
<1> SUFFICES ASSUME NEW j \in a..b, NEW k \in a..b, j <= k PROVE F[j] <= F[k]
  OBVIOUS
<1> DEFINE G == {l \in j..k : F[j] <= F[l]}
<1>1. j \in Int /\ k \in Int /\ F[j] \in Int
  OBVIOUS
<1>2. Inductive(G, j, k)
  <2>1. j \in G
    BY <1>1
  <2>2. ASSUME NEW n \in j..(k - 1), n \in G PROVE n + 1 \in G
    <3>1. n \in a..(b - 1) /\ n \in a..b /\ n + 1 \in a..b /\ n + 1 \in j..k
      OBVIOUS
    <3>2. F[n] \in Int /\ F[n + 1] \in Int /\ F[n] <= F[n + 1] /\ F[j] <= F[n]
      BY <2>2, <3>1
    <3> QED
      BY <1>1, <3>1, <3>2
  <2> QED
    BY <2>1, <2>2 DEF Inductive
<1>3. j..k \subseteq G
  <2> HIDE DEF G
  <2> QED
    BY <1>1, <1>2, Climb
<1>4. k \in G
  BY <1>1, <1>3
<1> QED
  BY <1>4

\* Where all but the longest gap add up to the shortest of them, each is the shortest.
LEMMA LoneOutage ==
    ASSUME NEW T, NEW n, NEW S, Listed(T, n, S), n >= 2,
           T[n] - T[1] - Max(Neighbours(S)) = (n - 2) * Min(Neighbours(S))
    PROVE  \E at \in 2..n : \A i \in 2..n : i # at => Step(T, i) = Min(Neighbours(S))
<1> DEFINE N == Neighbours(S)
           usual == Min(N)
           longest == Max(N)
           D == [k \in 1..n |-> T[k] - k * usual]
<1>1. /\ n \in Nat
      /\ \A k \in 1..n : T[k] \in Int
  BY DEF Listed
<1>2. N = {T[k + 1] - T[k] : k \in 1..(n - 1)}
  BY NeighboursAre
<1>3. \A i \in 2..n : Step(T, i) \in Int /\ Step(T, i) \in N
  BY StepIs
<1>4. IsFiniteSet(N) /\ N \subseteq Int /\ N # {}
  <2> DEFINE f == [k \in 1..(n - 1) |-> T[k + 1] - T[k]]
  <2>1. N = {f[k] : k \in DOMAIN f} /\ IsFiniteSet(DOMAIN f)
    <3>1. n - 1 \in Int /\ DOMAIN f = 1..(n - 1)
      BY <1>1
    <3>2. N = {f[k] : k \in 1..(n - 1)}
      BY <1>2
    <3> HIDE DEF f, N
    <3> QED
      BY <3>1, <3>2, FS_Interval
  <2>2. IsFiniteSet(N)
    <3> HIDE DEF f, N
    <3> QED
      BY <2>1, FiniteImage
  <2>3. 2 \in 2..n
    BY <1>1
  <2>4. \A k \in 1..(n - 1) : T[k + 1] - T[k] \in Int
    <3> TAKE k \in 1..(n - 1)
    <3>1. k \in 1..n /\ k + 1 \in 1..n
      BY <1>1
    <3> QED
      BY <1>1, <3>1
  <2> QED
    BY <1>2, <1>3, <2>2, <2>3, <2>4
<1> HIDE DEF N
<1>5. /\ longest \in N /\ longest \in Int
      /\ usual \in Int /\ \A y \in N : usual <= y
  BY <1>4, Extremes
<1>6. T[n] - T[1] - longest = (n - 2) * usual
  BY DEF N
<1>7. PICK at \in 2..n : Step(T, at) = longest
  <2>1. PICK k \in 1..(n - 1) : T[k + 1] - T[k] = longest
    BY <1>2, <1>5
  <2>2. k + 1 \in 2..n /\ (k + 1) - 1 = k
    BY <1>1
  <2> QED
    BY <2>1, <2>2 DEF Step
<1>a. usual = Min(Neighbours(S))
  BY DEF N
<1> HIDE DEF usual, longest
<1>8. \A k \in 1..n : D[k] \in Int /\ D[k] = T[k] - k * usual
  BY <1>1, <1>5
<1> HIDE DEF D
<1>9. ASSUME NEW i \in 2..n
      PROVE  /\ i \in 1..n /\ i - 1 \in 1..n
             /\ D[i] - D[i - 1] = Step(T, i) - usual /\ usual <= Step(T, i)
  <2>1. i \in 1..n /\ i - 1 \in 1..n
    BY <1>1
  <2>2. T[i] \in Int /\ T[i - 1] \in Int
    BY <1>1, <2>1
  <2>3. D[i] = T[i] - i * usual /\ D[i - 1] = T[i - 1] - (i - 1) * usual
    BY <1>8, <2>1
  <2>4. (i - 1) * usual = i * usual - usual /\ i * usual \in Int
    BY <1>1, <1>5
  <2>5. Step(T, i) = T[i] - T[i - 1]
    BY DEF Step
  <2>6. usual <= Step(T, i)
    BY <1>3, <1>5
  <2> QED
    BY <1>5, <2>1, <2>2, <2>3, <2>4, <2>5, <2>6
<1>10. \A j, k \in 1..n : j <= k => D[j] <= D[k]
  <2>1. ASSUME NEW k \in 1..(n - 1) PROVE D[k] <= D[k + 1]
    <3>1. k + 1 \in 2..n /\ (k + 1) - 1 = k /\ k \in 1..n /\ k + 1 \in 1..n
      BY <1>1
    <3>2. D[k + 1] - D[(k + 1) - 1] = Step(T, k + 1) - usual /\ usual <= Step(T, k + 1)
      BY <1>9, <3>1
    <3>3. Step(T, k + 1) \in Int /\ D[k] \in Int /\ D[k + 1] \in Int
      BY <1>3, <1>8, <3>1
    <3> QED
      BY <1>5, <3>1, <3>2, <3>3
  <2>2. \A k \in 1..n : D[k] \in Int
    BY <1>8
  <2>3. 1 \in Int /\ n \in Int
    BY <1>1
  <2>4. \A k \in 1..(n - 1) : D[k] <= D[k + 1]
    BY <2>1
  <2> QED
    BY <2>2, <2>3, <2>4, Rising
<1>11. D[n] - D[1] = longest - usual
  <2>1. 1 \in 1..n /\ n \in 1..n
    BY <1>1
  <2>2. D[n] = T[n] - n * usual /\ D[1] = T[1] - 1 * usual /\ T[n] \in Int /\ T[1] \in Int
    BY <1>1, <1>8, <2>1
  <2>3. (n - 2) * usual = n * usual - 2 * usual /\ n * usual \in Int
    BY <1>1, <1>5
  <2> QED
    BY <1>5, <1>6, <2>2, <2>3
<1>12. ASSUME NEW i \in 2..n, i # at PROVE Step(T, i) = usual
  <2>1. /\ i \in 1..n /\ i - 1 \in 1..n
        /\ D[i] - D[i - 1] = Step(T, i) - usual /\ usual <= Step(T, i)
    BY <1>9
  <2>2. /\ at \in 1..n /\ at - 1 \in 1..n
        /\ D[at] - D[at - 1] = longest - usual
    BY <1>7, <1>9
  <2>3. /\ D[1] \in Int /\ D[n] \in Int /\ D[i] \in Int /\ D[i - 1] \in Int /\ D[at] \in Int /\ D[at - 1] \in Int
        /\ 1 \in 1..n /\ n \in 1..n
    BY <1>1, <1>8, <2>1, <2>2
  <2>4. Step(T, i) \in Int
    BY <1>3
  <2>5. CASE i < at
    <3>1. 1 <= i - 1 /\ i <= at - 1 /\ at <= n
      BY <1>1, <2>5
    <3>2. D[1] <= D[i - 1] /\ D[i] <= D[at - 1] /\ D[at] <= D[n]
      BY <1>10, <2>1, <2>2, <2>3, <3>1
    <3> QED
      BY <1>5, <1>11, <2>1, <2>2, <2>3, <2>4, <3>2
  <2>6. CASE at < i
    <3>1. 1 <= at - 1 /\ at <= i - 1 /\ i <= n
      BY <1>1, <2>6
    <3>2. D[1] <= D[at - 1] /\ D[at] <= D[i - 1] /\ D[i] <= D[n]
      BY <1>10, <2>1, <2>2, <2>3, <3>1
    <3>3. (D[at] - D[at - 1]) + (D[i] - D[i - 1]) <= D[n] - D[1]
      BY <2>3, <3>2
    <3> QED
      BY <1>5, <1>11, <2>1, <2>2, <2>4, <3>3
  <2>7. i < at \/ at < i
    BY <1>1, <1>7, <1>12
  <2> QED
    BY <2>5, <2>6, <2>7
<1> QED
  BY <1>12, <1>a

\* One outage does not reach the middle of at least three gaps.
LEMMA OutageIsLast ==
    ASSUME NEW g, NEW T, NEW from, NEW m, NEW order, RecentOf(g, T, from, m, order),
           NEW S, Listed(T, Len(T), S), NEW at, NEW usual \in Int,
           \A i \in 2..Len(T) : i # at => Step(T, i) = usual,
           \A i \in 2..Len(T) : usual <= Step(T, i),
           NEW k \in 1..m, k < m
    PROVE  g[k] = usual
<1>0. m \in Nat /\ order \in [1..m -> 1..m] /\ from \in Nat
  BY DEF RecentOf
<1>1. m \in Nat /\ order \in [1..m -> 1..m] /\ m \in 1..m /\ from \in Nat
  BY <1>0
<1>a. \A l \in 1..m : from + order[l] \in 2..Len(T) /\ g[l] = Step(T, from + order[l]) /\ g[l] \in Int
  BY RecentAreNeighbours
<1>2. /\ from + order[k] \in 2..Len(T) /\ g[k] = Step(T, from + order[k]) /\ g[k] \in Int
      /\ from + order[m] \in 2..Len(T) /\ g[m] = Step(T, from + order[m]) /\ g[m] \in Int
  BY <1>1, <1>a
<1>3. g[k] < g[m] \/ (g[k] = g[m] /\ order[k] < order[m])
  BY <1>1 DEF RecentOf
<1>4. order[k] \in Int /\ order[m] \in Int
  BY <1>1
<1>5. usual <= g[k]
  BY <1>2
<1>6. CASE from + order[k] # at
  BY <1>2, <1>6
<1>7. CASE from + order[k] = at
  <2>1. order[m] # order[k]
    BY <1>2, <1>3, <1>4
  <2>2. from + order[m] # at
    BY <1>1, <1>4, <1>7, <2>1
  <2>3. g[m] = usual
    BY <1>2, <2>2
  <2> QED
    BY <1>2, <1>3, <1>5, <2>3
<1> QED
  BY <1>6, <1>7

\* What the property of the outages says.
LEMMA OutageHolds == ReadersInv => OutageDoesNotHide
<1> SUFFICES ASSUME ReadersInv, Connections, Saw("cadence") = Saw("recorded"),
                    NEW s \in {Subject, Other}, Cardinality(Heard("recorded", s)) >= 4
             PROVE  LET usual == Min(Gaps("recorded", s))
                        since == Now - Max(Heard("recorded", s))
                        regular == Max(Heard("recorded", s)) - Min(Heard("recorded", s)) - Max(Gaps("recorded", s))
                                       = (Cardinality(Heard("recorded", s)) - 2) * usual
                    IN  regular /\ since >= 0 =>
                          Verdict(s) = IF since >= SilentMultiple * usual THEN "silent"
                                       ELSE IF since >= LateMultiple * usual THEN "late" ELSE "live"
  BY DEF OutageDoesNotHide
<1> DEFINE log == Saw("recorded")
           heard == Heard("recorded", s)
           N == Gaps("recorded", s)
           usual == Min(N)
           since == Now - Max(heard)
           cadence == Cadence(log, s)
           T == Instants(log, s)
           n == Len(T)
           g == RecentGaps(log, s)
<1>0. Typed
  BY DEF ReadersInv
<1>1. /\ log \in Seq(Row) /\ Distinct(log)
      /\ T \in Seq(Int) /\ n = SampleCount(log, s, Open, Open) /\ n \in Nat
      /\ Listed(T, n, heard) /\ N = Neighbours(heard)
  BY <1>0, TableAsked, HeardIs
<1>2. /\ heard # {} =>
            /\ since \in Int /\ cadence \in Nat
            /\ since >= -FutureTolerance /\ cadence > 0 =>
                  Verdict(s) = IF 2 * since >= cadence * SilentMultiple THEN "silent"
                               ELSE IF 2 * since >= cadence * LateMultiple THEN "late"
                               ELSE "live"
  BY VerdictIs
<1>3. /\ n < MinimumForCadence => cadence = 0
      /\ n >= MinimumForCadence =>
            \E from, m, order, a, b :
               /\ RecentOf(g, T, from, m, order)
               /\ a \in 1..m /\ b \in 1..m /\ a <= b /\ (m >= 3 => b < m)
               /\ cadence = g[a] + g[b]
  BY <1>1, CadenceIs
<1> HIDE DEF heard, log, T, n, g, N, since, cadence
<1>4. Cardinality(heard) = n /\ heard # {} /\ n >= 4 /\ Max(heard) = T[n] /\ Min(heard) = T[1]
  <2>1. Cardinality(heard) = n /\ (heard = {} <=> n = 0) /\ (n > 0 => Max(heard) = T[n] /\ Min(heard) = T[1])
    BY <1>1, ListedIs
  <2>2. n >= 4
    BY <2>1 DEF heard
  <2> QED
    BY <1>1, <2>1, <2>2
<1>5. \A i \in 2..n : Step(T, i) \in Int /\ Step(T, i) > 0 /\ Step(T, i) \in N
  BY <1>1, StepIs
<1>6. usual \in Int /\ usual > 0 /\ \A i \in 2..n : usual <= Step(T, i)
  <2>1. N = {T[k + 1] - T[k] : k \in 1..(n - 1)}
    BY <1>1, NeighboursAre
  <2>2. \A x \in N : x \in Int /\ x > 0
    <3> TAKE x \in N
    <3>1. PICK k \in 1..(n - 1) : x = T[k + 1] - T[k]
      BY <2>1
    <3>2. k + 1 \in 2..n /\ (k + 1) - 1 = k
      BY <1>1
    <3>3. x = Step(T, k + 1)
      BY <3>1, <3>2 DEF Step
    <3> QED
      BY <1>5, <3>2, <3>3
  <2>3. IsFiniteSet(N)
    <3> DEFINE f == [k \in 1..(n - 1) |-> T[k + 1] - T[k]]
    <3>1. n - 1 \in Int /\ DOMAIN f = 1..(n - 1)
      BY <1>1
    <3>2. N = {f[k] : k \in DOMAIN f}
      BY <2>1
    <3> HIDE DEF f
    <3>3. IsFiniteSet(DOMAIN f)
      BY <3>1, FS_Interval
    <3> QED
      BY <3>2, <3>3, FiniteImage
  <2>4. N # {}
    <3>1. 2 \in 2..n
      BY <1>1, <1>4
    <3> QED
      BY <1>5, <3>1
  <2>5. N \subseteq Int
    BY <2>2
  <2>6. usual \in N /\ \A y \in N : usual <= y
    BY <2>3, <2>4, <2>5, Extremes
  <2> HIDE DEF usual
  <2> QED
    BY <1>5, <2>2, <2>6
<1>7. ASSUME Max(heard) - Min(heard) - Max(N) = (Cardinality(heard) - 2) * usual, since >= 0
      PROVE  Verdict(s) = IF since >= SilentMultiple * usual THEN "silent"
                          ELSE IF since >= LateMultiple * usual THEN "late" ELSE "live"
  <2>1. T[n] - T[1] - Max(Neighbours(heard)) = (n - 2) * Min(Neighbours(heard))
    BY <1>1, <1>4, <1>7
  <2>2. n >= 2
    BY <1>1, <1>4
  <2>a. Listed(T, n, heard)
    BY <1>1
  <2>3. PICK at \in 2..n : \A i \in 2..n : i # at => Step(T, i) = Min(Neighbours(heard))
    <3> HIDE DEF usual
    <3> QED
      BY <2>a, <2>1, <2>2, LoneOutage
  <2>4. \A i \in 2..n : i # at => Step(T, i) = usual
    BY <1>1, <2>3
  <2> HIDE DEF usual
  <2>5. n >= MinimumForCadence
    BY <1>1, <1>4, ConnectivityAssumption
  <2>6. PICK from, m, order, a, b :
               /\ RecentOf(g, T, from, m, order)
               /\ a \in 1..m /\ b \in 1..m /\ a <= b /\ (m >= 3 => b < m)
               /\ cadence = g[a] + g[b]
    BY <1>3, <2>5
  <2>7. m \in Nat /\ m >= 3
    <3>1. m \in Nat /\ from \in Nat /\ n = from + m /\ (m >= 3 \/ from = 1)
      BY <2>6 DEF RecentOf, n
    <3> QED
      BY <1>4, <3>1
  <2>8. a < m /\ b < m
    BY <2>6, <2>7
  <2>9. Listed(T, Len(T), heard) /\ (\A i \in 2..Len(T) : i # at => Step(T, i) = usual)
        /\ (\A i \in 2..Len(T) : usual <= Step(T, i))
    BY <1>1, <1>6, <2>4 DEF n
  <2>b. \A k \in 1..m : k < m => g[k] = usual
    <3>1. usual \in Int /\ RecentOf(g, T, from, m, order)
      BY <1>6, <2>6
    <3> QED
      BY <2>9, <3>1, OutageIsLast
  <2>10. g[a] = usual
    BY <2>b, <2>6, <2>8
  <2>11. g[b] = usual
    BY <2>b, <2>6, <2>8
  <2>12. cadence = 2 * usual
    BY <1>6, <2>6, <2>10, <2>11
  <2>13. /\ since \in Int /\ since >= -FutureTolerance /\ cadence > 0
         /\ SilentMultiple \in Nat /\ LateMultiple \in Nat
    BY <1>2, <1>4, <1>6, <1>7, <2>12, ConnectivityAssumption
  <2>14. Verdict(s) = IF 2 * since >= cadence * SilentMultiple THEN "silent"
                      ELSE IF 2 * since >= cadence * LateMultiple THEN "late"
                      ELSE "live"
    BY <1>2, <1>4, <2>13
  <2>15. /\ cadence * SilentMultiple = 2 * (SilentMultiple * usual) /\ SilentMultiple * usual \in Int
         /\ cadence * LateMultiple = 2 * (LateMultiple * usual) /\ LateMultiple * usual \in Int
    BY <1>6, <2>12, <2>13
  <2>16. /\ 2 * since >= cadence * SilentMultiple <=> since >= SilentMultiple * usual
    BY <2>13, <2>15
  <2>17. /\ 2 * since >= cadence * LateMultiple <=> since >= LateMultiple * usual
    BY <2>13, <2>15
  <2> QED
    BY <2>14, <2>16, <2>17
<1> QED
  BY <1>7 DEF heard, N, since

\* One outage hides no sensor that has stopped, nor makes one look stopped.
THEOREM OutageDoesNotHideAlways == Spec => []OutageDoesNotHide
  BY ReadersInvAlways, OutageHolds, PTL

-------------------------------------------------------------------------------
(***************************************************************************)
(* What a counter has counted.                                             *)
(***************************************************************************)

\* What a sensor that is not a state shows when n rows are on record.
Tally(s, n) == IF s = Meter THEN n * 30 ELSE n

\* No sensor has gone past its tally, and a later reading shows no less.
Rises(S, n) ==
    \A m \in S : UnitOf[m.sensor] # State =>
        /\ m.value <= Tally(m.sensor, n)
        /\ \A o \in S : o.sensor = m.sensor /\ o.at < m.at => o.value <= m.value

\* The measurements on record, and those about to be.
OnHand == {rows[i] : i \in 1..Len(rows)} \cup {m \in {pending[w] : w \in Writers} : m # None}

\* As long as a tool is there to read it, the record of a counter grows.
Growing == ask.tool # "record" => Rises(OnHand, Len(rows))

\* Fewer measurements, and more rows.
LEMMA RisesOn ==
    ASSUME NEW S \in SUBSET Row, NEW n \in Nat, Rises(S, n), NEW T \in SUBSET S, NEW p \in Nat, n <= p
    PROVE  Rises(T, p)
<1> SUFFICES ASSUME NEW m \in T, UnitOf[m.sensor] # State
             PROVE  /\ m.value <= Tally(m.sensor, p)
                    /\ \A o \in T : o.sensor = m.sensor /\ o.at < m.at => o.value <= m.value
  BY DEF Rises
<1>1. m \in S /\ m \in Row /\ m.value \in Int
  BY DEF Row
<1>2. m.value <= Tally(m.sensor, n) /\ \A o \in S : o.sensor = m.sensor /\ o.at < m.at => o.value <= m.value
  BY <1>1 DEF Rises
<1>3. Tally(m.sensor, n) <= Tally(m.sensor, p) /\ Tally(m.sensor, n) \in Int /\ Tally(m.sensor, p) \in Int
  BY DEF Tally
<1>4. m.value <= Tally(m.sensor, p)
  BY <1>1, <1>2, <1>3
<1> QED
  BY <1>2, <1>4

\* One more, that is the latest.
LEMMA RisesBy ==
    ASSUME NEW S \in SUBSET Row, NEW n \in Nat, Rises(S, n), NEW m \in Row,
           \A o \in S : o.at <= m.at,
           UnitOf[m.sensor] # State => m.value = Tally(m.sensor, n)
    PROVE  Rises(S \cup {m}, n)
<1> SUFFICES ASSUME NEW r \in S \cup {m}, UnitOf[r.sensor] # State
             PROVE  /\ r.value <= Tally(r.sensor, n)
                    /\ \A o \in S \cup {m} : o.sensor = r.sensor /\ o.at < r.at => o.value <= r.value
  BY DEF Rises
<1>0. /\ r \in Row /\ m.at \in Int /\ r.at \in Int /\ r.value \in Int /\ m.value \in Int
      /\ Tally(r.sensor, n) \in Int
  BY DEF Row, Tally
<1>1. CASE r = m
  <2>1. r.value = Tally(r.sensor, n)
    BY <1>1
  <2>2. ASSUME NEW o \in S, o.sensor = r.sensor PROVE o.value <= r.value
    <3>1. o.value <= Tally(o.sensor, n)
      BY <2>2 DEF Rises
    <3> QED
      BY <2>1, <2>2, <3>1
  <2>3. r.value <= r.value /\ ~(m.at < m.at)
    BY <1>0
  <2>4. r.value <= Tally(r.sensor, n)
    BY <2>1, <2>3
  <2> QED
    BY <1>1, <2>2, <2>3, <2>4
<1>2. CASE r \in S
  <2>1. r.value <= Tally(r.sensor, n) /\ \A o \in S : o.sensor = r.sensor /\ o.at < r.at => o.value <= r.value
    BY <1>2 DEF Rises
  <2>2. ~(m.at < r.at)
    BY <1>0, <1>2
  <2> QED
    BY <2>1, <2>2
<1> QED
  BY <1>1, <1>2

\* There is nothing to begin with.
LEMMA GrowingInit == Init => Growing
<1> SUFFICES ASSUME Init PROVE Growing
  OBVIOUS
<1>1. rows = <<>> /\ pending = [w \in Writers |-> None]
  BY DEF Init
<1>2. OnHand = {}
  BY <1>1 DEF OnHand
<1> QED
  BY <1>2 DEF Growing, Rises

\* Every reading shows the tally of its moment.
LEMMA GrowingNext ==
    ReadersInv /\ ReadersInv' /\ Goes /\ Growing /\ [Next]_vars => Growing'
<1> SUFFICES ASSUME ReadersInv, ReadersInv', Goes, Growing, [Next]_vars, ask'.tool # "record"
             PROVE  Rises(OnHand', Len(rows'))
  BY DEF Growing
<1>0. Typed /\ Typed'
  BY DEF ReadersInv
<1>1. /\ rows \in Seq(Row) /\ rows' \in Seq(Row) /\ Len(rows) \in Nat /\ Len(rows') \in Nat
      /\ clock \in Nat /\ pending \in [Writers -> Row \cup {None}]
      /\ \A i \in 1..Len(rows) : rows[i].at <= clock
      /\ \A w \in Writers : pending[w] # None => pending[w] \in Row /\ pending[w].at <= clock
  BY <1>0 DEF Typed, Appended, Kept, Journalled, Proper
<1>2. OnHand \in SUBSET Row
  BY <1>1 DEF OnHand
<1>3. ask' = ask
  BY DEF Next, Insert, Read, Restart, ChangeOffset, Ask, CopyFails, vars
<1>4. Rises(OnHand, Len(rows))
  BY <1>3 DEF Growing
<1>5. Len(rows) <= Len(rows')
  BY DEF Goes, Extends
<1>6. ASSUME OnHand' \subseteq OnHand PROVE Rises(OnHand', Len(rows'))
  <2> HIDE DEF OnHand
  <2> QED
    BY <1>1, <1>2, <1>4, <1>5, <1>6, RisesOn
<1>7. ASSUME UNCHANGED <<rows, pending>> PROVE OnHand' \subseteq OnHand
  BY <1>7 DEF OnHand
<1>8. ASSUME NEW w \in Writers, Insert(w) PROVE OnHand' \subseteq OnHand
  <2> DEFINE m == pending[w]
  <2>1. m # None /\ m \in Row /\ pending' = [pending EXCEPT ![w] = None] /\ m \in OnHand
    BY <1>1, <1>8 DEF Insert, OnHand
  <2>2. \A u \in Writers : pending'[u] # None => pending'[u] = pending[u]
    BY <1>1, <2>1
  <2>3. \A i \in 1..Len(rows') : rows'[i] \in OnHand
    <3>1. CASE rows' = rows
      BY <3>1 DEF OnHand
    <3>2. CASE rows' = Append(rows, m)
      <4>1. Len(rows') = Len(rows) + 1 /\ rows'[Len(rows) + 1] = m /\ \A i \in 1..Len(rows) : rows'[i] = rows[i]
        BY <1>1, <2>1, <3>2
      <4>2. \A i \in 1..Len(rows') : i \in 1..Len(rows) \/ i = Len(rows) + 1
        BY <1>1, <4>1
      <4>3. \A i \in 1..Len(rows) : rows[i] \in OnHand
        BY DEF OnHand
      <4> QED
        BY <2>1, <4>1, <4>2, <4>3
    <3> QED
      BY <1>8, <3>1, <3>2 DEF Insert
  <2>4. \A u \in Writers : pending'[u] # None => pending'[u] \in OnHand
    BY <2>2 DEF OnHand
  <2>5. \A x \in OnHand' : x \in OnHand
    BY <2>3, <2>4 DEF OnHand
  <2> QED
    BY <2>5
<1>9. ASSUME NEW w \in Writers, NEW s \in Sensors, Read(w, s) PROVE Rises(OnHand', Len(rows'))
  <2>1. PICK d \in Bounds[ask].steps, v \in Readings(s) :
           clock' = clock + d /\ LookUp(w, Measured(s, clock + d, v))
    BY <1>9 DEF Read
  <2>2. d \in Nat /\ v \in Int
    BY <1>0, <2>1, ReadersAssumption, ReadingsAreIntegers DEF Typed, Appended, Kept
  <2>3. rows' = rows
    BY <1>9 DEF Read
  <2> DEFINE m == Measured(s, clock + d, v)
  <2>4. m.at = clock + d /\ m.sensor = s /\ m.value = v
    BY DEF Measured
  <2>5. m \in Row
    BY <1>0, <1>1, <2>2, MeasuredProper DEF Proper, Typed, Appended
  <2>6. UnitOf[s] # State => v = Tally(s, Len(rows))
    BY <1>3, <2>1 DEF Readings, Tally
  <2> HIDE DEF m
  <2>7. pending' = pending \/ pending' = [pending EXCEPT ![w] = m]
    BY <2>1 DEF LookUp, m
  <2>8. OnHand' \subseteq OnHand \cup {m}
    <3>1. \A u \in Writers : pending'[u] = pending[u] \/ pending'[u] = m
      BY <1>1, <2>7
    <3> QED
      BY <2>3, <3>1 DEF OnHand
  <2>9. \A o \in OnHand : o.at <= m.at
    <3> SUFFICES ASSUME NEW o \in OnHand PROVE o.at <= m.at
      OBVIOUS
    <3>1. o \in Row /\ o.at <= clock
      BY <1>1, <1>2 DEF OnHand
    <3>2. o.at \in Int
      BY <3>1 DEF Row
    <3> QED
      BY <1>1, <2>2, <2>4, <3>1, <3>2
  <2>10. Rises(OnHand \cup {m}, Len(rows))
    <3> HIDE DEF OnHand
    <3> QED
      BY <1>1, <1>2, <1>4, <2>4, <2>5, <2>6, <2>9, RisesBy
  <2>11. OnHand \cup {m} \in SUBSET Row
    BY <1>2, <2>5
  <2> DEFINE S == OnHand \cup {m}
             T == OnHand'
  <2> HIDE DEF S, T
  <2>12. S \in SUBSET Row /\ T \in SUBSET S /\ Rises(S, Len(rows)) /\ Len(rows) <= Len(rows)
    BY <1>1, <2>8, <2>10, <2>11 DEF S, T
  <2>13. Rises(T, Len(rows))
    BY <1>1, <2>12, RisesOn
  <2> QED
    BY <2>3, <2>13 DEF T
<1>10. ASSUME NEW c \in Configs, Restart(c) PROVE UNCHANGED <<rows, pending>>
  BY <1>10 DEF Restart
<1>11. ASSUME NEW o \in Bounds[ask].offsets, ChangeOffset(o) PROVE UNCHANGED <<rows, pending>>
  BY <1>11 DEF ChangeOffset
<1>12. ASSUME Ask \/ CopyFails \/ UNCHANGED vars PROVE UNCHANGED <<rows, pending>>
  BY <1>12 DEF Ask, CopyFails, vars, record
<1> QED
  BY <1>6, <1>7, <1>8, <1>9, <1>10, <1>11, <1>12 DEF Next

\* The readings a report makes of a sensor that counts rise with time.
THEOREM GrowingAlways == Spec => [](ReadersInv /\ Growing)
<1>1. ReadersInv /\ Growing /\ [Next]_vars => ReadersInv' /\ Growing'
  BY ReadersInvNext, GrowingNext
<1> QED
  BY ReadersInvInit, GrowingInit, <1>1, PTL DEF Spec

\* The extremes of values that rise are at the ends.
LEMMA EndsOfRising ==
    ASSUME NEW s \in Seq(Observation), Len(s) > 0,
           \A j, k \in 1..Len(s) : j < k => s[j].value <= s[k].value
    PROVE  /\ Statistics(Values(s)).maximum = s[Len(s)].value
           /\ Statistics(Values(s)).minimum = s[1].value
<1> DEFINE v == Values(s)
           S == ToSet(v)
           n == Len(s)
<1>1. n \in Nat /\ n >= 1 /\ 1 \in 1..n /\ n \in 1..n
  OBVIOUS
<1>2. \A k \in 1..n : s[k].value \in Int
  <2> TAKE k \in 1..n
  <2>1. s[k] \in Observation
    OBVIOUS
  <2> QED
    BY <2>1 DEF Observation
<1>3. v = [k \in 1..n |-> s[k].value]
  BY DEF Values
<1>4. S = {s[k].value : k \in 1..n}
  BY <1>3 DEF ToSet
<1> HIDE DEF v, S
<1>5. S \subseteq Int /\ s[1].value \in S /\ s[n].value \in S
  BY <1>1, <1>2, <1>4
<1>6. IsFiniteSet(S)
  <2> DEFINE f == [k \in 1..n |-> s[k].value]
  <2>1. DOMAIN f = 1..n /\ S = {f[k] : k \in 1..n}
    BY <1>4
  <2>2. IsFiniteSet(1..n)
    BY <1>1, FS_Interval
  <2> HIDE DEF f
  <2> QED
    BY <2>1, <2>2, FiniteImage
<1>7. Max(S) \in S /\ (\A y \in S : y <= Max(S)) /\ Min(S) \in S /\ \A y \in S : Min(S) <= y
  BY <1>5, <1>6, Extremes
<1>8. \A y \in S : s[1].value <= y /\ y <= s[n].value
  <2> SUFFICES ASSUME NEW k \in 1..n PROVE s[1].value <= s[k].value /\ s[k].value <= s[n].value
    BY <1>4
  <2>1. k = 1 \/ 1 < k
    BY <1>1
  <2>2. k = n \/ k < n
    BY <1>1
  <2>3. s[1].value <= s[k].value
    BY <1>1, <1>2, <2>1
  <2>4. s[k].value <= s[n].value
    BY <1>1, <1>2, <2>2
  <2> QED
    BY <2>3, <2>4
<1>9. Max(S) = s[n].value /\ Min(S) = s[1].value
  <2>1. Max(S) \in Int /\ Min(S) \in Int /\ s[1].value \in Int /\ s[n].value \in Int
    BY <1>5, <1>7
  <2>2. /\ Max(S) <= s[n].value /\ s[n].value <= Max(S)
        /\ Min(S) <= s[1].value /\ s[1].value <= Min(S)
    BY <1>5, <1>7, <1>8
  <2> QED
    BY <2>1, <2>2
<1> QED
  BY <1>9 DEF Statistics, v, S, n

\* What a report selects, it has read; and in the order of time.
LEMMA SelectedIsRead ==
    ASSUME ReadersInv, Finished("values")
    PROVE  /\ Answered("read") /\ Selected \in Seq(Observation) /\ InTime(Selected)
           /\ \A k \in 1..Len(Selected) : \E i \in 1..Len(Stream("read", ask.sensor)) :
                 Selected[k] = Stream("read", ask.sensor)[i]
<1> DEFINE subject == Stream("read", ask.sensor)
           states == Stream("signal", Signal)
<1>0. Typed /\ Kind(ask) = "values" /\ ~Eventful /\ ask.tool = "report"
  BY DEF ReadersInv, Finished, Eventful
<1>1. Asked(ask, "read")
  BY <1>0 DEF Asked, Topics
<1>2. Answered("read")
  BY <1>0, <1>1, FinishedAnswers
<1>3. subject \in Seq(Observation) /\ InTime(subject)
  BY <1>0, <1>2, StreamIs
<1>4. CASE ask.gate = {}
  <2>1. Selected = subject
    BY <1>0, <1>4 DEF Selected
  <2> HIDE DEF subject
  <2> QED
    BY <1>2, <1>3, <2>1 DEF subject
<1>5. CASE ask.gate # {}
  <2>1. states \in Seq(Observation) /\ InTime(states) /\ Len(states) > 0
    BY <1>5, GateHasStates
  <2>2. Selected = Gated(subject, states, ask.tolerance, Expected)
    BY <1>0, <1>5 DEF Selected
  <2> HIDE DEF subject, states
  <2>3. KeptOf(Selected, Len(subject), subject, states, ask.tolerance, Expected)
    BY <1>3, <2>1, <2>2, GatedIs
  <2>4. Selected \in Seq(Observation) /\ InTime(Selected)
    BY <2>3 DEF KeptOf
  <2>5. \A k \in 1..Len(Selected) : \E i \in 1..Len(subject) : Selected[k] = subject[i]
    BY <2>3 DEF KeptOf
  <2> QED
    BY <1>2, <2>4, <2>5 DEF subject
<1> QED
  BY <1>4, <1>5

\* What is read of a counter rises with time.
LEMMA ReadingsRise ==
    ASSUME ReadersInv, Growing, ask.tool # "record", NEW topic, Answered(topic), NEW sensor,
           UnitOf[sensor] # State,
           NEW i \in 1..Len(Stream(topic, sensor)), NEW j \in 1..Len(Stream(topic, sensor)),
           Stream(topic, sensor)[i].at < Stream(topic, sensor)[j].at
    PROVE  Stream(topic, sensor)[i].value <= Stream(topic, sensor)[j].value
<1> DEFINE s == Stream(topic, sensor)
           found == Matching(Saw(topic), sensor, ask.start, ask.end)
           shown(r) == [at |-> r.at, offset |-> r.offset, value |-> r.value]
<1>0. Typed
  BY DEF ReadersInv
<1>1. Saw(topic) \in Seq(Row) /\ Len(Saw(topic)) \in 0..Len(rows) /\ Len(rows) \in Nat
      /\ \A k \in 1..Len(Saw(topic)) : Saw(topic)[k] = rows[k]
  BY <1>0, SawIs, RecordIs
<1>2. \A k \in 1..Len(s) : \E l \in found : s[k] = shown(Saw(topic)[l])
  BY <1>1, ObservationsAre DEF Stream
<1>3. \A l \in found : l \in 1..Len(Saw(topic)) /\ Saw(topic)[l].sensor = sensor
  BY <1>1, MatchingIs
<1> HIDE DEF s, found, shown
<1>4. i \in 1..Len(s) /\ j \in 1..Len(s) /\ s[i].at < s[j].at
  BY DEF s
<1>5. PICK a \in found : s[i] = shown(Saw(topic)[a])
  BY <1>2, <1>4
<1>6. PICK b \in found : s[j] = shown(Saw(topic)[b])
  BY <1>2, <1>4
<1>7. /\ a \in 1..Len(rows) /\ b \in 1..Len(rows) /\ rows[a].sensor = sensor /\ rows[b].sensor = sensor
      /\ Saw(topic)[a] = rows[a] /\ Saw(topic)[b] = rows[b]
  BY <1>1, <1>3
<1>8. /\ s[i].at = rows[a].at /\ s[i].value = rows[a].value
      /\ s[j].at = rows[b].at /\ s[j].value = rows[b].value
  BY <1>5, <1>6, <1>7 DEF shown
<1>9. rows[a] \in OnHand /\ rows[b] \in OnHand
  BY <1>7 DEF OnHand
<1>10. rows[a].value <= rows[b].value
  BY <1>4, <1>7, <1>8, <1>9 DEF Growing, Rises
<1> QED
  BY <1>8, <1>10 DEF s

\* Above its first block a bill grows by the price of the second.
LEMMA BillGrows ==
    ASSUME NEW days \in Nat, NEW kwh \in Nat
    PROVE  Bill(Threshold(days) + kwh, days) - Bill(Threshold(days), days) = MarginalCost(kwh)
<1> DEFINE base == Threshold(days)
           fixed == Rate.access * days + base * Rate.firstPrice
<1>1. base \in Nat /\ fixed \in Nat /\ Rate.secondPrice \in Nat
  BY TariffAssumption DEF Threshold
<1>2. Bill(base, days) = fixed + (base - base) * Rate.secondPrice
  BY DEF Bill, SmallerOf
<1>3. Bill(base + kwh, days) = fixed + ((base + kwh) - base) * Rate.secondPrice
  <2>1. SmallerOf(base + kwh, Threshold(days)) = base
    <3> HIDE DEF base
    <3>1. SmallerOf(base + kwh, base) = base
      BY <1>1 DEF SmallerOf
    <3> QED
      BY <3>1 DEF base
  <2> QED
    BY <2>1 DEF Bill
<1> HIDE DEF base, fixed
<1>4. (base - base) = 0 /\ (base + kwh) - base = kwh
  BY <1>1
<1>5. 0 * Rate.secondPrice = 0 /\ kwh * Rate.secondPrice \in Nat
  BY <1>1
<1>6. Bill(base, days) = fixed /\ Bill(base + kwh, days) = fixed + kwh * Rate.secondPrice
  BY <1>1, <1>2, <1>3, <1>4, <1>5
<1>7. Bill(base + kwh, days) - Bill(base, days) = kwh * Rate.secondPrice
  BY <1>1, <1>5, <1>6
<1> QED
  BY <1>7 DEF MarginalCost, base

\* A rate is old once an April has come after it.
LEMMA StaleIs ==
    ASSUME NEW effective \in Nat, NEW on \in Nat
    PROVE  StaleAfter(effective, on) <=> \E month \in (effective + 1)..on : month % 12 = 3
<1> DEFINE year == on \div 12
           april == 12 * year + 3
           latest == IF on >= april THEN april ELSE april - 12
<1>1. year \in Int /\ 12 * year <= on /\ on < 12 * year + 12
  OBVIOUS
<1>2. StaleAfter(effective, on) <=> latest > effective
  BY DEF StaleAfter
<1> HIDE DEF year
<1>3. latest \in Int /\ latest <= on /\ latest % 12 = 3 /\ on < latest + 12
  BY <1>1
<1> HIDE DEF latest
<1>4. ASSUME latest > effective PROVE \E month \in (effective + 1)..on : month % 12 = 3
  <2>1. latest \in (effective + 1)..on
    BY <1>3, <1>4
  <2> QED
    BY <1>3, <2>1
<1>5. ASSUME NEW month \in (effective + 1)..on, month % 12 = 3 PROVE latest > effective
  <2>1. month \in Int /\ month <= on /\ effective < month
    OBVIOUS
  <2>2. month <= latest
    BY <1>3, <1>5, <2>1
  <2> QED
    BY <1>3, <2>1, <2>2
<1> QED
  BY <1>2, <1>4, <1>5

\* What the property of the cost says.
LEMMA CostHolds == ReadersInv /\ Growing => CostIsWhatTheBillGrowsBy
<1> SUFFICES ASSUME ReadersInv, Growing, Finished("values"), Priced, Selected # <<>>
             PROVE  LET base == Threshold(ask.days) IN
                    /\ Consumed = Selected[Len(Selected)].value - Selected[1].value
                    /\ Cost = Bill(base + Consumed, ask.days) - Bill(base, ask.days)
                    /\ Stale <=> \E month \in (Rate.effective + 1)..ask.on : month % 12 = 3
  BY DEF CostIsWhatTheBillGrowsBy
<1> DEFINE s == Selected
           stream == Stream("read", ask.sensor)
           n == Len(s)
<1>0. Typed /\ ask.tool = "report" /\ ask.tool # "record"
  BY DEF ReadersInv, Finished
<1>1. ask.days \in Nat /\ ask.on \in Nat
  BY <1>0, AskIs DEF CommandLine
<1>2. UnitOf[ask.sensor] # State
  BY ReadersAssumption DEF Priced
<1>3. /\ Answered("read") /\ s \in Seq(Observation) /\ InTime(s)
      /\ \A k \in 1..n : \E i \in 1..Len(stream) : s[k] = stream[i]
  BY SelectedIsRead
<1>4. \A i, j \in 1..Len(stream) : stream[i].at < stream[j].at => stream[i].value <= stream[j].value
  BY <1>0, <1>2, <1>3, ReadingsRise
<1> HIDE DEF stream
<1>5. n \in Nat /\ n > 0 /\ s # <<>>
  BY <1>3
<1>6. \A j, k \in 1..n : j < k => s[j].value <= s[k].value
  <2> SUFFICES ASSUME NEW j \in 1..n, NEW k \in 1..n, j < k PROVE s[j].value <= s[k].value
    OBVIOUS
  <2>1. s[j].at < s[k].at
    BY <1>3 DEF InTime
  <2>2. PICK i \in 1..Len(stream) : s[j] = stream[i]
    BY <1>3
  <2>3. PICK l \in 1..Len(stream) : s[k] = stream[l]
    BY <1>3
  <2> QED
    BY <1>4, <2>1, <2>2, <2>3
<1>7. Consumed = s[n].value - s[1].value
  <2>1. Statistics(Values(s)).maximum = s[n].value /\ Statistics(Values(s)).minimum = s[1].value
    <3> HIDE DEF s
    <3> QED
      BY <1>3, <1>5, <1>6, EndsOfRising
  <2> QED
    BY <2>1 DEF Consumed
<1>8. Consumed \in Nat
  <2>1. s[1] \in Observation /\ s[n] \in Observation
    BY <1>3, <1>5
  <2>2. s[1].value \in Int /\ s[n].value \in Int
    BY <2>1 DEF Observation
  <2>3. s[1].value <= s[n].value
    <3>1. 1 \in 1..n /\ n \in 1..n /\ (1 = n \/ 1 < n)
      BY <1>5
    <3>2. CASE 1 < n
      <4>1. 1 \in 1..n /\ n \in 1..n /\ 1 < n
        BY <3>1, <3>2
      <4> HIDE DEF s, n
      <4> QED
        BY <1>6, <4>1
    <3>3. CASE 1 = n
      <4>1. s[n].value \in Int /\ s[n] = s[1]
        BY <2>2, <3>3
      <4> HIDE DEF s, n
      <4> QED
        BY <4>1
    <3> QED
      BY <3>1, <3>2, <3>3
  <2> HIDE DEF s
  <2> QED
    BY <1>7, <2>2, <2>3
<1>9. Cost = Bill(Threshold(ask.days) + Consumed, ask.days) - Bill(Threshold(ask.days), ask.days)
  BY <1>1, <1>8, BillGrows DEF Cost
<1>10. Stale <=> \E month \in (Rate.effective + 1)..ask.on : month % 12 = 3
  BY <1>1, StaleIs, TariffAssumption DEF Stale
<1> QED
  BY <1>7, <1>9, <1>10

\* The marginal price of a machine is what the bill of the house grows by, for what
\* its counter went up by (tools/geopilot_report.py:826, tariff.py:80).
THEOREM CostIsWhatTheBillGrowsByAlways == Spec => []CostIsWhatTheBillGrowsBy
  BY GrowingAlways, CostHolds, PTL

-------------------------------------------------------------------------------
(***************************************************************************)
(* What is put into buckets.                                               *)
(***************************************************************************)

\* Differences are observations, in the order of their pairs.
LEMMA DifferencesAre ==
    ASSUME NEW pairs \in Seq(Couple),
           \A j, k \in 1..Len(pairs) : j < k => pairs[j].left.at < pairs[k].left.at
    PROVE  Differences(pairs) \in Seq(Observation) /\ InTime(Differences(pairs))
<1> DEFINE d == Differences(pairs)
           n == Len(pairs)
<1>1. n \in Nat /\ d = [k \in 1..n |-> Difference(pairs[k])]
  BY DEF Differences
<1>2. ASSUME NEW k \in 1..n
      PROVE  Difference(pairs[k]) \in Observation /\ Difference(pairs[k]).at = pairs[k].left.at
  <2>1. pairs[k] \in Couple
    OBVIOUS
  <2>2. /\ pairs[k].left \in Observation /\ pairs[k].left.value - pairs[k].right.value \in Int
    BY <2>1 DEF Couple, Observation
  <2> DEFINE o == pairs[k].left
             v == pairs[k].left.value - pairs[k].right.value
  <2>3. Difference(pairs[k]) = [o EXCEPT !.value = v]
    BY DEF Difference
  <2>4. o \in Observation /\ v \in Int
    BY <2>2
  <2> HIDE DEF o, v
  <2>5. [o EXCEPT !.value = v] \in Observation /\ [o EXCEPT !.value = v].at = o.at
    BY <2>4 DEF Observation
  <2> QED
    BY <2>3, <2>5 DEF o
<1> HIDE DEF d
<1>3. d \in Seq(Observation) /\ Len(d) = n /\ \A k \in 1..n : d[k] = Difference(pairs[k])
  BY <1>1, <1>2
<1>4. InTime(d)
  BY <1>2, <1>3 DEF InTime
<1> QED
  BY <1>3, <1>4 DEF d

\* What is summarised are observations.
LEMMA SelectedTyped ==
    ASSUME ReadersInv, Finished("values") \/ Finished("delta")
    PROVE  Selected \in Seq(Observation)
<1> DEFINE readings == Stream("read", ask.sensor)
           other == Stream("other", ask.minus)
           states == Stream("signal", Signal)
           subject == IF Kind(ask) = "delta"
                      THEN Differences(Pairs(readings, other, ask.tolerance))
                      ELSE readings
<1>0. Typed /\ ask.tolerance \in Nat
  BY AskIs DEF ReadersInv
<1>1. subject \in Seq(Observation) /\ InTime(subject)
  <2>1. CASE Finished("values")
    <3>1. Kind(ask) = "values" /\ Answered("read")
      BY <2>1, SelectedIsRead DEF Finished
    <3>2. readings \in Seq(Observation) /\ InTime(readings)
      BY <1>0, <3>1, StreamIs
    <3> QED
      BY <3>1, <3>2
  <2>2. CASE Finished("delta")
    <3>1. Kind(ask) = "delta" /\ Answered("read") /\ Answered("other")
      BY <2>2, DeltaAnswers DEF Finished
    <3>2. /\ readings \in Seq(Observation) /\ InTime(readings)
          /\ other \in Seq(Observation) /\ InTime(other)
      BY <1>0, <3>1, StreamIs
    <3> DEFINE pairs == Pairs(readings, other, ask.tolerance)
    <3>3. subject = Differences(pairs)
      BY <3>1
    <3> HIDE DEF readings, other, subject
    <3>4. PairsOf(pairs, readings, other, ask.tolerance)
      BY <1>0, <3>2, PairsAre
    <3> HIDE DEF pairs
    <3>5. pairs \in Seq(Couple)
          /\ \A j, k \in 1..Len(pairs) : j < k => pairs[j].left.at < pairs[k].left.at
      BY <3>4 DEF PairsOf
    <3> QED
      BY <3>3, <3>5, DifferencesAre
  <2> QED
    BY <2>1, <2>2
<1>2. Selected = IF ask.gate = {} THEN subject ELSE Gated(subject, states, ask.tolerance, Expected)
  BY DEF Selected
<1>3. CASE ask.gate # {}
  <2>1. states \in Seq(Observation) /\ InTime(states) /\ Len(states) > 0
    BY <1>3, GateHasStates
  <2> HIDE DEF subject, states
  <2>2. KeptOf(Gated(subject, states, ask.tolerance, Expected), Len(subject), subject, states,
               ask.tolerance, Expected)
    BY <1>1, <2>1, GatedIs
  <2> QED
    BY <1>2, <1>3, <2>2 DEF KeptOf
<1> HIDE DEF subject, states
<1> QED
  BY <1>1, <1>2, <1>3

\* So are the runs, as they are put into buckets.
LEMMA RunsObserved ==
    ASSUME NEW runs \in Seq(Run)
    PROVE  RunsAsObservations(runs) \in Seq(Observation)
<1> DEFINE s == RunsAsObservations(runs)
           n == Len(runs)
           seenAs(r) == [at |-> r.startsAt, offset |-> r.offset, value |-> Duration(r)]
<1>1. n \in Nat /\ s = [k \in 1..n |-> seenAs(runs[k])]
  BY DEF RunsAsObservations
<1>2. ASSUME NEW k \in 1..n PROVE seenAs(runs[k]) \in Observation
  <2>1. runs[k] \in Run
    OBVIOUS
  <2> QED
    BY <2>1 DEF Run, Observation, Duration
<1> HIDE DEF s, seenAs
<1> QED
  BY <1>1, <1>2 DEF s

\* What may be put into buckets are observations, in an interval that is accepted.
LEMMA SeriesIs ==
    ASSUME ReadersInv, Finished("values") \/ Finished("delta") \/ Finished("runs"),
           ask.bucket # None
    PROVE  /\ Series \in Seq(Observation)
           /\ ask.bucket \in Nat /\ ask.bucket > 0 /\ ask.local \in BOOLEAN
<1>0. Typed /\ ask \in CommandLine
  BY AskIs DEF ReadersInv
<1>1. ASSUME Finished("runs") PROVE Series \in Seq(Observation)
  <2>1. ask.runs
    BY <1>1 DEF Finished, Kind
  <2>2. Answered("signal") /\ Answered("check")
    <3>1. Asked(ask, "signal") /\ Asked(ask, "check")
      BY <1>1 DEF Finished, Asked, Topics
    <3> QED
      BY <1>1, <3>1, FinishedAnswers
  <2> DEFINE obs == Stream("signal", ask.sensor)
  <2>3. obs \in Seq(Observation) /\ InTime(obs) /\ ask.maxGap \in Int
    BY <1>0, <2>2, StreamIs, AskIs
  <2>4. Series = RunsAsObservations(Runs(obs, ask.sense = "on", ask.maxGap))
    BY <2>1 DEF Series
  <2> HIDE DEF obs
  <2>5. Runs(obs, ask.sense = "on", ask.maxGap) \in Seq(Run)
    BY <2>3, RunsTyped
  <2> QED
    BY <2>2, <2>4, <2>5, RunsObserved
<1>2. ASSUME Finished("values") \/ Finished("delta") PROVE Series \in Seq(Observation)
  <2>1. ~ask.runs
    BY <1>2 DEF Finished, Kind
  <2> QED
    BY <1>2, <2>1, SelectedTyped DEF Series
<1>3. Answered("check")
  <2>1. Asked(ask, "check")
    BY DEF Finished, Asked, Topics
  <2> QED
    BY <2>1, FinishedAnswers
<1>4. IntervalAccepted(ask.bucket)
  BY <1>3 DEF Finished, Refused, RefusedAtFirst
<1>5. ask.bucket \in Int /\ ask.local \in BOOLEAN
  BY <1>0 DEF CommandLine
<1>6. ask.bucket > 0
  BY <1>4 DEF IntervalAccepted
<1> QED
  BY <1>1, <1>2, <1>5, <1>6

\* The buckets of a report, whichever way it makes them.
LEMMA ShownHold ==
    ASSUME NEW s \in Seq(Observation), NEW interval \in Nat, interval > 0, NEW local \in BOOLEAN,
           ~PreEpoch(s, local), NEW shown, HoldAll(shown, s, interval, local),
           NEW other, HoldAll(other, s, interval, local)
    PROVE  /\ DOMAIN shown = DOMAIN other
           /\ \A x \in DOMAIN shown : shown[x].stats = other[x].stats
           /\ Together(shown) = Len(s)
           /\ \A i \in 1..Len(s) : (\A k \in 1..Len(s) : s[k].offset = s[i].offset) =>
                 Cardinality({x \in DOMAIN shown :
                     s[i].at \in shown[x].startsAt..(shown[x].startsAt + interval - 1)}) = 1
<1> DEFINE X == Places(s, interval, local)
           n == Len(s)
           place(i) == PlaceOf(s, i, interval, local)
<1>1. /\ DOMAIN shown = X /\ DOMAIN other = X
      /\ \A x \in X : Holds(shown[x], x, s, interval, local) /\ Holds(other[x], x, s, interval, local)
  BY DEF HoldAll
<1>2. \A i \in 1..n : Instant(s[i], local) \in Nat /\ place(i) \in Nat
  BY PlacesAre
<1>3. X = {place(i) : i \in 1..n}
  BY DEF Places
<1>4. \A x \in DOMAIN shown : shown[x].stats = other[x].stats
  BY <1>1 DEF Holds
<1>5. Together(shown) = n
  <2> DEFINE p == [i \in 1..n |-> place(i)]
  <2>1. p \in [1..n -> X]
    BY <1>3
  <2>2. n \in Nat /\ IsFiniteSet(1..n)
    BY FS_Interval
  <2>3. IsFiniteSet(X)
    <3>1. DOMAIN p = 1..n /\ X = {p[i] : i \in 1..n}
      BY <1>3
    <3> HIDE DEF p, X
    <3> QED
      BY <2>2, <3>1, FiniteImage
  <2>4. ASSUME NEW x \in X PROVE shown[x].stats.count = Cardinality(Falling(p, n, {x}))
    <3>1. Falling(p, n, {x}) = InPlace(s, x, interval, local)
      BY DEF Falling, InPlace
    <3>2. shown[x].stats.count = Cardinality(InPlace(s, x, interval, local))
      BY <1>1 DEF Holds
    <3> QED
      BY <3>1, <3>2
  <2> HIDE DEF p, X, n
  <2> QED
    BY <1>1, <2>1, <2>2, <2>3, <2>4, TogetherIs
<1>6. ASSUME NEW i \in 1..n, \A k \in 1..n : s[k].offset = s[i].offset
      PROVE  Cardinality({x \in DOMAIN shown :
                  s[i].at \in shown[x].startsAt..(shown[x].startsAt + interval - 1)}) = 1
  <2> DEFINE o == s[i].offset
             shift == IF local THEN o ELSE 0
             t == Instant(s[i], local)
             within(x) == s[i].at \in shown[x].startsAt..(shown[x].startsAt + interval - 1)
  <2>1. s[i] \in Observation
    OBVIOUS
  <2>2. o \in Int /\ shift \in Int /\ s[i].at \in Int /\ t = s[i].at + shift
    BY <2>1 DEF Observation, Instant
  <2>3. t \in Nat /\ place(i) \in X /\ X \subseteq Nat
    BY <1>2, <1>3
  <2>4. ASSUME NEW x \in X PROVE shown[x].startsAt = x * interval - shift
    <3>1. \A k \in 1..Len(s) : s[k].offset = o
      BY <1>6
    <3>2. Holds(shown[x], x, s, interval, local)
      BY <1>1
    <3> HIDE DEF o
    <3> QED
      BY <2>2, <3>1, <3>2 DEF Holds
  <2>5. place(i) = t \div interval
    BY DEF PlaceOf
  <2> HIDE DEF t, shift, o, X, place
  <2>6. ASSUME NEW x \in X PROVE within(x) <=> x = place(i)
    <3> DEFINE y == interval * x
    <3>1. y \in Int /\ x * interval = y /\ x \in Nat
      BY <2>3
    <3>2. shown[x].startsAt = y - shift
      BY <2>4, <3>1
    <3> HIDE DEF y
    <3>3. within(x) <=> y <= t /\ t < y + interval
      BY <2>2, <3>1, <3>2
    <3>4. x = place(i) => y <= t /\ t < y + interval
      BY <2>3, <2>5, QuotientIs DEF y
    <3>5. y <= t /\ t < y + interval => x = place(i)
      BY <2>3, <2>5, <3>1, OneQuotient DEF y
    <3> QED
      BY <3>3, <3>4, <3>5
  <2> HIDE DEF within
  <2>7. {x \in DOMAIN shown : within(x)} = {place(i)}
    <3>1. \A x \in X : within(x) <=> x = place(i)
      BY <2>6
    <3>2. DOMAIN shown = X /\ place(i) \in X
      BY <1>1, <2>3
    <3> QED
      BY <3>1, <3>2
  <2>8. Cardinality({x \in DOMAIN shown : within(x)}) = 1
    BY <2>7, FS_Singleton
  <2> QED
    BY <2>8 DEF within
<1> QED
  BY <1>1, <1>4, <1>5, <1>6

\* Without a reading of before 1970 that slipped in, there is none in the buckets.
LEMMA NonePreEpoch ==
    ASSUME ReadersInv, Finished("values") \/ Finished("delta") \/ Finished("runs"),
           ask.bucket # None, ~RefusedBuckets, SlippedIn = {}
    PROVE  ~PreEpoch(Series, ask.local)
<1>1. CASE ~FromSql(ask)
  BY <1>1 DEF RefusedBuckets
<1>2. CASE FromSql(ask)
  <2>1. Asked(ask, "earliest")
    BY <1>2 DEF Asked
  <2>2. Answered("earliest")
    BY <2>1, FinishedAnswers
  <2> DEFINE early == Stream("earliest", ask.sensor)
             s == Series
  <2>3. ~PreEpoch(early, ask.local)
    BY <2>2 DEF Finished, Refused
  <2> SUFFICES ASSUME NEW i \in DOMAIN s, Instant(s[i], ask.local) < 0
               PROVE  FALSE
    BY DEF PreEpoch
  <2>4. s[i] \in ToSet(early)
    <3>1. s[i] \in ToSet(s)
      BY DEF ToSet
    <3>2. SlippedIn = {o \in ToSet(s) : /\ FromSql(ask) /\ Instant(o, ask.local) < 0
                                       /\ o \notin ToSet(early)}
      BY DEF SlippedIn
    <3> HIDE DEF s, early
    <3> QED
      BY <1>2, <3>1, <3>2
  <2> HIDE DEF s, early
  <2>5. PICK k \in DOMAIN early : early[k] = s[i]
    BY <2>4 DEF ToSet
  <2> QED
    BY <2>3, <2>5 DEF PreEpoch
<1> QED
  BY <1>1, <1>2

\* What the property of the buckets says.
LEMMA BucketsHold == ReadersInv => BucketsAgree
<1> SUFFICES ASSUME ReadersInv, Finished("values") \/ Finished("delta") \/ Finished("runs"),
                    ask.bucket # None, ~RefusedBuckets
             PROVE  BucketsAgree
  BY DEF BucketsAgree
<1> DEFINE s == Series
           interval == ask.bucket
           local == ask.local
           other == AggregateBuckets(s, interval, local)
           shown == Buckets
           same(x) == x \in DOMAIN shown \cap DOMAIN other /\ shown[x].stats = other[x].stats
           inside == \A i \in 1..Len(s) : (\A k \in 1..Len(s) : s[k].offset = s[i].offset) =>
                        Cardinality({x \in DOMAIN shown :
                            s[i].at \in shown[x].startsAt..(shown[x].startsAt + interval - 1)}) = 1
<1>1. s \in Seq(Observation) /\ interval \in Nat /\ interval > 0 /\ local \in BOOLEAN
  BY SeriesIs
<1>2. SlippedIn = {} => ~PreEpoch(s, local)
  BY NonePreEpoch
<1>3. IF FromSql(ask) THEN shown = SqlBuckets(s, interval, local) ELSE shown = other
  BY DEF Buckets
<1>4. DOMAIN s = 1..Len(s)
  BY <1>1
<1>5. ~FromSql(ask) => SlippedIn = {}
  BY DEF SlippedIn
<1> HIDE DEF s, interval, local, shown
<1>6. ASSUME SlippedIn = {}
      PROVE  Together(shown) = Len(s) /\ (\A x \in DOMAIN shown \cup DOMAIN other : same(x)) /\ inside
  <2>1. HoldAll(SqlBuckets(s, interval, local), s, interval, local) /\ HoldAll(other, s, interval, local)
    BY <1>1, <1>2, <1>6, BucketsAre
  <2>2. HoldAll(shown, s, interval, local)
    BY <1>3, <2>1
  <2> HIDE DEF other
  <2> QED
    BY <1>1, <1>2, <1>6, <2>1, <2>2, ShownHold
<1>7. ASSUME FromSql(ask)
      PROVE  /\ Together(shown) = Len(s)
             /\ \A x \in DOMAIN shown \cup DOMAIN other : x > 0 => same(x)
  <2>1. shown = SqlBuckets(s, interval, local)
    BY <1>3, <1>7
  <2>2. Together(shown) = Len(s)
    BY <1>1, <2>1, SqlTogether
  <2>3. DOMAIN shown \cup DOMAIN other \subseteq Int
    BY <1>1, <2>1, IndicesWhole
  <2>4. \A x \in DOMAIN shown \cup DOMAIN other : x > 0 => same(x)
    BY <1>1, <2>1, <2>3, AlikeAbove
  <2> QED
    BY <2>2, <2>4
<1>8. /\ Together(shown) = Len(s)
      /\ \A x \in DOMAIN shown \cup DOMAIN other : x > 0 \/ SlippedIn = {} => same(x)
      /\ SlippedIn = {} => inside
  <2> HIDE DEF inside, same, other
  <2> QED
    BY <1>5, <1>6, <1>7
<1> QED
  BY <1>4, <1>8 DEF BucketsAgree, s, interval, local, shown

\* Both ways of making buckets agree, every observation is in one of them, and one of
\* before 1970 that slips in between check and use spoils none that begins after the
\* epoch (reporting.py:404 and 527).
THEOREM BucketsAgreeAlways == Spec => []BucketsAgree
  BY ReadersInvAlways, BucketsHold, PTL

-------------------------------------------------------------------------------
(***************************************************************************)
(* Events of a record that one recorder makes.                             *)
(***************************************************************************)

\* The readings of one recorder follow each other: those of a sensor are on record
\* in the order of time, and what is about to be is later than all of them.
Following ==
    \A w \in Writers : Bounds[ask].writers = {w} =>
        /\ \A i, j \in 1..Len(rows) :
              i < j /\ rows[i].sensor = rows[j].sensor => rows[i].at < rows[j].at
        /\ \A u \in Writers : u # w => pending[u] = None
        /\ pending[w] # None =>
              \A i \in 1..Len(rows) :
                 rows[i].sensor = pending[w].sensor => rows[i].at < pending[w].at

\* There is nothing to begin with.
LEMMA FollowingInit == Init => Following
<1> SUFFICES ASSUME Init PROVE Following
  OBVIOUS
<1>1. rows = <<>> /\ pending = [u \in Writers |-> None]
  BY DEF Init
<1>2. Len(rows) = 0
  BY <1>1
<1>3. 1..Len(rows) = {}
  BY <1>2
<1>4. \A u \in Writers : pending[u] = None
  BY <1>1
<1> QED
  BY <1>3, <1>4 DEF Following

\* What is looked up and not found is later than what is on record of its sensor.
LEMMA FollowingNext ==
    ReadersInv /\ ReadersInv' /\ Following /\ [Next]_vars => Following'
<1> SUFFICES ASSUME ReadersInv, ReadersInv', Following, [Next]_vars,
                    NEW w \in Writers, Bounds[ask'].writers = {w}
             PROVE  /\ \A i, j \in 1..Len(rows') :
                          i < j /\ rows'[i].sensor = rows'[j].sensor => rows'[i].at < rows'[j].at
                    /\ \A u \in Writers : u # w => pending'[u] = None
                    /\ pending'[w] # None =>
                          \A i \in 1..Len(rows') :
                             rows'[i].sensor = pending'[w].sensor => rows'[i].at < pending'[w].at
  BY DEF Following
<1>0. Typed /\ Typed'
  BY DEF ReadersInv
<1>1. /\ rows \in Seq(Row) /\ Len(rows) \in Nat
      /\ clock \in Nat /\ pending \in [Writers -> Row \cup {None}]
      /\ \A i \in 1..Len(rows) : rows[i].at <= clock /\ rows[i].at \in Int
      /\ \A u \in Writers : pending[u] # None => pending[u] \in Row
  <2>1. \A i \in 1..Len(rows) : rows[i] \in Row
    BY <1>0 DEF Typed, Appended, Kept
  <2>2. \A r \in Row : r.at \in Int
    BY DEF Row
  <2> QED
    BY <1>0, <2>1, <2>2 DEF Typed, Appended, Kept, Journalled, Proper
<1>2. ask' = ask
  BY DEF Next, Insert, Read, Restart, ChangeOffset, Ask, CopyFails, vars
<1>3. /\ \A i, j \in 1..Len(rows) :
            i < j /\ rows[i].sensor = rows[j].sensor => rows[i].at < rows[j].at
      /\ \A u \in Writers : u # w => pending[u] = None
      /\ pending[w] # None =>
            \A i \in 1..Len(rows) :
               rows[i].sensor = pending[w].sensor => rows[i].at < pending[w].at
  BY <1>2 DEF Following
<1>4. CASE UNCHANGED <<rows, pending>>
  BY <1>3, <1>4
<1>5. ASSUME NEW u \in Writers, Insert(u)
      PROVE  /\ \A i, j \in 1..Len(rows') :
                    i < j /\ rows'[i].sensor = rows'[j].sensor => rows'[i].at < rows'[j].at
             /\ \A v \in Writers : pending'[v] = None
  <2> DEFINE m == pending[u]
             n == Len(rows)
  <2>1. m # None /\ pending' = [pending EXCEPT ![u] = None] /\ u = w
    BY <1>3, <1>5 DEF Insert
  <2>2. \A v \in Writers : pending'[v] = None
    BY <1>1, <1>3, <2>1
  <2>3. CASE rows' = rows
    BY <1>3, <2>2, <2>3
  <2>4. CASE rows' = Append(rows, m)
    <3> HIDE DEF m
    <3>1. Len(rows') = n + 1 /\ rows'[n + 1] = m /\ \A i \in 1..n : rows'[i] = rows[i]
      BY <1>1, <2>4
    <3>2. \A i \in 1..n : rows[i].sensor = m.sensor => rows[i].at < m.at
      BY <1>3, <2>1 DEF m
    <3> HIDE DEF n
    <3>3. n \in Nat /\ \A i, j \in 1..n :
            i < j /\ rows[i].sensor = rows[j].sensor => rows[i].at < rows[j].at
      BY <1>1, <1>3 DEF n
    <3>4. ASSUME NEW i \in 1..(n + 1), NEW j \in 1..(n + 1), i < j, rows'[i].sensor = rows'[j].sensor
          PROVE  rows'[i].at < rows'[j].at
      <4>1. i \in 1..n /\ (j \in 1..n \/ j = n + 1)
        BY <3>3, <3>4
      <4>2. CASE j \in 1..n
        BY <3>1, <3>3, <3>4, <4>1, <4>2
      <4>3. CASE j = n + 1
        BY <3>1, <3>2, <3>4, <4>1, <4>3
      <4> QED
        BY <4>1, <4>2, <4>3
    <3> QED
      BY <2>2, <3>1, <3>4
  <2> QED
    BY <1>5, <2>3, <2>4 DEF Insert
<1>6. ASSUME NEW u \in Writers, NEW s \in Sensors, Read(u, s)
      PROVE  /\ rows' = rows
             /\ \A v \in Writers : v # w => pending'[v] = None
             /\ pending'[w] # None =>
                   \A i \in 1..Len(rows) :
                      rows[i].sensor = pending'[w].sensor => rows[i].at < pending'[w].at
  <2>1. PICK d \in Bounds[ask].steps, v \in Readings(s) :
           clock' = clock + d /\ LookUp(u, Measured(s, clock + d, v))
    BY <1>6 DEF Read
  <2>2. d \in Nat
    BY <1>0, <2>1, ReadersAssumption DEF Typed, Appended, Kept
  <2>3. rows' = rows /\ u = w
    BY <1>2, <1>6 DEF Read
  <2> DEFINE m == Measured(s, clock + d, v)
  <2>4. m.at = clock + d /\ m.sensor = s
    BY DEF Measured
  <2> HIDE DEF m
  <2>5. pending' = pending \/ (pending' = [pending EXCEPT ![w] = m] /\ Fetch(rows, m) = {})
    BY <2>1, <2>3 DEF LookUp, m
  <2>6. CASE pending' = pending
    BY <1>3, <2>3, <2>6
  <2>7. CASE pending' = [pending EXCEPT ![w] = m] /\ Fetch(rows, m) = {}
    <3>1. pending'[w] = m /\ \A t \in Writers : t # w => pending'[t] = None
      BY <1>1, <1>3, <2>7
    <3>2. ASSUME NEW i \in 1..Len(rows), rows[i].sensor = m.sensor PROVE rows[i].at < m.at
      <4>1. i \in DOMAIN rows
        BY <1>1
      <4>2. ~SameId(rows[i], m)
        BY <2>7, <4>1 DEF Fetch
      <4>3. rows[i].at # m.at
        BY <3>2, <4>2 DEF SameId
      <4> QED
        BY <1>1, <2>2, <2>4, <4>3
    <3> QED
      BY <2>3, <3>1, <3>2
  <2> QED
    BY <2>5, <2>6, <2>7
<1>7. ASSUME NEW c \in Configs, Restart(c) PROVE UNCHANGED <<rows, pending>>
  BY <1>7 DEF Restart
<1>8. ASSUME NEW o \in Bounds[ask].offsets, ChangeOffset(o) PROVE UNCHANGED <<rows, pending>>
  BY <1>8 DEF ChangeOffset
<1>9. ASSUME Ask \/ CopyFails \/ UNCHANGED vars PROVE UNCHANGED <<rows, pending>>
  BY <1>9 DEF Ask, CopyFails, vars, record
<1>10. CASE \E u \in Writers : Insert(u)
  BY <1>5, <1>10
<1>11. CASE \E u \in Writers : \E s \in Sensors : Read(u, s)
  <2>1. PICK u \in Writers, s \in Sensors : Read(u, s)
    BY <1>11
  <2>2. /\ rows' = rows
        /\ \A v \in Writers : v # w => pending'[v] = None
        /\ pending'[w] # None =>
              \A i \in 1..Len(rows) :
                 rows[i].sensor = pending'[w].sensor => rows[i].at < pending'[w].at
    BY <1>6, <2>1
  <2> QED
    BY <1>3, <2>2
<1> QED
  BY <1>4, <1>7, <1>8, <1>9, <1>10, <1>11 DEF Next

\* One recorder's readings follow each other.
THEOREM FollowingAlways == Spec => [](ReadersInv /\ Following)
<1>1. ReadersInv /\ Following /\ [Next]_vars => ReadersInv' /\ Following'
  BY ReadersInvNext, FollowingNext
<1> QED
  BY ReadersInvInit, FollowingInit, <1>1, PTL DEF Spec

\* A report on events that is finished has asked for them, and counted them later.
LEMMA EventsAnswered ==
    ASSUME ReadersInv, Finished("events")
    PROVE  /\ Answered("signal") /\ Answered("occasions")
           /\ Place("signal") <= Place("occasions")
<1>0. Typed /\ Scripted /\ Eventful /\ ask.tool = "report" /\ Len(seen) = Len(Questions)
  BY DEF Finished, Eventful, ReadersInv
<1>1. seen \in Seq(Answer) /\ \A k \in 1..Len(seen) : seen[k].what = Questions[k]
  BY <1>0 DEF Scripted, Typed, Looked
<1>2. Answered("signal")
  <2> SUFFICES ASSUME ~Answered("signal") PROVE FALSE
    OBVIOUS
  <2>1. Questions = Plan
    BY <1>0 DEF Questions, Plan, Eventful
  <2>2. Asked(ask, "signal")
    BY <1>0 DEF Eventful, Asked, Topics
  <2>3. PICK k \in 1..Len(Plan) : Plan[k] = "signal"
    BY <2>2, PlanIs, InOrderIs
  <2>4. k \in 1..Len(seen) /\ seen[k].what = "signal"
    BY <1>0, <1>1, <2>1, <2>3
  <2> QED
    BY <1>1, <2>4 DEF Answered
<1> DEFINE n == Len(Plan) - 1
           m == Len(Moments)
<1>3. /\ n \in Nat /\ m \in Nat
      /\ Len(Questions) = n + m + 1
      /\ \A k \in 1..n : Questions[k] = Plan[k]
      /\ \A k \in 1..m : Questions[n + k] = "around"
      /\ Questions[n + m + 1] = "occasions"
  BY <1>0, <1>2, PlanOpens DEF Opened
<1>4. Plan \in Seq(Topic) /\ Len(Plan) = n + 1 /\ Plan[Len(Plan)] = "occasions"
  BY <1>0, PlanEnds
<1> HIDE DEF n, m
<1>5. Answered("occasions")
  <2>1. n + m + 1 \in 1..Len(seen)
    BY <1>0, <1>3
  <2>2. seen[n + m + 1].what = "occasions"
    BY <1>1, <1>3, <2>1
  <2> QED
    BY <1>1, <2>1, <2>2 DEF Answered
<1> DEFINE p == Place("signal")
           q == Place("occasions")
<1>6. p \in 1..Len(seen) /\ q \in 1..Len(seen) /\ seen[p].what = "signal" /\ seen[q].what = "occasions"
  BY <1>0, <1>2, <1>5, PlaceIs
<1> HIDE DEF p, q
<1>7. p \in 1..(n + m + 1) /\ q \in 1..(n + m + 1) /\ Questions[p] = "signal" /\ Questions[q] = "occasions"
  BY <1>0, <1>1, <1>3, <1>6
<1>8. p \in 1..n
  <2> SUFFICES ASSUME p \notin 1..n PROVE FALSE
    OBVIOUS
  <2>1. p = n + m + 1 \/ (p - n \in 1..m /\ n + (p - n) = p)
    BY <1>3, <1>7
  <2>2. Questions[p] = "occasions" \/ Questions[p] = "around"
    BY <1>3, <2>1
  <2> QED
    BY <1>7, <2>2
<1>9. q \notin 1..n
  <2> SUFFICES ASSUME q \in 1..n PROVE FALSE
    OBVIOUS
  <2>1. Plan[q] = "occasions" /\ Plan[n + 1] = "occasions"
    BY <1>3, <1>4, <1>7
  <2> DEFINE places == {i \in DOMAIN InOrder : Asked(ask, InOrder[i])}
  <2>2. places \in SUBSET (1..Len(InOrder)) /\ InOrder \in Seq(Topic) /\ places \subseteq 1..11
    BY InOrderIs
  <2>3. Plan = Chosen(InOrder, places)
    BY DEF Plan
  <2> HIDE DEF places
  <2>4. PICK order : Picks(order, Plan, InOrder, places)
    BY <2>2, <2>3, ChosenIs
  <2>5. q \in 1..Len(Plan) /\ n + 1 \in 1..Len(Plan) /\ q < n + 1
    BY <1>3, <1>4
  <2>6. /\ order[q] < order[n + 1] /\ order[q] \in 1..11 /\ order[n + 1] \in 1..11
        /\ Plan[q] = InOrder[order[q]]
    BY <2>2, <2>4, <2>5 DEF Picks
  <2>7. order[q] \in 1..10
    BY <2>6
  <2>8. \A i \in 1..10 : InOrder[i] # "occasions"
    BY InOrderIs
  <2> QED
    BY <2>1, <2>6, <2>7, <2>8
<1>10. p <= q
  BY <1>3, <1>7, <1>8, <1>9
<1> QED
  BY <1>2, <1>5, <1>10 DEF p, q

\* What the property of the occasions says.
LEMMA OccasionsHold == ReadersInv /\ Following => OccasionsNeverFallShort
<1> SUFFICES ASSUME ReadersInv, Following, OneRecorder, Finished("events")
             PROVE  Cardinality(Found) <= Occasions
  BY DEF OccasionsNeverFallShort
<1> DEFINE one == Saw("signal")
           other == Saw("occasions")
           s == Stream("signal", ask.events)
           t == Stream("occasions", ask.events)
<1>1. Typed /\ Answered("signal") /\ Answered("occasions") /\ Place("signal") <= Place("occasions")
  BY EventsAnswered DEF ReadersInv
<1>2. one \in Seq(Row) /\ Distinct(one) /\ other \in Seq(Row) /\ Distinct(other)
      /\ Len(other) \in 0..Len(rows) /\ \A i \in 1..Len(other) : other[i] = rows[i]
  BY <1>1, SawIs
<1>3. Len(one) <= Len(other) /\ \A i \in 1..Len(one) : other[i] = one[i]
  BY <1>1, SawMore
<1>4. s \in Seq(Observation) /\ InTime(s) /\ t \in Seq(Observation) /\ InTime(t)
  BY <1>1, StreamIs
<1>5. s = Observations(one, ask.events, ask.start, ask.end)
      /\ t = Observations(other, ask.events, ask.start, ask.end)
  BY DEF Stream
<1> HIDE DEF one, other, s, t
<1>6. \A i, j \in 1..Len(other) :
         i < j /\ other[i].sensor = other[j].sensor => other[i].at < other[j].at
  <2>1. \A i, j \in 1..Len(rows) :
          i < j /\ rows[i].sensor = rows[j].sensor => rows[i].at < rows[j].at
    BY DEF Following, OneRecorder
  <2>2. Len(rows) \in Nat
    BY <1>1 DEF Typed, Appended, Kept
  <2>3. \A i \in 1..Len(other) : i \in 1..Len(rows) /\ other[i] = rows[i]
    BY <1>2, <2>2
  <2> QED
    BY <2>1, <2>3
<1>7. Opens(s, t)
  BY <1>2, <1>3, <1>5, <1>6, StreamGoesOn
<1> DEFINE sense == ask.sense # "off"
           gap == ask.maxGap
           before == Runs(s, sense, gap)
           after == Runs(t, sense, gap)
<1>8. gap \in Int
  BY <1>1, AskIs
<1>9. Len(before) \in Nat /\ Len(after) \in Nat /\ Len(before) <= Len(after)
  <2> HIDE DEF sense, gap
  <2> QED
    BY <1>4, <1>7, <1>8, RunsGrow
<1>10. Moments = before /\ Occasions = Len(after)
  BY DEF Moments, Occasions, s, t
<1>11. before \in Seq(Run)
  <2> HIDE DEF sense, gap
  <2> QED
    BY <1>4, <1>8, RunsTyped
<1> HIDE DEF before, after
<1>12. Found \subseteq 1..Len(before)
  BY <1>10, <1>11 DEF Found
<1>13. Cardinality(Found) \in Nat /\ Cardinality(Found) <= Len(before)
  <2>1. IsFiniteSet(1..Len(before)) /\ Cardinality(1..Len(before)) = Len(before)
    <3>1. \A l \in Nat : IsFiniteSet(1..l) /\ Cardinality(1..l) = l
      <4> SUFFICES ASSUME NEW l \in Nat PROVE IsFiniteSet(1..l) /\ Cardinality(1..l) = l
        OBVIOUS
      <4>1. IsFiniteSet(1..l) /\ Cardinality(1..l) = IF 1 > l THEN 0 ELSE l - 1 + 1
        BY FS_Interval
      <4> QED
        BY <4>1
    <3>2. Len(before) \in Nat
      BY <1>9
    <3> QED
      BY <3>1, <3>2
  <2>2. IsFiniteSet(Found) /\ Cardinality(Found) <= Cardinality(1..Len(before))
    BY <1>12, <2>1, FS_Subset
  <2> QED
    BY <2>1, <2>2, FS_CardinalityType
<1> QED
  BY <1>9, <1>10, <1>13

\* With one recorder at work, the occasions that are counted are no fewer than the
\* events that are listed.
THEOREM OccasionsNeverFallShortAlways == Spec => []OccasionsNeverFallShort
  BY FollowingAlways, OccasionsHold, PTL

\* No report counts less, in the end, than it has shown or left out
\* (reporting.py:335, tools/geopilot_report.py:904).
THEOREM CountsNeverFallShortAlways == Spec => []CountsNeverFallShort
<1>1. FiguresNeverFallShort /\ OccasionsNeverFallShort => CountsNeverFallShort
  BY DEF CountsNeverFallShort
<1> QED
  BY <1>1, FiguresNeverFallShortAlways, OccasionsNeverFallShortAlways, PTL
===============================================================================
