---------------------------- MODULE RecorderProofs ----------------------------
(***************************************************************************)
(* Theorems about Recorder, for any number of recorders, any plan, any     *)
(* number of cycles, faults, starts and settings of the clock.             *)
(***************************************************************************)
EXTENDS Recorder, TLAPS

(***************************************************************************)
(* The inductive invariant, one conjunct per idea.                         *)
(***************************************************************************)

\* What a cycle has got so far follows the plan.
FollowsPlan(found) ==
    /\ Len(found) <= Len(Plan)
    /\ \A k \in 1 .. Len(found) : found[k].sensor = Plan[k]

\* A recorder that runs has loaded a configuration; one that is about to write
\* an epoch has read the clock.
Loaded ==
    \A r \in Recorders : /\ pc[r] \in Running => config[r] \in Configs
                         /\ pc[r] = "inserting" => started[r] \in Int

Typing == TypeOK /\ (\A r \in Recorders : FollowsPlan(results[r])) /\ Loaded

\* Nothing on disk, or about to be, is newer than the clock.
Past ==
    setBacks = 0 =>
        /\ \A i \in DOMAIN epochs : epochs[i].at < clock
        /\ \A m \in measurements : m.at < clock
        /\ \A r \in Recorders : pc[r] = "inserting" => started[r] < clock

\* Recorders that run together have the same configuration, and those whose
\* session is open find it in the last row of the journal.
Open == {"transports", "reading", "between", "sleeping"}
Alike ==
    ~mixed => \A q, r \in Recorders :
                  pc[q] \in Running /\ pc[r] \in Running => config[q] = config[r]
InEffect ==
    ~mixed => \A r \in Recorders : pc[r] \in Open =>
                  /\ Len(epochs) > 0
                  /\ epochs[Len(epochs)].config = config[r]

\* What was measured since a recorder read the stamp of the epoch it is about to
\* write was measured under that epoch's configuration.
Since ==
    setBacks = 0 /\ ~mixed =>
        \A r \in Recorders : pc[r] = "inserting" =>
            \A m \in measurements : m.at >= started[r] => m.config = config[r]

\* The last epoch reached by a measurement, named by its place, is its own.
Governs(i, m) ==
    /\ epochs[i].at <= m.at
    /\ epochs[i].config = m.config
    /\ \A j \in DOMAIN epochs : epochs[j].at <= m.at => j <= i
Governed ==
    setBacks = 0 /\ ~mixed =>
        \A m \in measurements : \E i \in DOMAIN epochs : Governs(i, m)

-------------------------------------------------------------------------------
(***************************************************************************)
(* Types.                                                                  *)
(***************************************************************************)

\* What a recorder has when it starts, or stops, is well formed.
LEMMA EmptyResults == <<>> \in Seq(Result) /\ FollowsPlan(<<>>)
<1>1. Len(Plan) \in Nat
  BY RecorderAssumption
<1> QED
  BY <1>1 DEF FollowsPlan

\* The result of a sensor whose turn it is follows the plan.
LEMMA Concluded ==
    ASSUME Typing, NEW r \in Recorders, NEW t \in Int \cup {Nothing},
           Turn(r), Conclude(r, t)
    PROVE  /\ results' \in [Recorders -> Seq(Result)]
           /\ \A q \in Recorders : FollowsPlan(results'[q])
           /\ Current(r) \in Int
<1> DEFINE found == results[r]
           next  == [sensor |-> Current(r), at |-> t]
<1>1. found \in Seq(Result) /\ Len(found) \in Nat /\ FollowsPlan(found)
  BY DEF Typing, TypeOK
<1>2. Plan \in Seq(Int) /\ Len(Plan) \in Nat
  BY RecorderAssumption
<1>3. Len(found) + 1 \in 1 .. Len(Plan)
  BY <1>1, <1>2 DEF FollowsPlan, Turn, Done
<1>4. Current(r) \in Int
  BY <1>2, <1>3 DEF Current
<1>5. next \in Result
  BY <1>4 DEF Result
<1>6. Append(found, next) \in Seq(Result)
  BY <1>1, <1>5
<1>7. FollowsPlan(Append(found, next))
  <2>1. Len(Append(found, next)) = Len(found) + 1
    BY <1>1, <1>5
  <2>2. ASSUME NEW k \in 1 .. Len(found) + 1
        PROVE  Append(found, next)[k].sensor = Plan[k]
    <3>1. CASE k = Len(found) + 1
      <4>1. Append(found, next)[k] = next
        BY <1>1, <1>5, <3>1
      <4> QED
        BY <4>1, <3>1 DEF Current
    <3>2. CASE k # Len(found) + 1
      <4>1. k \in 1 .. Len(found)
        BY <1>1, <3>2
      <4>2. Append(found, next)[k] = found[k]
        BY <1>1, <1>5, <4>1
      <4> QED
        BY <1>1, <4>1, <4>2 DEF FollowsPlan
    <3> QED
      BY <3>1, <3>2
  <2> QED
    BY <1>3, <2>1, <2>2 DEF FollowsPlan
<1>8. results' = [results EXCEPT ![r] = Append(found, next)]
  BY DEF Conclude
<1> HIDE DEF found, next
<1>9. results \in [Recorders -> Seq(Result)] /\ \A q \in Recorders : FollowsPlan(results[q])
  BY DEF Typing, TypeOK
<1> QED
  BY <1>4, <1>6, <1>7, <1>8, <1>9

\* A recorder that stops leaves everything typed.
LEMMA Left ==
    ASSUME Typing, NEW r \in Recorders, NEW how \in {"ok", "failed", "killed"},
           Leave(r, how)
    PROVE  /\ pc' \in [Recorders -> Controls]
           /\ exit' \in [Recorders -> {"none", "ok", "failed", "killed"}]
           /\ config' \in [Recorders -> Configs \cup {Nothing}]
           /\ started' \in [Recorders -> Int \cup {Nothing}]
           /\ results' \in [Recorders -> Seq(Result)]
           /\ \A q \in Recorders : FollowsPlan(results'[q])
           /\ Loaded'
  BY EmptyResults DEF Leave, Typing, TypeOK, Controls, Running, Loaded

\* What a cycle that ends has to keep.
EndedWell(r) ==
    /\ pc' \in [Recorders -> Controls]
    /\ exit' = exit
    /\ outcomes' \in [Recorders -> Seq(Outcome)]
    /\ results' \in [Recorders -> Seq(Result)]
    /\ \A q \in Recorders : FollowsPlan(results'[q])
    /\ Loaded'

\* A cycle that ends in an outcome ends well.
LEMMA Ended ==
    ASSUME Typing, NEW r \in Recorders, NEW outcome \in Outcome,
           EndCycle(r, outcome), pc[r] \in Running, config' = config, started' = started
    PROVE  EndedWell(r)
<1>1. Append(outcomes[r], outcome) \in Seq(Outcome)
  BY DEF Typing, TypeOK
<1> QED
  BY <1>1, EmptyResults DEF EndCycle, EndedWell, Typing, TypeOK, Controls, Running, Loaded

\* Reports and errors are outcomes.
LEMMA Outcomes ==
    ASSUME Typing, NEW r \in Recorders
    PROVE  /\ \A cause \in Causes : [report |-> FALSE, results |-> <<>>, cause |-> cause] \in Outcome
           /\ [report |-> TRUE, results |-> results[r], cause |-> "none"] \in Outcome
  BY EmptyResults DEF Outcome, Causes, Typing, TypeOK

\* So a cycle that fails ends well.
LEMMA Failed ==
    ASSUME Typing, NEW r \in Recorders, NEW cause \in Causes,
           FailCycle(r, cause), pc[r] \in Running, config' = config, started' = started
    PROVE  EndedWell(r)
  BY Outcomes, Ended DEF FailCycle

\* Opening a session keeps the types.
LEMMA TypingOpens ==
    ASSUME Typing, NEW r \in Recorders, NEW c \in Configs,
           Start(r, c) \/ OpenJournal(r) \/ InsertEpoch(r) \/ CannotOpen(r)
    PROVE  Typing'
<1>1. CASE Start(r, c)
  BY <1>1, EmptyResults DEF Start, Typing, TypeOK, Loaded, Controls, Running, disk
<1>2. CASE OpenJournal(r)
  BY <1>2 DEF OpenJournal, ReadClock, Typing, TypeOK, Loaded, Controls, Running, disk, bounds
<1>3. CASE InsertEpoch(r)
  <2>1. [config |-> config[r], at |-> started[r]] \in Epoch
    BY <1>3 DEF InsertEpoch, Typing, TypeOK, Loaded, Running, Epoch
  <2>2. epochs' \in Seq(Epoch)
    BY <1>3, <2>1 DEF InsertEpoch, Typing, TypeOK
  <2> QED
    BY <1>3, <2>2 DEF InsertEpoch, Typing, TypeOK, Loaded, Controls, Running, bounds, history
<1>4. CASE CannotOpen(r)
  BY <1>4, Left DEF CannotOpen, Strike, Typing, TypeOK, disk, history
<1> QED
  BY <1>1, <1>2, <1>3, <1>4

\* A cycle keeps them.
LEMMA TypingCycles ==
    ASSUME Typing, NEW r \in Recorders,
           \/ BeginCycle(r) \/ ReadFails(r) \/ ReadRaises(r)
           \/ Store(r) \/ StoreAgain(r) \/ StoreConflicts(r) \/ StoreFails(r)
           \/ Report(r)
    PROVE  Typing'
<1>1. CASE BeginCycle(r)
  BY <1>1 DEF BeginCycle, Typing, TypeOK, Loaded, Controls, Running, disk, bounds, history
<1>2. CASE ReadFails(r)
  <2>1. Conclude(r, Nothing) /\ Turn(r)
    BY <1>2 DEF ReadFails
  <2>2. /\ results' \in [Recorders -> Seq(Result)]
        /\ \A q \in Recorders : FollowsPlan(results'[q])
    BY <2>1, Concluded
  <2> QED
    BY <1>2, <2>1, <2>2 DEF ReadFails, Strike, Conclude, Typing, TypeOK, Loaded, disk, history
<1>3. CASE ReadRaises(r)
  <2>1. \E cause \in Causes : FailCycle(r, cause)
    BY <1>3 DEF ReadRaises, Causes
  <2>2. pc[r] \in Running /\ config' = config /\ started' = started
    BY <1>3 DEF ReadRaises, Turn, Running
  <2>3. EndedWell(r)
    BY <2>1, <2>2, Failed
  <2> QED
    BY <1>3, <2>3 DEF ReadRaises, Strike, Typing, TypeOK, disk, history, EndedWell
<1>4. CASE Store(r)
  <2>1. Conclude(r, clock) /\ Turn(r) /\ clock \in Int \cup {Nothing}
    BY <1>4 DEF Store, Typing, TypeOK
  <2>2. /\ results' \in [Recorders -> Seq(Result)]
        /\ \A q \in Recorders : FollowsPlan(results'[q])
        /\ Current(r) \in Int
    BY <2>1, Concluded
  <2>3. [sensor |-> Current(r), at |-> clock, config |-> config[r]] \in Measurement
    BY <2>1, <2>2 DEF Turn, Typing, TypeOK, Loaded, Running, Measurement
  <2> QED
    BY <1>4, <2>1, <2>2, <2>3 DEF Store, ReadClock, Conclude, Typing, TypeOK, Loaded, bounds, history
<1>5. CASE StoreAgain(r)
  <2>1. Conclude(r, clock) /\ Turn(r) /\ clock \in Int \cup {Nothing}
    BY <1>5 DEF StoreAgain, Typing, TypeOK
  <2>2. /\ results' \in [Recorders -> Seq(Result)]
        /\ \A q \in Recorders : FollowsPlan(results'[q])
    BY <2>1, Concluded
  <2> QED
    BY <1>5, <2>1, <2>2 DEF StoreAgain, ReadClock, Conclude, Typing, TypeOK, Loaded, disk, bounds, history
<1>6. CASE StoreConflicts(r)
  <2>1. \E cause \in Causes : FailCycle(r, cause)
    BY <1>6 DEF StoreConflicts, Causes
  <2>2. pc[r] \in Running /\ config' = config /\ started' = started
    BY <1>6 DEF StoreConflicts, Turn, Running
  <2>3. EndedWell(r)
    BY <2>1, <2>2, Failed
  <2> QED
    BY <1>6, <2>3 DEF StoreConflicts, ReadClock, Typing, TypeOK, disk, bounds, history, EndedWell
<1>7. CASE StoreFails(r)
  <2>1. \E cause \in Causes : FailCycle(r, cause)
    BY <1>7 DEF StoreFails, Causes
  <2>2. pc[r] \in Running /\ config' = config /\ started' = started
    BY <1>7 DEF StoreFails, Turn, Running
  <2>3. EndedWell(r)
    BY <2>1, <2>2, Failed
  <2> QED
    BY <1>7, <2>3 DEF StoreFails, ReadClock, Strike, Typing, TypeOK, disk, history, EndedWell
<1>8. CASE Report(r)
  <2>1. \E outcome \in Outcome : EndCycle(r, outcome)
    BY <1>8, Outcomes DEF Report, FailCycle, Causes
  <2>2. pc[r] \in Running /\ config' = config /\ started' = started
    BY <1>8 DEF Report, Running
  <2>3. EndedWell(r)
    BY <2>1, <2>2, Ended
  <2> QED
    BY <1>8, <2>3 DEF Report, Typing, TypeOK, disk, bounds, history, EndedWell
<1> QED
  BY <1>1, <1>2, <1>3, <1>4, <1>5, <1>6, <1>7, <1>8

\* The loop and what happens to a recorder keep them.
LEMMA TypingLoops ==
    ASSUME Typing, NEW r \in Recorders,
           Continue(r) \/ Finish(r) \/ Signal(r) \/ Crash(r)
    PROVE  Typing'
<1>1. CASE Continue(r)
  BY <1>1 DEF Continue, Typing, TypeOK, Loaded, Controls, Running, disk, bounds, history
<1>2. CASE Finish(r)
  <2>1. \E how \in {"ok", "failed", "killed"} : Leave(r, how)
    BY <1>2 DEF Finish
  <2> QED
    BY <1>2, <2>1, Left DEF Finish, Typing, TypeOK, disk, bounds, history
<1>3. CASE Signal(r)
  <2>1. Begun(r) \in Nat
    BY DEF Typing, TypeOK, Begun
  <2> QED
    BY <1>3, <2>1 DEF Signal, Strike, Typing, TypeOK, Loaded, disk
<1>4. CASE Crash(r)
  BY <1>4, Left DEF Crash, Strike, Typing, TypeOK, disk, history
<1> QED
  BY <1>1, <1>2, <1>3, <1>4

\* The clock is set back by whole microseconds.
LEMMA TypingSetBack == Typing /\ SetBack => Typing'
<1> SUFFICES ASSUME Typing, SetBack PROVE Typing'
  OBVIOUS
<1>1. clock' \in Int
  BY RecorderAssumption DEF SetBack, Typing, TypeOK
<1>2. {strikes', starts', setBacks'} \subseteq Nat
  BY DEF SetBack, Typing, TypeOK
<1>3. UNCHANGED <<run, disk, history>>
  BY DEF SetBack
<1> QED
  BY <1>1, <1>2, <1>3 DEF Typing, TypeOK, Loaded, run, disk, history

\* Every step does.
LEMMA TypingStep == Typing /\ [Next]_vars => Typing'
<1> SUFFICES ASSUME Typing, [Next]_vars PROVE Typing'
  OBVIOUS
<1>1. CASE UNCHANGED vars
  BY <1>1 DEF vars, run, disk, bounds, history, Typing, TypeOK, Loaded
<1>2. CASE SetBack
  BY <1>2, TypingSetBack
<1>3. ASSUME NEW r \in Recorders, NEW c \in Configs, Start(r, c)
      PROVE  Typing'
  BY <1>3, TypingOpens
<1>4. ASSUME NEW r \in Recorders,
             OpenJournal(r) \/ InsertEpoch(r) \/ CannotOpen(r)
      PROVE  Typing'
  <2>1. pc[r] \in Running
    BY <1>4 DEF OpenJournal, InsertEpoch, CannotOpen, Running
  <2>2. config[r] \in Configs
    BY <2>1 DEF Typing, Loaded
  <2> QED
    BY <1>4, <2>2, TypingOpens
<1>5. ASSUME NEW r \in Recorders,
             \/ BeginCycle(r) \/ ReadFails(r) \/ ReadRaises(r)
             \/ Store(r) \/ StoreAgain(r) \/ StoreConflicts(r) \/ StoreFails(r)
             \/ Report(r)
      PROVE  Typing'
  BY <1>5, TypingCycles
<1>6. ASSUME NEW r \in Recorders,
             Continue(r) \/ Finish(r) \/ Signal(r) \/ Crash(r)
      PROVE  Typing'
  BY <1>6, TypingLoops
<1> QED
  BY <1>1, <1>2, <1>3, <1>4, <1>5, <1>6 DEF Next

\* The initial state is typed.
LEMMA TypingInit == Init => Typing
<1> SUFFICES ASSUME Init PROVE Typing
  OBVIOUS
<1>1. <<>> \in Seq(Outcome) /\ <<>> \in Seq(Epoch)
  OBVIOUS
<1>2. /\ pc \in [Recorders -> Controls]
      /\ config \in [Recorders -> Configs \cup {Nothing}]
      /\ started \in [Recorders -> Int \cup {Nothing}]
      /\ interrupted \in [Recorders -> BOOLEAN]
      /\ exit \in [Recorders -> {"none", "ok", "failed", "killed"}]
      /\ heard \in [Recorders -> Nat]
  BY DEF Init, Controls
<1>3. /\ results \in [Recorders -> Seq(Result)]
      /\ outcomes \in [Recorders -> Seq(Outcome)]
      /\ epochs \in Seq(Epoch)
      /\ \A r \in Recorders : FollowsPlan(results[r])
  BY <1>1, EmptyResults DEF Init
<1>4. clock \in Int /\ {strikes, starts, setBacks} \subseteq Nat
  BY DEF Init
<1>5. /\ \A m \in measurements : m \in Measurement
      /\ mixed \in BOOLEAN
      /\ raced \in BOOLEAN
  BY DEF Init
<1>6. Loaded
  BY DEF Init, Loaded, Running
<1> QED
  BY <1>2, <1>3, <1>4, <1>5, <1>6 DEF Typing, TypeOK

\* Type correctness: every variable of the recorder keeps its type, with the
\* results of a running cycle following the plan.
THEOREM TypeCorrect == Spec => []TypeOK
<1>1. Typing => TypeOK
  BY DEF Typing
<1> QED
  BY <1>1, TypingInit, TypingStep, PTL DEF Spec

-------------------------------------------------------------------------------
(***************************************************************************)
(* Whose configuration a measurement has.                                  *)
(***************************************************************************)

Attribution == Past /\ Alike /\ InEffect /\ Since /\ Governed

\* How a step moves what these invariants speak of: the recorders that run, what
\* they have loaded, the clock and the disk.
Steady(r) ==
    /\ UNCHANGED <<measurements, epochs, setBacks, mixed, raced>>
    /\ clock' \in {clock, clock + 1}
    /\ \A q \in Recorders :
          /\ pc'[q] \in Running => pc[q] \in Running /\ config'[q] = config[q]
          /\ pc'[q] \in Open => pc[q] \in Open
          /\ pc'[q] = "inserting" => pc[q] = "inserting" /\ started'[q] = started[q]

\* Most steps change none of it, but for a recorder that stops.
LEMMA SteadySteps ==
    ASSUME Typing, NEW r \in Recorders,
           \/ CannotOpen(r) \/ BeginCycle(r) \/ ReadFails(r) \/ ReadRaises(r)
           \/ StoreAgain(r) \/ StoreConflicts(r) \/ StoreFails(r)
           \/ Report(r) \/ Continue(r) \/ Finish(r) \/ Signal(r) \/ Crash(r)
    PROVE  Steady(r)
<1> USE DEF Typing, TypeOK, Steady, Controls, Running, Open, ReadClock, disk, bounds, history
<1>1. CASE CannotOpen(r)
  BY <1>1 DEF CannotOpen, Leave
<1>2. CASE BeginCycle(r)
  BY <1>2 DEF BeginCycle
<1>3. CASE ReadFails(r)
  BY <1>3 DEF ReadFails, Conclude
<1>4. CASE ReadRaises(r)
  BY <1>4 DEF ReadRaises, FailCycle, EndCycle, Turn
<1>5. CASE StoreAgain(r)
  BY <1>5 DEF StoreAgain, Conclude
<1>6. CASE StoreConflicts(r)
  BY <1>6 DEF StoreConflicts, FailCycle, EndCycle, Turn
<1>7. CASE StoreFails(r)
  BY <1>7 DEF StoreFails, FailCycle, EndCycle, Turn
<1>8. CASE Report(r)
  BY <1>8 DEF Report, FailCycle, EndCycle
<1>9. CASE Continue(r)
  BY <1>9 DEF Continue
<1>10. CASE Finish(r)
  BY <1>10 DEF Finish, Leave
<1>11. CASE Signal(r)
  BY <1>11 DEF Signal
<1>12. CASE Crash(r)
  BY <1>12 DEF Crash, Leave
<1> QED
  BY <1>1, <1>2, <1>3, <1>4, <1>5, <1>6, <1>7, <1>8, <1>9, <1>10, <1>11, <1>12

\* The instants of the rows, and of an epoch about to be written, are numbers.
LEMMA Instants ==
    ASSUME Typing
    PROVE  /\ clock \in Int
           /\ Len(epochs) \in Nat /\ DOMAIN epochs = 1 .. Len(epochs)
           /\ \A i \in DOMAIN epochs : epochs[i].at \in Int
           /\ \A m \in measurements : m.at \in Int
           /\ \A q \in Recorders : pc[q] = "inserting" => started[q] \in Int
<1>1. epochs \in Seq(Epoch) /\ Len(epochs) \in Nat /\ DOMAIN epochs = 1 .. Len(epochs)
  BY DEF Typing, TypeOK
<1>2. ASSUME NEW i \in DOMAIN epochs PROVE epochs[i].at \in Int
  <2>1. epochs[i] \in Epoch
    BY <1>1
  <2> QED
    BY <2>1 DEF Epoch
<1> QED
  BY <1>1, <1>2 DEF Typing, TypeOK, Loaded, Measurement

\* So they keep the attribution.
LEMMA SteadyKeeps ==
    ASSUME Typing, Attribution, NEW r \in Recorders, Steady(r)
    PROVE  Attribution'
<1> USE DEF Attribution, Steady, Typing, TypeOK
<1>1. Past'
  <2>1. clock \in Int /\ clock' \in {clock, clock + 1}
    OBVIOUS
  <2>2. ASSUME NEW t \in Int, t < clock PROVE t < clock'
    BY <2>1, <2>2
  <2> QED
    BY <2>2, Instants DEF Past
<1>2. Alike'
  BY DEF Alike
<1>3. InEffect'
  BY DEF InEffect, Open, Running, Alike
<1>4. Since'
  BY DEF Since, Running
<1>5. Governed'
  BY DEF Governed, Governs
<1> QED
  BY <1>1, <1>2, <1>3, <1>4, <1>5

\* A recorder that starts beside one with another configuration sets mixed.
LEMMA StartKeeps ==
    ASSUME Typing, Attribution, NEW r \in Recorders, NEW c \in Configs, Start(r, c)
    PROVE  Attribution'
<1> USE DEF Attribution, Start, Typing, TypeOK, disk
<1>1. /\ pc' = [pc EXCEPT ![r] = "opening"]
      /\ config' = [config EXCEPT ![r] = c]
      /\ UNCHANGED <<started, clock, measurements, epochs, setBacks>>
  OBVIOUS
<1>2. ~mixed' => /\ ~mixed
                 /\ \A q \in Recorders \ {r} : pc[q] \in Running => config[q] = c
  OBVIOUS
<1>3. Past'
  BY <1>1 DEF Past
<1>4. Alike'
  BY <1>1, <1>2 DEF Alike
<1>5. InEffect'
  BY <1>1, <1>2 DEF InEffect, Open
<1>6. Since'
  BY <1>1, <1>2 DEF Since
<1>7. Governed'
  BY <1>1, <1>2 DEF Governed, Governs
<1> QED
  BY <1>3, <1>4, <1>5, <1>6, <1>7

\* Nothing stored is as new as the stamp of an epoch when it is taken, and where
\* no epoch is due the last row is the configuration loaded.
LEMMA OpenJournalKeeps ==
    ASSUME Typing, Attribution, NEW r \in Recorders, OpenJournal(r)
    PROVE  Attribution'
<1> USE DEF Attribution
<1>1. /\ pc[r] = "opening"
      /\ pc' = [pc EXCEPT ![r] = IF Moved(epochs, config[r]) THEN "inserting" ELSE "transports"]
      /\ started' = [started EXCEPT ![r] = clock]
      /\ clock' = clock + 1
      /\ UNCHANGED <<config, measurements, epochs, setBacks, mixed>>
  BY DEF OpenJournal, ReadClock, disk, bounds
<1>2. /\ pc \in [Recorders -> Controls]
      /\ started \in [Recorders -> Int \cup {Nothing}]
      /\ clock \in Int
      /\ \A m \in measurements : m.at \in Int
      /\ \A i \in DOMAIN epochs : epochs[i].at \in Int
      /\ Len(epochs) \in Nat /\ DOMAIN epochs = 1 .. Len(epochs)
      /\ epochs \in Seq(Epoch)
  BY Instants DEF Typing, TypeOK
<1>3. Past'
  <2>1. ASSUME NEW q \in Recorders, pc'[q] = "inserting", setBacks = 0
        PROVE  started'[q] < clock'
    <3>1. CASE q = r
      BY <1>1, <1>2, <3>1
    <3>2. CASE q # r
      <4>1. pc[q] = "inserting" /\ started'[q] = started[q]
        BY <1>1, <1>2, <2>1, <3>2
      <4>2. started[q] \in Int
        BY <4>1 DEF Typing, Loaded
      <4> QED
        BY <1>1, <1>2, <2>1, <4>1, <4>2 DEF Past
    <3> QED
      BY <3>1, <3>2
  <2>2. ASSUME NEW t \in Int, t < clock PROVE t < clock'
    BY <1>1, <1>2, <2>2
  <2> QED
    BY <1>1, <1>2, <2>1, <2>2 DEF Past
<1>4. Alike'
  BY <1>1, <1>2 DEF Alike, Running
<1>5. InEffect'
  <2>1. ~Moved(epochs, config[r]) => /\ Len(epochs) > 0
                                     /\ epochs[Len(epochs)].config = config[r]
    BY <1>2 DEF Moved
  <2> QED
    BY <1>1, <1>2, <2>1 DEF InEffect, Open
<1>6. Since'
  <2> SUFFICES ASSUME setBacks = 0, ~mixed, NEW q \in Recorders, pc'[q] = "inserting",
                      NEW m \in measurements, m.at >= started'[q]
               PROVE  m.config = config[q]
    BY <1>1 DEF Since
  <2>1. CASE q = r
    <3>1. started'[q] = clock /\ m.at < clock
      BY <1>1, <1>2, <2>1 DEF Past
    <3> QED
      BY <1>2, <3>1
  <2>2. CASE q # r
    BY <1>1, <1>2, <2>2 DEF Since
  <2> QED
    BY <2>1, <2>2
<1>7. Governed'
  BY <1>1 DEF Governed, Governs
<1> QED
  BY <1>3, <1>4, <1>5, <1>6, <1>7

\* The new epoch governs what was measured since its stamp, which is its own; the
\* rest keeps the epoch it had.
LEMMA InsertEpochKeeps ==
    ASSUME Typing, Attribution, NEW r \in Recorders, InsertEpoch(r)
    PROVE  Attribution'
<1> USE DEF Attribution
<1> DEFINE n == Len(epochs)
           new == [config |-> config[r], at |-> started[r]]
<1>1. /\ pc[r] = "inserting"
      /\ pc' = [pc EXCEPT ![r] = "transports"]
      /\ epochs' = Append(epochs, new)
      /\ UNCHANGED <<started, clock, config, measurements, setBacks, mixed>>
  BY DEF InsertEpoch, bounds, history
<1>2. /\ pc \in [Recorders -> Controls]
      /\ clock \in Int
      /\ \A m \in measurements : m.at \in Int
      /\ epochs \in Seq(Epoch) /\ n \in Nat /\ DOMAIN epochs = 1 .. n
  BY DEF Typing, TypeOK, Measurement
<1>3. new \in Epoch /\ started[r] \in Int
  BY <1>1 DEF Typing, TypeOK, Loaded, Running, Epoch
<1>4. /\ Len(epochs') = n + 1 /\ DOMAIN epochs' = 1 .. n + 1
      /\ epochs'[n + 1] = new
      /\ \A i \in 1 .. n : epochs'[i] = epochs[i]
  BY <1>1, <1>2, <1>3
<1>5. Past'
  <2>1. ASSUME setBacks = 0, NEW i \in DOMAIN epochs' PROVE epochs'[i].at < clock
    <3>1. CASE i = n + 1
      BY <1>1, <1>4, <2>1, <3>1 DEF Past
    <3>2. CASE i \in 1 .. n
      BY <1>2, <1>4, <2>1, <3>2 DEF Past
    <3> QED
      BY <1>2, <1>4, <2>1, <3>1, <3>2
  <2> QED
    BY <1>1, <1>2, <2>1 DEF Past
<1>6. Alike'
  BY <1>1, <1>2 DEF Alike, Running
<1>7. InEffect'
  <2>1. ~mixed => \A q \in Recorders : pc'[q] \in Open => config[q] = config[r]
    BY <1>1, <1>2 DEF Alike, Running, Open
  <2> QED
    BY <1>1, <1>2, <1>4, <2>1 DEF InEffect
<1>8. Since'
  BY <1>1, <1>2 DEF Since
<1>9. Governed'
  <2> SUFFICES ASSUME setBacks = 0, ~mixed, NEW m \in measurements
               PROVE  \E i \in DOMAIN epochs' : Governs(i, m)'
    BY <1>1 DEF Governed
  <2>1. CASE m.at >= started[r]
    <3>1. m.config = config[r]
      BY <1>1, <2>1 DEF Since
    <3>2. epochs'[n + 1].at <= m.at /\ epochs'[n + 1].config = m.config
      BY <1>2, <1>3, <1>4, <2>1, <3>1
    <3>3. n + 1 \in DOMAIN epochs' /\ \A j \in DOMAIN epochs' : j <= n + 1
      BY <1>2, <1>4
    <3> HIDE DEF n
    <3> QED
      BY <3>2, <3>3 DEF Governs
  <2>2. CASE m.at < started[r]
    <3>1. PICK i \in DOMAIN epochs : Governs(i, m)
      BY DEF Governed
    <3>2. ASSUME NEW j \in DOMAIN epochs', epochs'[j].at <= m.at PROVE j <= i
      <4>1. j # n + 1
        BY <1>2, <1>3, <1>4, <2>2, <3>2
      <4> QED
        BY <1>2, <1>4, <3>1, <3>2, <4>1 DEF Governs
    <3>3. Governs(i, m)'
      BY <1>2, <1>4, <3>1, <3>2 DEF Governs
    <3> QED
      BY <1>2, <1>4, <3>3
  <2>3. m.at >= started[r] \/ m.at < started[r]
    BY <1>2, <1>3
  <2> HIDE DEF n, new
  <2> QED
    BY <2>1, <2>2, <2>3
<1> QED
  BY <1>5, <1>6, <1>7, <1>8, <1>9

\* A new measurement is the newest of all, so the last epoch governs it, and that
\* is the configuration of every recorder that is running.
LEMMA StoreKeeps ==
    ASSUME Typing, Attribution, NEW r \in Recorders, Store(r)
    PROVE  Attribution'
<1> USE DEF Attribution
<1> DEFINE n == Len(epochs)
           row == [sensor |-> Current(r), at |-> clock, config |-> config[r]]
<1>1. /\ pc[r] = "reading"
      /\ measurements' = measurements \cup {row}
      /\ clock' = clock + 1
      /\ UNCHANGED <<pc, started, config, epochs, setBacks, mixed>>
  BY DEF Store, Turn, ReadClock, Conclude, bounds, history
<1>2. /\ clock \in Int
      /\ \A m \in measurements : m.at \in Int
      /\ \A i \in DOMAIN epochs : epochs[i].at \in Int
      /\ n \in Nat /\ DOMAIN epochs = 1 .. n
      /\ \A q \in Recorders : pc[q] = "inserting" => started[q] \in Int
  BY Instants
<1>3. row.at = clock /\ row.config = config[r]
  OBVIOUS
<1> HIDE DEF row
<1>4. Past'
  <2>1. ASSUME NEW t \in Int, t < clock PROVE t < clock'
    BY <1>1, <1>2, <2>1
  <2>2. row.at < clock'
    BY <1>1, <1>2, <1>3
  <2> QED
    BY <1>1, <1>2, <2>1, <2>2 DEF Past
<1>5. Alike'
  BY <1>1 DEF Alike
<1>6. InEffect'
  BY <1>1 DEF InEffect
<1>7. Since'
  <2>1. ASSUME ~mixed, NEW q \in Recorders, pc[q] = "inserting" PROVE row.config = config[q]
    BY <1>1, <1>3, <2>1 DEF Alike, Running
  <2> QED
    BY <1>1, <2>1 DEF Since
<1>8. Governed'
  <2>1. ASSUME setBacks = 0, ~mixed PROVE n \in DOMAIN epochs /\ Governs(n, row)
    BY <1>1, <1>2, <1>3, <2>1 DEF Governs, Past, InEffect, Open
  <2> QED
    BY <1>1, <2>1 DEF Governed, Governs
<1> QED
  BY <1>4, <1>5, <1>6, <1>7, <1>8

\* Nothing is claimed once the clock has been set back.
LEMMA SetBackKeeps == Typing /\ Attribution /\ SetBack => Attribution'
  BY DEF SetBack, Attribution, Typing, TypeOK, Past, Alike, InEffect, Since, Governed,
         run, disk, history

\* Every step keeps the attribution.
LEMMA AttributionStep == Typing /\ Attribution /\ [Next]_vars => Attribution'
<1> SUFFICES ASSUME Typing, Attribution, [Next]_vars PROVE Attribution'
  OBVIOUS
<1>1. CASE UNCHANGED vars
  BY <1>1 DEF vars, run, disk, bounds, history,
              Attribution, Past, Alike, InEffect, Since, Governed, Governs
<1>2. CASE SetBack
  BY <1>2, SetBackKeeps
<1>3. ASSUME NEW r \in Recorders, NEW c \in Configs, Start(r, c)
      PROVE  Attribution'
  BY <1>3, StartKeeps
<1>4. ASSUME NEW r \in Recorders, OpenJournal(r) \/ InsertEpoch(r) \/ Store(r)
      PROVE  Attribution'
  BY <1>4, OpenJournalKeeps, InsertEpochKeeps, StoreKeeps
<1>5. ASSUME NEW r \in Recorders,
             \/ CannotOpen(r) \/ BeginCycle(r) \/ ReadFails(r) \/ ReadRaises(r)
             \/ StoreAgain(r) \/ StoreConflicts(r) \/ StoreFails(r)
             \/ Report(r) \/ Continue(r) \/ Finish(r) \/ Signal(r) \/ Crash(r)
      PROVE  Attribution'
  BY <1>5, SteadySteps, SteadyKeeps
<1> QED
  BY <1>1, <1>2, <1>3, <1>4, <1>5 DEF Next

\* It holds of empty files.
LEMMA AttributionInit == Init => Attribution
  BY DEF Init, Attribution, Past, Alike, InEffect, Since, Governed, Running, Open

\* The epoch that governs a measurement is the one at() answers.
LEMMA GovernedIsAttributed ==
    ASSUME Typing, Governed
    PROVE  AttributedRightly
<1> SUFFICES ASSUME setBacks = 0, ~mixed, NEW m \in measurements
             PROVE  Names(epochs, m.at, m.config)
  BY DEF AttributedRightly
<1> DEFINE reached == Reached(epochs, m.at)
           last == CHOOSE i \in reached : \A j \in reached : j <= i
<1>1. PICK i \in DOMAIN epochs : Governs(i, m)
  BY DEF Governed
<1>2. reached \subseteq Int
  BY DEF Reached, Typing, TypeOK
<1>3. i \in reached /\ \A j \in reached : j <= i
  BY <1>1 DEF Reached, Governs
<1> HIDE DEF reached
<1>4. last = i
  <2>1. last \in reached /\ \A j \in reached : j <= last
    BY <1>3
  <2> HIDE DEF last
  <2>2. last \in Int /\ i \in Int
    BY <1>2, <1>3, <2>1
  <2>3. last <= i /\ i <= last
    BY <1>3, <2>1
  <2> QED
    BY <2>2, <2>3
<1>5. EpochAt(epochs, m.at) = epochs[i]
  BY <1>3, <1>4 DEF EpochAt, reached
<1> QED
  BY <1>1, <1>3, <1>5 DEF Names, Governs, reached

\* What at() answers about a measurement is the configuration it was made under,
\* unless the clock was set back or recorders with different ones ran together.
THEOREM AttributedAlways == Spec => []AttributedRightly
<1>1. Typing /\ Attribution => AttributedRightly
  BY GovernedIsAttributed DEF Attribution
<1>2. Init => Typing /\ Attribution
  BY TypingInit, AttributionInit
<1>3. (Typing /\ Attribution) /\ [Next]_vars => (Typing /\ Attribution)'
  BY TypingStep, AttributionStep
<1> QED
  BY <1>1, <1>2, <1>3, PTL DEF Spec

-------------------------------------------------------------------------------
(***************************************************************************)
(* When the journal gets a row.                                            *)
(***************************************************************************)

\* Only one recorder at a time is about to write an epoch, and what it has seen
\* of the journal still holds.
Alone ==
    ~raced => \A r \in Recorders : pc[r] = "inserting" =>
                  /\ Moved(epochs, config[r])
                  /\ \A q \in Recorders : pc[q] = "inserting" => q = r

Marking == Alone /\ EpochsMark

\* Every step keeps the marking.
LEMMA MarkingStep == Typing /\ Marking /\ [Next]_vars => Marking'
<1> SUFFICES ASSUME Typing, Marking, [Next]_vars PROVE Marking'
  OBVIOUS
<1> USE DEF Marking
<1>1. CASE UNCHANGED vars
  BY <1>1 DEF vars, run, disk, bounds, history, Alone, EpochsMark
<1>2. CASE SetBack
  BY <1>2 DEF SetBack, run, disk, history, Alone, EpochsMark
<1>3. ASSUME NEW r \in Recorders, NEW c \in Configs, Start(r, c)
      PROVE  Marking'
  BY <1>3 DEF Start, disk, Alone, EpochsMark, Typing, TypeOK
<1>4. ASSUME NEW r \in Recorders, OpenJournal(r) PROVE Marking'
  <2>1. /\ pc' = [pc EXCEPT ![r] = IF Moved(epochs, config[r]) THEN "inserting" ELSE "transports"]
        /\ ~raced' => ~raced /\ \A q \in Recorders \ {r} : pc[q] # "inserting"
        /\ UNCHANGED <<config, epochs>>
    BY <1>4 DEF OpenJournal, disk
  <2>2. Alone'
    BY <2>1 DEF Alone, Typing, TypeOK
  <2> QED
    BY <2>1, <2>2 DEF EpochsMark
<1>5. ASSUME NEW r \in Recorders, InsertEpoch(r) PROVE Marking'
  <2> DEFINE new == [config |-> config[r], at |-> started[r]]
  <2>1. /\ pc[r] = "inserting"
        /\ pc' = [pc EXCEPT ![r] = "transports"]
        /\ epochs' = Append(epochs, new)
        /\ UNCHANGED <<config, raced>>
    BY <1>5 DEF InsertEpoch, history
  <2>2. Alone'
    BY <2>1 DEF Alone, Typing, TypeOK
  <2>3. new \in Epoch /\ epochs \in Seq(Epoch) /\ Len(epochs) \in Nat
    BY <2>1 DEF Typing, TypeOK, Loaded, Running, Epoch
  <2>4. ASSUME ~raced, NEW i \in 1 .. Len(epochs')  - 1
        PROVE  epochs'[i].config # epochs'[i + 1].config
    <3>1. Len(epochs') = Len(epochs) + 1
      BY <2>1, <2>3
    <3>2. CASE i = Len(epochs)
      <4>1. epochs'[i + 1] = new /\ epochs'[i] = epochs[i] /\ epochs # <<>>
        BY <2>1, <2>3, <3>1, <3>2
      <4>2. epochs[i].config # config[r]
        BY <2>1, <2>4, <3>2, <4>1 DEF Alone, Moved
      <4> QED
        BY <4>1, <4>2
    <3>3. CASE i # Len(epochs)
      <4>1. i \in 1 .. Len(epochs) - 1
        BY <2>3, <3>1, <3>3
      <4>2. epochs'[i] = epochs[i] /\ epochs'[i + 1] = epochs[i + 1]
        BY <2>1, <2>3, <4>1
      <4> QED
        BY <2>4, <4>1, <4>2 DEF EpochsMark
    <3> QED
      BY <3>2, <3>3
  <2> QED
    BY <2>1, <2>2, <2>4 DEF EpochsMark
<1>6. ASSUME NEW r \in Recorders, Store(r) PROVE Marking'
  BY <1>6 DEF Store, Conclude, history, Alone, EpochsMark
<1>7. ASSUME NEW r \in Recorders,
             \/ CannotOpen(r) \/ BeginCycle(r) \/ ReadFails(r) \/ ReadRaises(r)
             \/ StoreAgain(r) \/ StoreConflicts(r) \/ StoreFails(r)
             \/ Report(r) \/ Continue(r) \/ Finish(r) \/ Signal(r) \/ Crash(r)
      PROVE  Marking'
  <2>1. Steady(r)
    BY <1>7, SteadySteps
  <2> QED
    BY <2>1 DEF Steady, Alone, EpochsMark, Running
<1> QED
  BY <1>1, <1>2, <1>3, <1>4, <1>5, <1>6, <1>7 DEF Next

\* Two rows that follow each other name different configurations, unless two
\* recorders opened the journal at once.
THEOREM EpochsMarkAlways == Spec => []EpochsMark
<1>1. Init => Marking
  BY DEF Init, Marking, Alone, EpochsMark
<1>2. Init => Typing /\ Marking
  BY <1>1, TypingInit
<1>3. (Typing /\ Marking) /\ [Next]_vars => (Typing /\ Marking)'
  BY TypingStep, MarkingStep
<1>4. Typing /\ Marking => EpochsMark
  BY DEF Marking
<1> QED
  BY <1>2, <1>3, <1>4, PTL DEF Spec

-------------------------------------------------------------------------------
(***************************************************************************)
(* How a run ends.                                                         *)
(***************************************************************************)

\* A run has an exit only once it is over, and outcomes only once it has opened.
Unfinished ==
    \A r \in Recorders :
        /\ pc[r] \in Running => exit[r] = "none"
        /\ pc[r] \in {"opening", "inserting", "transports"} => outcomes[r] = <<>>

\* Where another cycle may follow without the flag being looked at, a recorder
\* that was signalled has begun none since.
Heeded ==
    \A r \in Recorders : interrupted[r] =>
        /\ Len(outcomes[r]) <= heard[r] + 1
        /\ pc[r] = "reading" => Len(outcomes[r]) <= heard[r]
        /\ pc[r] \in {"opening", "inserting", "transports", "sleeping"} =>
               Len(outcomes[r]) <= heard[r]

Ending == Unfinished /\ EndsOnlyWhenAsked /\ Heeded

\* Every step keeps the ending.
LEMMA EndingStep == Typing /\ Ending /\ [Next]_vars => Ending'
<1> SUFFICES ASSUME Typing, Ending, [Next]_vars PROVE Ending'
  OBVIOUS
<1> USE DEF Ending, Unfinished, EndsOnlyWhenAsked, Heeded, Last, Running
<1>a. /\ pc \in [Recorders -> Controls]
      /\ outcomes \in [Recorders -> Seq(Outcome)]
      /\ interrupted \in [Recorders -> BOOLEAN]
      /\ exit \in [Recorders -> {"none", "ok", "failed", "killed"}]
      /\ heard \in [Recorders -> Nat]
      /\ \A r \in Recorders : Len(outcomes[r]) \in Nat
      /\ Cycles \in [Recorders -> Nat \ {0}]
  BY RecorderAssumption DEF Typing, TypeOK
<1>1. CASE UNCHANGED vars
  BY <1>1 DEF vars, run, history
<1>2. CASE SetBack
  BY <1>2 DEF SetBack, run, history
<1>3. ASSUME NEW r \in Recorders, NEW c \in Configs, Start(r, c)
      PROVE  Ending'
  BY <1>a, <1>3 DEF Start
<1>4. ASSUME NEW r \in Recorders, OpenJournal(r) \/ InsertEpoch(r)
      PROVE  Ending'
  BY <1>a, <1>4 DEF OpenJournal, InsertEpoch, history
<1>5. ASSUME NEW r \in Recorders, CannotOpen(r) \/ Crash(r)
      PROVE  Ending'
  BY <1>a, <1>5 DEF CannotOpen, Crash, Leave, history
<1>6. ASSUME NEW r \in Recorders, BeginCycle(r)
      PROVE  Ending'
  BY <1>a, <1>6 DEF BeginCycle, history
<1>7. ASSUME NEW r \in Recorders, ReadFails(r) \/ Store(r) \/ StoreAgain(r)
      PROVE  Ending'
  BY <1>7 DEF ReadFails, Store, StoreAgain, Conclude, history
<1>8. ASSUME NEW r \in Recorders,
             ReadRaises(r) \/ StoreConflicts(r) \/ StoreFails(r) \/ Report(r)
      PROVE  Ending'
  <2>1. /\ \E outcome \in Outcome : EndCycle(r, outcome)
        /\ pc[r] = "reading"
        /\ UNCHANGED <<interrupted, heard>>
    BY <1>8, Outcomes DEF ReadRaises, StoreConflicts, StoreFails, Report, FailCycle,
                          Turn, Causes, history
  <2>2. /\ pc' = [pc EXCEPT ![r] = "between"]
        /\ exit' = exit
        /\ \E outcome \in Outcome : outcomes' = [outcomes EXCEPT ![r] = Append(@, outcome)]
    BY <2>1 DEF EndCycle
  <2>3. Len(outcomes'[r]) = Len(outcomes[r]) + 1
    BY <1>a, <2>2
  <2> QED
    BY <1>a, <2>1, <2>2, <2>3
<1>9. ASSUME NEW r \in Recorders, Continue(r)
      PROVE  Ending'
  BY <1>a, <1>9 DEF Continue, history
<1>10. ASSUME NEW r \in Recorders, Finish(r)
       PROVE  Ending'
  BY <1>a, <1>10 DEF Finish, Leave, history
<1>11. ASSUME NEW r \in Recorders, Signal(r)
       PROVE  Ending'
  BY <1>a, <1>11 DEF Signal, Begun
<1> QED
  BY <1>1, <1>2, <1>3, <1>4, <1>5, <1>6, <1>7, <1>8, <1>9, <1>10, <1>11 DEF Next

\* No run is going on at first.
LEMMA EndingInit == Init => Ending
  BY DEF Init, Ending, Unfinished, EndsOnlyWhenAsked, Heeded, Running

\* A run that opened ends after its last cycle or because it was asked to,
\* whatever its cycles met.
THEOREM EndsOnlyWhenAskedAlways == Spec => []EndsOnlyWhenAsked
<1>1. Init => Typing /\ Ending
  BY TypingInit, EndingInit
<1>2. (Typing /\ Ending) /\ [Next]_vars => (Typing /\ Ending)'
  BY TypingStep, EndingStep
<1>3. Typing /\ Ending => EndsOnlyWhenAsked
  BY DEF Ending
<1> QED
  BY <1>1, <1>2, <1>3, PTL DEF Spec

\* Once a signal has been handled, at most one more cycle begins.
THEOREM StopsWithinOneCycleAlways == Spec => []StopsWithinOneCycle
<1>1. Init => Typing /\ Ending
  BY TypingInit, EndingInit
<1>2. (Typing /\ Ending) /\ [Next]_vars => (Typing /\ Ending)'
  BY TypingStep, EndingStep
<1>3. Typing /\ Ending => StopsWithinOneCycle
  BY DEF Typing, TypeOK, Ending, Heeded, StopsWithinOneCycle, Begun
<1> QED
  BY <1>1, <1>2, <1>3, PTL DEF Spec

-------------------------------------------------------------------------------
(***************************************************************************)
(* What reports and exit codes say.                                        *)
(***************************************************************************)

Answered(found) == [k \in DOMAIN found |-> found[k].sensor]

\* Every success among the results is one of the rows.
Backed(found, rows) ==
    \A i \in DOMAIN found : found[i].at # Nothing =>
        \E m \in rows : m.sensor = found[i].sensor /\ m.at = found[i].at

AllBacked ==
    \A r \in Recorders :
        /\ Backed(results[r], measurements)
        /\ \A i \in DOMAIN outcomes[r] : Backed(outcomes[r][i].results, measurements)

\* A report has an answer or a failure for every sensor of the plan.
Complete ==
    \A r \in Recorders : \A i \in DOMAIN outcomes[r] :
        outcomes[r][i].report => Answered(outcomes[r][i].results) = Plan

\* The exit code 0 is given when no cycle failed.
Clean ==
    \A r \in Recorders : exit[r] = "ok" =>
        \A i \in DOMAIN outcomes[r] : outcomes[r][i].report

Honest == AllBacked /\ Complete /\ Clean

\* A cycle that goes on keeps what it has, and adds what is stored.
LEMMA ConcludedBacked ==
    ASSUME Typing, AllBacked, NEW r \in Recorders, NEW t \in Int \cup {Nothing},
           Turn(r), Conclude(r, t), measurements \subseteq measurements',
           t # Nothing => \E m \in measurements' : m.sensor = Current(r) /\ m.at = t
    PROVE  AllBacked'
<1> DEFINE found == results[r]
           next  == [sensor |-> Current(r), at |-> t]
<1>1. results' = [results EXCEPT ![r] = Append(found, next)] /\ outcomes' = outcomes
  BY DEF Conclude
<1>2. found \in Seq(Result) /\ Len(found) \in Nat /\ results \in [Recorders -> Seq(Result)]
  BY DEF Typing, TypeOK
<1>3. next \in Result
  BY Concluded DEF Result
<1>4. \A rows : Backed(rows, measurements) => Backed(rows, measurements')
  BY DEF Backed
<1>5. Backed(found, measurements')
  BY <1>4 DEF AllBacked
<1>6. next.at # Nothing => \E m \in measurements' : m.sensor = next.sensor /\ m.at = next.at
  OBVIOUS
<1>7. Backed(Append(found, next), measurements')
  <2> HIDE DEF found, next
  <2>1. ASSUME NEW i \in DOMAIN Append(found, next), i # Len(found) + 1
        PROVE  i \in DOMAIN found /\ Append(found, next)[i] = found[i]
    BY <1>2, <1>3, <2>1
  <2>2. Append(found, next)[Len(found) + 1] = next
    BY <1>2, <1>3
  <2> QED
    BY <1>5, <1>6, <2>1, <2>2 DEF Backed
<1> HIDE DEF found, next
<1>8. ASSUME NEW q \in Recorders PROVE Backed(results'[q], measurements')
  BY <1>1, <1>2, <1>4, <1>7 DEF AllBacked
<1> QED
  BY <1>1, <1>4, <1>8 DEF AllBacked

\* A report and an error are both honest.
Fair(outcome) ==
    /\ Backed(outcome.results, measurements)
    /\ outcome.report => Answered(outcome.results) = Plan

\* A cycle that ends in a fair outcome leaves all of them fair.
LEMMA EndedHonest ==
    ASSUME Typing, Honest, Unfinished, NEW r \in Recorders, NEW outcome \in Outcome,
           EndCycle(r, outcome), Fair(outcome), pc[r] \in Running,
           measurements' = measurements
    PROVE  Honest'
<1> DEFINE past == outcomes[r]
<1>1. /\ outcomes' = [outcomes EXCEPT ![r] = Append(past, outcome)]
      /\ results' = [results EXCEPT ![r] = <<>>]
      /\ exit' = exit /\ exit[r] = "none"
  BY DEF EndCycle, Unfinished
<1>2. /\ past \in Seq(Outcome) /\ Len(past) \in Nat
      /\ outcomes \in [Recorders -> Seq(Outcome)]
      /\ results \in [Recorders -> Seq(Result)]
  BY DEF Typing, TypeOK
<1>3. ASSUME NEW q \in Recorders, NEW i \in DOMAIN outcomes'[q]
      PROVE  \/ outcomes'[q][i] = outcome
             \/ i \in DOMAIN outcomes[q] /\ outcomes'[q][i] = outcomes[q][i]
  <2> HIDE DEF past
  <2>1. CASE q = r /\ i = Len(past) + 1
    BY <1>1, <1>2, <2>1
  <2>2. CASE q = r /\ i # Len(past) + 1
    <3>1. i \in DOMAIN past /\ Append(past, outcome)[i] = past[i]
      BY <1>1, <1>2, <1>3, <2>2
    <3> QED
      BY <1>1, <1>2, <2>2, <3>1 DEF past
  <2>3. CASE q # r
    BY <1>1, <1>2, <1>3, <2>3
  <2> QED
    BY <2>1, <2>2, <2>3
<1>4. Backed(<<>>, measurements)
  BY DEF Backed
<1>5. AllBacked'
  <2>1. ASSUME NEW q \in Recorders PROVE Backed(results'[q], measurements)
    BY <1>1, <1>2, <1>4 DEF Honest, AllBacked
  <2>2. ASSUME NEW q \in Recorders, NEW i \in DOMAIN outcomes'[q]
        PROVE  Backed(outcomes'[q][i].results, measurements)
    BY <1>3 DEF Honest, AllBacked, Fair
  <2> QED
    BY <2>1, <2>2 DEF AllBacked
<1>6. Complete'
  <2>1. ASSUME NEW q \in Recorders, NEW i \in DOMAIN outcomes'[q], outcomes'[q][i].report
        PROVE  Answered(outcomes'[q][i].results) = Plan
    BY <1>3, <2>1 DEF Honest, Complete, Fair
  <2> QED
    BY <2>1 DEF Complete
<1>7. Clean'
  <2>1. ASSUME NEW q \in Recorders, exit[q] = "ok"
        PROVE  q # r /\ outcomes'[q] = outcomes[q]
    BY <1>1, <1>2, <2>1
  <2> QED
    BY <1>1, <2>1 DEF Honest, Clean
<1> QED
  BY <1>5, <1>6, <1>7 DEF Honest

\* Every step keeps them honest.
LEMMA HonestStep == Typing /\ Unfinished /\ Honest /\ [Next]_vars => Honest'
<1> SUFFICES ASSUME Typing, Unfinished, Honest, [Next]_vars PROVE Honest'
  OBVIOUS
<1> USE DEF Honest, AllBacked, Complete, Clean
<1>a. /\ outcomes \in [Recorders -> Seq(Outcome)]
      /\ results \in [Recorders -> Seq(Result)]
      /\ exit \in [Recorders -> {"none", "ok", "failed", "killed"}]
  BY DEF Typing, TypeOK
<1>b. \A rows : Backed(<<>>, rows)
  BY DEF Backed
<1>1. CASE UNCHANGED vars
  BY <1>1 DEF vars, run, disk
<1>2. CASE SetBack
  BY <1>2 DEF SetBack, run, disk
<1>3. ASSUME NEW r \in Recorders, NEW c \in Configs, Start(r, c)
      PROVE  Honest'
  BY <1>a, <1>3 DEF Start, disk
<1>4. ASSUME NEW r \in Recorders,
             OpenJournal(r) \/ InsertEpoch(r) \/ BeginCycle(r) \/ Continue(r) \/ Signal(r)
      PROVE  Honest'
  BY <1>4 DEF OpenJournal, InsertEpoch, BeginCycle, Continue, Signal, disk
<1>5. ASSUME NEW r \in Recorders, CannotOpen(r) \/ Crash(r)
      PROVE  Honest'
  <2>1. /\ results' = [results EXCEPT ![r] = <<>>]
        /\ \/ exit' = [exit EXCEPT ![r] = "failed"]
           \/ exit' = [exit EXCEPT ![r] = "killed"]
        /\ UNCHANGED <<measurements, outcomes>>
    BY <1>5 DEF CannotOpen, Crash, Leave, disk
  <2>2. AllBacked' /\ Complete'
    BY <1>a, <1>b, <2>1
  <2>3. ASSUME NEW q \in Recorders, exit'[q] = "ok" PROVE exit[q] = "ok"
    BY <1>a, <2>1, <2>3
  <2> QED
    BY <2>1, <2>2, <2>3
<1>6. ASSUME NEW r \in Recorders, Finish(r)
      PROVE  Honest'
  <2>1. /\ results' = [results EXCEPT ![r] = <<>>]
        /\ exit' = [exit EXCEPT ![r] =
               IF \E i \in DOMAIN outcomes[r] : ~outcomes[r][i].report THEN "failed" ELSE "ok"]
        /\ UNCHANGED <<measurements, outcomes>>
    BY <1>6 DEF Finish, Leave, disk
  <2>2. AllBacked' /\ Complete'
    BY <1>a, <1>b, <2>1
  <2>3. ASSUME NEW q \in Recorders, exit'[q] = "ok", NEW i \in DOMAIN outcomes[q]
        PROVE  outcomes[q][i].report
    BY <1>a, <2>1, <2>3
  <2> QED
    BY <2>1, <2>2, <2>3
<1>7. ASSUME NEW r \in Recorders, ReadFails(r)
      PROVE  Honest'
  <2>1. /\ Turn(r) /\ Conclude(r, Nothing)
        /\ UNCHANGED <<measurements, outcomes, exit>>
    BY <1>7 DEF ReadFails, Conclude, disk
  <2>2. AllBacked'
    BY <2>1, ConcludedBacked
  <2> QED
    BY <2>1, <2>2
<1>8. ASSUME NEW r \in Recorders, Store(r) \/ StoreAgain(r)
      PROVE  Honest'
  <2>1. /\ Turn(r) /\ Conclude(r, clock) /\ clock \in Int
        /\ measurements \subseteq measurements'
        /\ UNCHANGED <<outcomes, exit>>
    BY <1>8 DEF Store, StoreAgain, Conclude, disk, Typing, TypeOK
  <2>2. \E m \in measurements' : m.sensor = Current(r) /\ m.at = clock
    <3> DEFINE row == [sensor |-> Current(r), at |-> clock, config |-> config[r]]
    <3>1. CASE Store(r)
      <4>1. row \in measurements'
        BY <3>1 DEF Store
      <4> QED
        BY <4>1
    <3>2. CASE StoreAgain(r)
      BY <3>2 DEF StoreAgain, Stored, disk
    <3> QED
      BY <1>8, <3>1, <3>2
  <2>3. AllBacked'
    BY <2>1, <2>2, ConcludedBacked
  <2> QED
    BY <2>1, <2>3
<1>9. ASSUME NEW r \in Recorders,
             ReadRaises(r) \/ StoreConflicts(r) \/ StoreFails(r) \/ Report(r)
      PROVE  Honest'
  <2>1. \A cause \in Causes : Fair([report |-> FALSE, results |-> <<>>, cause |-> cause])
    BY <1>b DEF Fair
  <2>2. Done(r) => Fair([report |-> TRUE, results |-> results[r], cause |-> "none"])
    <3> SUFFICES ASSUME Done(r) PROVE Answered(results[r]) = Plan
      BY DEF Fair
    <3>1. /\ results[r] \in Seq(Result) /\ Plan \in Seq(Int)
          /\ Len(results[r]) = Len(Plan) /\ FollowsPlan(results[r])
      BY RecorderAssumption DEF Typing, TypeOK, Done
    <3> QED
      BY <3>1 DEF Answered, FollowsPlan
  <2>3. /\ \E outcome \in Outcome : EndCycle(r, outcome) /\ Fair(outcome)
        /\ pc[r] \in Running
        /\ measurements' = measurements
    BY <1>9, <2>1, <2>2, Outcomes
       DEF ReadRaises, StoreConflicts, StoreFails, Report, FailCycle, Turn, Causes, Running, disk
  <2> QED
    BY <2>3, EndedHonest
<1> QED
  BY <1>1, <1>2, <1>3, <1>4, <1>5, <1>6, <1>7, <1>8, <1>9 DEF Next

\* Nothing has been reported at first.
LEMMA HonestInit == Init => Honest
  BY DEF Init, Honest, AllBacked, Backed, Complete, Clean

\* The three invariants hold together.
LEMMA HonestAlways == Spec => [](Typing /\ Ending /\ Honest)
<1>1. Init => Typing /\ Ending /\ Honest
  BY TypingInit, EndingInit, HonestInit
<1>2. (Typing /\ Ending /\ Honest) /\ [Next]_vars => (Typing /\ Ending /\ Honest)'
  BY TypingStep, EndingStep, HonestStep DEF Ending
<1> QED
  BY <1>1, <1>2, PTL DEF Spec

\* A success, in a report or in the cycle that is running, is on disk.
THEOREM ReportedIsStoredAlways == Spec => []ReportedIsStored
<1>1. Honest => ReportedIsStored
  BY DEF Honest, AllBacked, Backed, ReportedIsStored, Stored
<1> QED
  BY <1>1, HonestAlways, PTL

\* Exit code 0 means that every cycle completed, with an answer or a failure for
\* every sensor of the plan, in its order.
THEOREM ZeroMeansCompleteAlways == Spec => []ZeroMeansComplete
<1>1. Honest => ZeroMeansComplete
  BY DEF Honest, Complete, Clean, Answered, ZeroMeansComplete
<1> QED
  BY <1>1, HonestAlways, PTL
===============================================================================
