-------------------------- MODULE CommandGuardProofs --------------------------
(***************************************************************************)
(* What holds of the command guard for any number of threads, commands and *)
(* targets, any intervals and any faults.                                  *)
(***************************************************************************)
EXTENDS CommandGuard, TLAPS

-----------------------------------------------------------------------------
(* The journal. *)

\* A longer history is still one.
LEMMA AppendType ==
    ASSUME NEW R, NEW j \in Seq(R), NEW r \in R
    PROVE  Append(j, r) \in Seq(R)
  OBVIOUS

\* A stored record leaves a well-formed journal.
LEMMA StoreType ==
    ASSUME NEW R, NEW j \in Seq(R), NEW r \in R
    PROVE  Store(j, r) \in Seq(R)
  BY DEF Store

\* Storing only adds: every earlier row stays where it is, and at most one row, the
\* record itself, is new.
LEMMA StoreRows ==
    ASSUME NEW R, NEW j \in Seq(R), NEW r \in R
    PROVE  /\ DOMAIN j \subseteq DOMAIN Store(j, r)
           /\ \A i \in DOMAIN j : Store(j, r)[i] = j[i]
           /\ \A i \in DOMAIN Store(j, r) :
                 i \in DOMAIN j \/ (i = Len(j) + 1 /\ Store(j, r)[i] = r)
  BY DEF Store

\* Whether it is new or was there already, the key of a stored record is in the journal.
LEMMA StoreHolds ==
    ASSUME NEW R, NEW j \in Seq(R), NEW r \in R
    PROVE  Holds(Store(j, r), RowKey(r))
<1>1. CASE Holds(j, RowKey(r))
  BY <1>1 DEF Store
<1>2. CASE ~Holds(j, RowKey(r))
  <2>1. Store(j, r) = Append(j, r)
    BY <1>2 DEF Store
  <2>2. Len(j) + 1 \in DOMAIN Append(j, r) /\ Append(j, r)[Len(j) + 1] = r
    OBVIOUS
  <2> QED
    BY <2>1, <2>2 DEF Holds
<1> QED
  BY <1>1, <1>2


-----------------------------------------------------------------------------
(* The inductive invariant, one conjunct per idea. *)

Inside == {"deciding", "writing", "applied", "failed"}
Issued == {"writing", "applied", "failed"}

\* A busy thread carries a command whose caller still waits, and no two threads
\* carry the same one.
Carrying ==
    \A t \in Threads :
        pc[t] # "idle" => /\ command[t] \in Commands
                          /\ answer[command[t]] = "pending"
                          /\ \A s \in Threads :
                                pc[s] # "idle" /\ command[s] = command[t] => s = t

\* Whoever decides, writes or records holds the gate.
Gated == \A t \in Threads : pc[t] \in Inside => gate = t

\* What reaches the bus is aimed at a whitelisted relay.
Aimed == \A t \in Threads : pc[t] \in Issued => aim[command[t]] \in Targets

\* ORDER BY seq DESC LIMIT 1 names a row whenever there is one.
Ranked ==
    \A g \in Targets : AppliedRows(journal, g) # {} =>
        \E i \in AppliedRows(journal, g) : \A k \in AppliedRows(journal, g) : k <= i

Protocol == TypeOK /\ Carrying /\ Gated /\ Aimed /\ Ranked

-----------------------------------------------------------------------------
(* Type correctness and the protocol of the gate. *)

\* `ORDER BY seq DESC LIMIT 1` finds a row of the relay, and no later one is there.
LEMMA LatestRow ==
    ASSUME Protocol, NEW g \in Targets, AppliedRows(journal, g) # {}
    PROVE  /\ Latest(AppliedRows(journal, g)) \in AppliedRows(journal, g)
           /\ \A k \in AppliedRows(journal, g) : k <= Latest(AppliedRows(journal, g))
  BY DEF Protocol, Ranked, Latest

\* What the guard remembers is a time, or nothing.
LEMMA RememberedType ==
    ASSUME Protocol, NEW g \in Targets, NEW readable \in BOOLEAN
    PROVE  Remembered(g, readable) \in Nat \cup {Never}
<1> USE DEF Protocol, TypeOK
<1>1. LastAppliedAt(journal, g) \in Nat \cup {Never}
  <2>1. CASE AppliedRows(journal, g) = {}
    BY <2>1 DEF LastAppliedAt
  <2>2. CASE AppliedRows(journal, g) # {}
    <3>1. Latest(AppliedRows(journal, g)) \in DOMAIN journal
      BY <2>2, LatestRow DEF AppliedRows
    <3>2. journal[Latest(AppliedRows(journal, g))] \in CommandRecord(Commands, Requested)
      BY <3>1
    <3> QED
      BY <2>2, <3>2 DEF LastAppliedAt, CommandRecord
  <2> QED
    BY <2>1, <2>2
<1> QED
  BY <1>1 DEF Remembered

\* A new row becomes the latest of its relay, and disturbs no other.
LEMMA StoreRanked ==
    ASSUME Protocol, NEW r \in CommandRecord(Commands, Requested),
           journal' = Store(journal, r)
    PROVE  Ranked'
<1> SUFFICES ASSUME NEW g \in Targets, AppliedRows(journal', g) # {}
             PROVE  \E i \in AppliedRows(journal', g) :
                        \A k \in AppliedRows(journal', g) : k <= i
  BY DEF Ranked
<1>1. journal \in Seq(CommandRecord(Commands, Requested))
  BY DEF Protocol, TypeOK
<1>2. /\ \A i \in DOMAIN journal : i <= Len(journal) /\ journal'[i] = journal[i]
      /\ \A i \in DOMAIN journal' :
            i \in DOMAIN journal \/ (i = Len(journal) + 1 /\ journal'[i] = r)
      /\ DOMAIN journal \subseteq DOMAIN journal'
      /\ DOMAIN journal' \subseteq Nat
  <2>1. journal' \in Seq(CommandRecord(Commands, Requested))
    BY <1>1, StoreType
  <2> QED
    BY <1>1, <2>1, StoreRows
<1>3. CASE Len(journal) + 1 \in AppliedRows(journal', g)
  BY <1>1, <1>2, <1>3 DEF AppliedRows
<1>4. CASE Len(journal) + 1 \notin AppliedRows(journal', g)
  <2>1. AppliedRows(journal', g) = AppliedRows(journal, g)
    BY <1>2, <1>4 DEF AppliedRows
  <2> QED
    BY <2>1 DEF Protocol, Ranked
<1> QED
  BY <1>3, <1>4

\* A thread that leaves the gate keeps the protocol.
LEMMA LeaveProtocol ==
    ASSUME Protocol, NEW t \in Threads, pc[t] \in Inside, UNCHANGED aim,
           NEW said \in {APPLIED, REFUSED, FAILED, "raised"}, Leave(t, said)
    PROVE  /\ gate' \in Threads \cup {NoThread}
           /\ pc' \in [Threads -> Controls]
           /\ command' \in [Threads -> Commands \cup {NoCommand}]
           /\ now' \in [Threads -> Nat]
           /\ answer' \in [Commands -> Answers]
           /\ Carrying' /\ Gated' /\ Aimed'
<1> USE DEF Protocol, TypeOK, Leave, Goto, Inside
<1>1. command[t] \in Commands /\ gate = t
  BY DEF Carrying, Gated
<1>2. /\ gate' \in Threads \cup {NoThread}
      /\ pc' \in [Threads -> Controls]
      /\ command' \in [Threads -> Commands \cup {NoCommand}]
      /\ now' \in [Threads -> Nat]
      /\ answer' \in [Commands -> Answers]
  BY <1>1 DEF Controls, Answers
<1>3. Carrying'
  BY <1>1 DEF Carrying
<1>4. Gated'
  BY <1>1 DEF Gated
<1>5. Aimed'
  BY DEF Aimed, Issued
<1> QED
  BY <1>2, <1>3, <1>4, <1>5

\* Recording an outcome is leaving the gate, with or without the row.
LEMMA RecordStep ==
    ASSUME Protocol, NEW t \in Threads, pc[t] \in Inside,
           NEW status \in {APPLIED, REFUSED, FAILED}, Record(t, status)
    PROVE  /\ Row(t, status) \in CommandRecord(Commands, Requested)
           /\ \/ /\ journal' = Store(journal, Row(t, status))
                 /\ Leave(t, status)
              \/ /\ journal' = journal
                 /\ Leave(t, "raised")
           /\ \E said \in {APPLIED, REFUSED, FAILED, "raised"} : Leave(t, said)
           /\ journal' \in Seq(CommandRecord(Commands, Requested))
           /\ Ranked'
<1> USE DEF Protocol, TypeOK
<1>1. Row(t, status) \in CommandRecord(Commands, Requested)
  BY DEF Row, CommandRecord, CommandStatus, Carrying, Inside
<1>2. CASE journal' = Store(journal, Row(t, status)) /\ Leave(t, status)
  BY <1>1, <1>2, StoreType, StoreRanked
<1>3. CASE journal' = journal /\ Leave(t, "raised")
  <2>1. Ranked'
    BY <1>3 DEF Ranked
  <2> QED
    BY <1>1, <1>3, <2>1
<1> QED
  BY <1>1, <1>2, <1>3 DEF Record

\* What the rate limit remembers is what it may cache.
LEMMA RecallType ==
    ASSUME Protocol, NEW g \in Targets, NEW readable \in BOOLEAN, Recall(g, readable)
    PROVE  /\ cache' \in [Targets -> Nat \cup {Never}]
           /\ unanswered' \in SUBSET Targets
  BY RememberedType DEF Protocol, TypeOK, Recall

\* A freshly started surface keeps the protocol of the gate: ControlService.__init__.
THEOREM ProtocolInit == Init => Protocol
<1> SUFFICES ASSUME Init PROVE Protocol
  OBVIOUS
<1> USE DEF Init
<1>1. TypeOK
  <2>1. journal \in Seq(CommandRecord(Commands, Requested))
    OBVIOUS
  <2>2. moves \in Seq([command_id: Commands, at: Nat])
    OBVIOUS
  <2>3. wall \in 0..Horizon
    BY GuardAssumption DEF GuardAssumption
  <2>4. /\ pc \in [Threads -> Controls]
        /\ command \in [Threads -> Commands \cup {NoCommand}]
        /\ now \in [Threads -> Nat]
        /\ cache \in [Targets -> Nat \cup {Never}]
        /\ answer \in [Commands -> Answers]
    BY DEF Controls, Answers
  <2> QED
    BY <2>1, <2>2, <2>3, <2>4 DEF TypeOK
<1>2. Carrying /\ Gated /\ Aimed
  BY DEF Carrying, Gated, Aimed, Inside, Issued
<1>3. Ranked
  BY DEF Ranked, AppliedRows
<1> QED
  BY <1>1, <1>2, <1>3 DEF Protocol

\* Every step of the guard, its faults and the clock included, keeps that protocol:
\* one thread in the gate, carrying a command of its own, with rows in file order.
THEOREM ProtocolStep == Protocol /\ [Next]_vars => Protocol'
<1> SUFFICES ASSUME Protocol, [Next]_vars PROVE Protocol'
  OBVIOUS
<1>1. ASSUME NEW t \in Threads, NEW c \in Commands, Submit(t, c) PROVE Protocol'
  <2> USE <1>1 DEF Submit, Goto, history
  <2>1. TypeOK'
    BY DEF Protocol, TypeOK, Controls, Answers
  <2>2. Carrying'
    BY DEF Protocol, TypeOK, Carrying
  <2>3. Gated' /\ Aimed'
    BY DEF Protocol, TypeOK, Gated, Aimed, Inside, Issued
  <2>4. Ranked'
    BY DEF Protocol, Ranked
  <2> QED
    BY <2>1, <2>2, <2>3, <2>4 DEF Protocol
<1>2. ASSUME NEW t \in Threads, Enter(t) PROVE Protocol'
  <2> USE <1>2 DEF Enter, Goto, history
  <2>1. TypeOK'
    BY GuardAssumption DEF Protocol, TypeOK, Controls, GuardAssumption
  <2>2. Carrying'
    BY DEF Protocol, TypeOK, Carrying
  <2>3. Gated' /\ Aimed'
    BY GuardAssumption DEF Protocol, TypeOK, Gated, Aimed, Inside, Issued, GuardAssumption
  <2>4. Ranked'
    BY DEF Protocol, Ranked
  <2> QED
    BY <2>1, <2>2, <2>3, <2>4 DEF Protocol
<1>3. ASSUME NEW t \in Threads, RefuseUnpermitted(t) PROVE Protocol'
  <2>1. pc[t] \in Inside /\ Record(t, REFUSED)
    BY <1>3 DEF RefuseUnpermitted, InGate, Inside
  <2> QED
    BY <1>3, <2>1, RecordStep, LeaveProtocol
       DEF RefuseUnpermitted, history, Protocol, TypeOK
<1>4. ASSUME NEW t \in Threads, FailUnwired(t) PROVE Protocol'
  <2>1. pc[t] \in Inside /\ Record(t, FAILED)
    BY <1>4 DEF FailUnwired, InGate, Inside
  <2> QED
    BY <1>4, <2>1, RecordStep, LeaveProtocol
       DEF FailUnwired, history, Protocol, TypeOK
<1>5. ASSUME NEW t \in Threads, RefuseTooSoon(t) PROVE Protocol'
  <2>1. pc[t] \in Inside /\ Record(t, REFUSED) /\ aim[command[t]] \in Targets
    BY <1>5 DEF RefuseTooSoon, InGate, Inside, Permitted
  <2>2. cache' \in [Targets -> Nat \cup {Never}] /\ unanswered' \in SUBSET Targets
    BY <1>5, <2>1, RecallType DEF RefuseTooSoon
  <2> QED
    BY <1>5, <2>1, <2>2, RecordStep, LeaveProtocol DEF RefuseTooSoon, Protocol, TypeOK
<1>6. ASSUME NEW t \in Threads, Issue(t) PROVE Protocol'
  <2> DEFINE g == aim[command[t]]
  <2>1. pc[t] = "deciding" /\ g \in Targets /\ command[t] \in Commands
    BY <1>6 DEF Issue, InGate, Permitted, Protocol, Carrying
  <2>2. cache' \in [Targets -> Nat \cup {Never}] /\ unanswered' \in SUBSET Targets
    BY <1>6, <2>1, RecallType DEF Issue
  <2>3. CASE journal' = Store(journal, Row(t, ISSUED)) /\ Goto(t, "writing")
             /\ UNCHANGED <<gate, command, now, answer>>
    <3>1. Row(t, ISSUED) \in CommandRecord(Commands, Requested)
      BY <2>1 DEF Row, CommandRecord, CommandStatus, Protocol, TypeOK
    <3>2. journal' \in Seq(CommandRecord(Commands, Requested)) /\ Ranked'
      BY <2>3, <3>1, StoreType, StoreRanked DEF Protocol, TypeOK
    <3>3. TypeOK'
      BY <1>6, <2>2, <2>3, <3>2 DEF Issue, Goto, Protocol, TypeOK, Controls
    <3>4. Carrying' /\ Gated' /\ Aimed'
      BY <1>6, <2>1, <2>3
         DEF Issue, Goto, Protocol, TypeOK, Carrying, Gated, Aimed, Inside, Issued
    <3> QED
      BY <3>2, <3>3, <3>4 DEF Protocol
  <2>4. CASE Leave(t, "raised") /\ UNCHANGED journal
    <3>1. Ranked'
      BY <2>4 DEF Protocol, Ranked
    <3> QED
      BY <1>6, <2>1, <2>2, <2>4, <3>1, LeaveProtocol DEF Issue, Inside, Protocol, TypeOK
  <2> QED
    BY <1>6, <2>3, <2>4 DEF Issue
<1>7. ASSUME NEW t \in Threads, WriteAcknowledged(t) \/ WriteFailed(t) PROVE Protocol'
  <2> USE <1>7 DEF WriteAcknowledged, WriteFailed, Goto, InGate
  <2>1. moves' \in Seq([command_id: Commands, at: Nat])
    <3> DEFINE Moved == [command_id: Commands, at: Nat]
               moved == [command_id |-> command[t], at |-> wall]
    <3>1. moved \in Moved
      BY GuardAssumption DEF Protocol, TypeOK, Carrying, GuardAssumption
    <3>2. moves' = moves \/ moves' = Append(moves, moved)
      BY DEF Move
    <3>3. moves \in Seq(Moved)
      BY DEF Protocol, TypeOK
    <3>4. moves' \in Seq(Moved)
      <4> HIDE DEF Moved, moved
      <4> QED
        BY <3>1, <3>2, <3>3, AppendType
    <3> QED
      BY <3>4
  <2>2. TypeOK'
    BY <2>1 DEF Protocol, TypeOK, Controls
  <2>3. Carrying'
    BY DEF Protocol, TypeOK, Carrying
  <2>4. Gated' /\ Aimed'
    BY DEF Protocol, TypeOK, Gated, Aimed, Inside, Issued
  <2>5. Ranked'
    BY DEF Protocol, Ranked
  <2> QED
    BY <2>2, <2>3, <2>4, <2>5 DEF Protocol
<1>8. ASSUME NEW t \in Threads, WriteEscapes(t) PROVE Protocol'
  <2>1. Ranked'
    BY <1>8 DEF WriteEscapes, Protocol, Ranked
  <2> QED
    BY <1>8, <2>1, LeaveProtocol
       DEF WriteEscapes, InGate, Inside, history, Protocol, TypeOK
<1>9. ASSUME NEW t \in Threads, RecordApplied(t) PROVE Protocol'
  <2>1. pc[t] \in Inside /\ Record(t, APPLIED)
    BY <1>9 DEF RecordApplied, InGate, Inside
  <2>2. cache' \in [Targets -> Nat \cup {Never}]
    BY <1>9 DEF RecordApplied, Protocol, TypeOK
  <2> QED
    BY <1>9, <2>1, <2>2, RecordStep, LeaveProtocol
       DEF RecordApplied, history, Protocol, TypeOK
<1>10. ASSUME NEW t \in Threads, RecordFailed(t) PROVE Protocol'
  <2>1. pc[t] \in Inside /\ Record(t, FAILED)
    BY <1>10 DEF RecordFailed, InGate, Inside
  <2> QED
    BY <1>10, <2>1, RecordStep, LeaveProtocol
       DEF RecordFailed, history, Protocol, TypeOK
<1>11. CASE Crash
  <2> USE <1>11 DEF Crash, history
  <2>1. TypeOK'
    BY DEF Protocol, TypeOK, Controls, Answers
  <2>2. Carrying' /\ Gated' /\ Aimed'
    BY DEF Carrying, Gated, Aimed, Inside, Issued
  <2>3. Ranked'
    BY DEF Protocol, Ranked
  <2> QED
    BY <2>1, <2>2, <2>3 DEF Protocol
<1>12. CASE Boot \/ Tick \/ SetClock \/ UNCHANGED vars
  <2> USE <1>12 DEF Boot, Tick, SetClock, vars, memory, history
  <2>1. TypeOK'
    <3>1. wall' \in 0..Horizon
      BY GuardAssumption DEF Protocol, TypeOK, GuardAssumption
    <3>2. up' \in BOOLEAN /\ setup' \in Setups /\ stepped' \in BOOLEAN
      BY DEF Protocol, TypeOK
    <3> QED
      BY <3>1, <3>2 DEF Protocol, TypeOK
  <2>2. Carrying' /\ Gated' /\ Aimed'
    BY DEF Protocol, Carrying, Gated, Aimed
  <2>3. Ranked'
    BY DEF Protocol, Ranked
  <2> QED
    BY <2>1, <2>2, <2>3 DEF Protocol
<1> QED
  BY <1>1, <1>2, <1>3, <1>4, <1>5, <1>6, <1>7, <1>8, <1>9, <1>10, <1>11, <1>12
     DEF Next, Proceed

\* The protocol of ControlService._gate holds in every reachable state.
THEOREM Protocols == Spec => []Protocol
  BY ProtocolInit, ProtocolStep, PTL DEF Spec

\* The type invariant holds for any number of threads, commands and relays.
THEOREM TypeCorrect == Spec => []TypeOK
<1>1. Protocol => TypeOK
  BY DEF Protocol
<1> QED
  BY <1>1, Protocols, PTL

-----------------------------------------------------------------------------
(* The audit trail: what the journal holds about each command. *)

\* command_id is UNIQUE in the table.
Distinct ==
    \A i, k \in DOMAIN journal : RowKey(journal[i]) = RowKey(journal[k]) => i = k

\* Until its caller has an answer, a command has no outcome on disk.
Unsettled ==
    \A c \in Commands : answer[c] \in {"unsent", "pending"}
                            => ~Holds(journal, <<c, FALSE>>)

\* Until it is decided, a command has no intent on disk either.
Untold ==
    /\ \A c \in Commands : answer[c] = "unsent" => ~Holds(journal, <<c, TRUE>>)
    /\ \A t \in Threads : pc[t] \in {"queued", "deciding"}
                              => ~Holds(journal, <<command[t], TRUE>>)

\* Between intent and outcome nothing else is written.
Newest ==
    \A t \in Threads : pc[t] \in Issued =>
        /\ Len(journal) > 0
        /\ RowKey(journal[Len(journal)]) = <<command[t], TRUE>>

Ledger == /\ Distinct
          /\ Unsettled
          /\ Untold
          /\ Newest
          /\ WriteAhead
          /\ AnswerOnDisk
          /\ OutcomeFollowsIntent

-----------------------------------------------------------------------------
(* The interval. *)

\* A remembered operation is at least as late as every one on record.
CacheCurrent ==
    \A g \in Targets \ unanswered : cache[g] # Never =>
        \A i \in AppliedRows(journal, g) : journal[i].decided_at <= cache[g]

\* The interval has passed for the command that is on its way to the relay.
Rested ==
    \A t \in Threads : pc[t] \in {"writing", "applied"} =>
        LET g == aim[command[t]] IN
        g \notin unanswered => \A i \in AppliedRows(journal, g) :
            now[t] - journal[i].decided_at >= MinimumInterval[g]

Spacing == CacheCurrent /\ Rested /\ AppliedSpaced

-----------------------------------------------------------------------------
(* Physical moves. *)

\* A row names the target its command was aimed at.
RowAim == \A i \in DOMAIN journal : journal[i].target_id = aim[journal[i].command_id]

\* A decision is not later than the clock that only ticks.
Timely == ~stepped => \A t \in Threads : pc[t] \in Inside => now[t] <= wall

\* A command moves its relay at most once, and nothing moves before it is recorded.
LastMove ==
    \A t \in Threads : \A i \in DOMAIN moves :
        moves[i].command_id = command[t] =>
            /\ pc[t] \notin {"writing"}
            /\ pc[t] = "applied" => i = Len(moves)

Motion == RowAim /\ Timely /\ LastMove /\ RecordedMoveRests

-----------------------------------------------------------------------------
(* The audit trail is kept. *)

\* The keys on disk after a store are the old ones and the record's own.
LEMMA StoreKeys ==
    ASSUME NEW R, NEW j \in Seq(R), NEW r \in R, NEW key
    PROVE  Holds(Store(j, r), key) <=> Holds(j, key) \/ RowKey(r) = key
<1>1. CASE Holds(j, RowKey(r))
  BY <1>1 DEF Store
<1>2. CASE ~Holds(j, RowKey(r))
  <2>1. Store(j, r) = Append(j, r)
    BY <1>2 DEF Store
  <2>2. /\ DOMAIN Append(j, r) = DOMAIN j \cup {Len(j) + 1}
        /\ \A i \in DOMAIN j : Append(j, r)[i] = j[i]
        /\ Append(j, r)[Len(j) + 1] = r
    OBVIOUS
  <2> QED
    BY <2>1, <2>2 DEF Holds
<1> QED
  BY <1>1, <1>2

\* Nothing on disk is ever taken back.
LEMMA StoreStatus ==
    ASSUME NEW R, NEW j \in Seq(R), NEW r \in R, NEW id, NEW status,
           HasStatus(j, id, status)
    PROVE  HasStatus(Store(j, r), id, status)
  BY StoreRows DEF HasStatus

\* A caller that is let go without an answer leaves the ledger as it was.
LEMMA RaisedLedger ==
    ASSUME Protocol, Ledger, NEW t \in Threads, pc[t] \in Inside,
           Leave(t, "raised"), UNCHANGED <<journal, moves>>
    PROVE  Ledger'
<1> USE DEF Leave, Goto
<1>1. command[t] \in Commands /\ answer[command[t]] = "pending"
  BY DEF Protocol, Carrying, Inside
<1>2. Distinct' /\ WriteAhead' /\ OutcomeFollowsIntent'
  BY DEF Ledger, Distinct, WriteAhead, OutcomeFollowsIntent
<1>3. Unsettled'
  BY <1>1 DEF Ledger, Unsettled, Protocol, TypeOK
<1>4. Untold'
  BY <1>1 DEF Ledger, Untold, Protocol, TypeOK
<1>5. Newest'
  BY <1>1 DEF Ledger, Newest, Protocol, TypeOK, Issued
<1>6. AnswerOnDisk'
  BY <1>1 DEF Ledger, AnswerOnDisk, Protocol, TypeOK, APPLIED, REFUSED, FAILED
<1> QED
  BY <1>2, <1>3, <1>4, <1>5, <1>6 DEF Ledger

\* A stored outcome is the first of its command, is what its caller is told, and
\* comes right after the intent if there was one.
LEMMA OutcomeLedger ==
    ASSUME Protocol, Ledger, NEW t \in Threads, UNCHANGED moves,
           NEW status \in {APPLIED, REFUSED, FAILED},
           \/ pc[t] = "deciding" /\ status # APPLIED
           \/ pc[t] \in {"applied", "failed"},
           journal' = Store(journal, Row(t, status)), Leave(t, status)
    PROVE  Ledger'
<1> USE DEF Leave, Goto
<1> DEFINE c == command[t]
           n == Len(journal) + 1
<1>1. /\ c \in Commands /\ answer[c] = "pending" /\ gate = t
      /\ \A s \in Threads : s # t => pc[s] \notin Inside
      /\ \A s \in Threads : s # t /\ pc[s] # "idle" => command[s] # c
  BY DEF Protocol, Carrying, Gated, Inside
<1>2. /\ journal \in Seq(CommandRecord(Commands, Requested))
      /\ Row(t, status) \in CommandRecord(Commands, Requested)
  BY <1>1 DEF Protocol, TypeOK, Row, CommandRecord, CommandStatus
<1>3. RowKey(Row(t, status)) = <<c, FALSE>>
  BY DEF RowKey, Row, ISSUED, APPLIED, REFUSED, FAILED
<1>4. ~Holds(journal, <<c, FALSE>>)
  BY <1>1 DEF Ledger, Unsettled
<1>5. journal' = Append(journal, Row(t, status))
  BY <1>3, <1>4 DEF Store
<1>6. /\ DOMAIN journal' = DOMAIN journal \cup {n}
      /\ \A i \in DOMAIN journal : journal'[i] = journal[i] /\ i # n /\ i - 1 # n
      /\ journal'[n] = Row(t, status)
      /\ DOMAIN journal = 1..Len(journal) /\ Len(journal) \in Nat
  BY <1>2, <1>5
<1>7. \A key : Holds(journal', key) <=> Holds(journal, key) \/ key = <<c, FALSE>>
  BY <1>2, <1>3, StoreKeys
<1>8. Distinct'
  <2>1. \A i \in DOMAIN journal : RowKey(journal'[i]) # RowKey(journal'[n])
    BY <1>3, <1>4, <1>6 DEF Holds
  <2>2. \A i, k \in DOMAIN journal : RowKey(journal'[i]) = RowKey(journal'[k]) => i = k
    BY <1>6 DEF Ledger, Distinct
  <2> QED
    BY <2>1, <2>2, <1>6 DEF Distinct
<1>9. Unsettled'
  BY <1>1, <1>7 DEF Ledger, Unsettled, Protocol, TypeOK, APPLIED, REFUSED, FAILED
<1>10. Untold'
  BY <1>1, <1>7 DEF Ledger, Untold, Protocol, TypeOK, APPLIED, REFUSED, FAILED
<1>11. Newest'
  BY <1>1 DEF Newest, Issued, Inside, Protocol, TypeOK
<1>12. \A id, s : HasStatus(journal, id, s) => HasStatus(journal', id, s)
  BY <1>6 DEF HasStatus
<1>13. WriteAhead'
  BY <1>12 DEF Ledger, WriteAhead
<1>14. HasStatus(journal', c, status)
  BY <1>6 DEF HasStatus, Row
<1>15. AnswerOnDisk'
  BY <1>1, <1>12, <1>14 DEF Ledger, AnswerOnDisk, Protocol, TypeOK
<1>16. OutcomeFollowsIntent'
  <2>1. \A i \in DOMAIN journal : RowKey(journal[i]) # <<c, FALSE>>
    BY <1>4 DEF Holds
  <2>2. \A i \in DOMAIN journal :
           journal[i].command_id = c => journal[i].status = ISSUED
    BY <2>1 DEF RowKey
  <2>3. \A i \in DOMAIN journal : journal[i].command_id = c =>
            pc[t] \in Issued /\ i = Len(journal)
    <3> SUFFICES ASSUME NEW i \in DOMAIN journal, journal[i].command_id = c
                 PROVE  pc[t] \in Issued /\ i = Len(journal)
      OBVIOUS
    <3>1. RowKey(journal[i]) = <<c, TRUE>>
      BY <2>2 DEF RowKey
    <3>2. pc[t] \in Issued
      BY <3>1 DEF Holds, Ledger, Untold, Issued
    <3>3. Len(journal) > 0 /\ RowKey(journal[Len(journal)]) = <<c, TRUE>>
      BY <3>2 DEF Ledger, Newest
    <3>4. Len(journal) \in DOMAIN journal
      BY <1>6, <3>3
    <3> QED
      BY <3>1, <3>2, <3>3, <3>4 DEF Ledger, Distinct
  <2>4. status = APPLIED => n > 1 /\ RowKey(journal'[n - 1]) = <<c, TRUE>>
    <3> SUFFICES ASSUME status = APPLIED
                 PROVE  n > 1 /\ RowKey(journal'[n - 1]) = <<c, TRUE>>
      OBVIOUS
    <3>1. Len(journal) > 0 /\ RowKey(journal[Len(journal)]) = <<c, TRUE>>
      BY DEF Ledger, Newest, Issued
    <3>2. n - 1 = Len(journal) /\ n > 1 /\ Len(journal) \in DOMAIN journal
      BY <3>1, <1>6
    <3> QED
      BY <3>1, <3>2, <1>6
  <2>5. \A k \in DOMAIN journal : journal[k].status = APPLIED =>
            /\ k > 1
            /\ k - 1 \in DOMAIN journal
            /\ RowKey(journal[k - 1]) = <<journal[k].command_id, TRUE>>
    <3>1. \A k \in DOMAIN journal : journal[k].status = APPLIED =>
              k > 1 /\ RowKey(journal[k - 1]) = <<journal[k].command_id, TRUE>>
      BY DEF Ledger, OutcomeFollowsIntent
    <3>2. \A k \in DOMAIN journal : k > 1 => k - 1 \in DOMAIN journal
      BY <1>6
    <3> QED
      BY <3>1, <3>2
  <2>6. ASSUME NEW i \in DOMAIN journal', NEW k \in DOMAIN journal',
               journal'[i].status = ISSUED, journal'[k].status # ISSUED,
               journal'[i].command_id = journal'[k].command_id
        PROVE  k = i + 1
    <3>1. i \in DOMAIN journal
      BY <2>6, <1>6 DEF Row, ISSUED, APPLIED, REFUSED, FAILED
    <3>2. CASE k \in DOMAIN journal
      BY <2>6, <3>1, <3>2, <1>6 DEF Ledger, OutcomeFollowsIntent
    <3>3. CASE k = n
      BY <2>6, <3>1, <3>3, <1>6, <2>3 DEF Row
    <3> QED
      BY <3>2, <3>3, <1>6
  <2>7. ASSUME NEW k \in DOMAIN journal', journal'[k].status = APPLIED
        PROVE  k > 1 /\ RowKey(journal'[k - 1]) = <<journal'[k].command_id, TRUE>>
    <3>1. CASE k \in DOMAIN journal
      BY <2>7, <3>1, <2>5, <1>6
    <3>2. CASE k = n
      <4>1. journal'[k].command_id = c /\ journal'[k].status = status
        BY <3>2, <1>6 DEF Row
      <4> QED
        BY <2>7, <3>2, <4>1, <2>4
    <3> QED
      BY <3>1, <3>2, <1>6
  <2> QED
    BY <2>6, <2>7 DEF OutcomeFollowsIntent
<1> QED
  BY <1>8, <1>9, <1>10, <1>11, <1>13, <1>15, <1>16 DEF Ledger

\* A stored intent is the first row of its command.
LEMMA IntentLedger ==
    ASSUME Protocol, Ledger, NEW t \in Threads, pc[t] = "deciding",
           journal' = Store(journal, Row(t, ISSUED)), Goto(t, "writing"),
           UNCHANGED <<command, answer, moves>>
    PROVE  Ledger'
<1> USE DEF Goto
<1> DEFINE c == command[t]
           n == Len(journal) + 1
<1>1. /\ c \in Commands /\ answer[c] = "pending" /\ gate = t
      /\ \A s \in Threads : s # t => pc[s] \notin Inside
      /\ \A s \in Threads : s # t /\ pc[s] # "idle" => command[s] # c
  BY DEF Protocol, Carrying, Gated, Inside
<1>2. /\ journal \in Seq(CommandRecord(Commands, Requested))
      /\ Row(t, ISSUED) \in CommandRecord(Commands, Requested)
  BY <1>1 DEF Protocol, TypeOK, Row, CommandRecord, CommandStatus
<1>3. RowKey(Row(t, ISSUED)) = <<c, TRUE>>
  BY DEF RowKey, Row
<1>4. ~Holds(journal, <<c, TRUE>>) /\ ~Holds(journal, <<c, FALSE>>)
  BY <1>1 DEF Ledger, Unsettled, Untold
<1>5. journal' = Append(journal, Row(t, ISSUED))
  BY <1>3, <1>4 DEF Store
<1>6. /\ DOMAIN journal' = DOMAIN journal \cup {n}
      /\ \A i \in DOMAIN journal : journal'[i] = journal[i] /\ i # n /\ i - 1 # n
      /\ journal'[n] = Row(t, ISSUED)
      /\ DOMAIN journal = 1..Len(journal) /\ Len(journal) \in Nat
      /\ Len(journal') = n
  BY <1>2, <1>5
<1>7. \A key : Holds(journal', key) <=> Holds(journal, key) \/ key = <<c, TRUE>>
  BY <1>2, <1>3, StoreKeys
<1>8. Distinct'
  <2>1. \A i \in DOMAIN journal : RowKey(journal'[i]) # RowKey(journal'[n])
    BY <1>3, <1>4, <1>6 DEF Holds
  <2>2. \A i, k \in DOMAIN journal : RowKey(journal'[i]) = RowKey(journal'[k]) => i = k
    BY <1>6 DEF Ledger, Distinct
  <2> QED
    BY <2>1, <2>2, <1>6 DEF Distinct
<1>9. Unsettled'
  BY <1>7 DEF Ledger, Unsettled
<1>10. Untold'
  BY <1>1, <1>7 DEF Ledger, Untold, Protocol, TypeOK
<1>11. Newest'
  <2>1. Len(journal') > 0 /\ journal'[Len(journal')] = Row(t, ISSUED)
    BY <1>6
  <2>2. \A s \in Threads : pc'[s] \in Issued => s = t
    BY <1>1 DEF Issued, Inside, Protocol, TypeOK
  <2> QED
    BY <2>1, <2>2, <1>3 DEF Newest
<1>12. \A id, s : HasStatus(journal, id, s) => HasStatus(journal', id, s)
  BY <1>6 DEF HasStatus
<1>13. WriteAhead' /\ AnswerOnDisk'
  BY <1>12 DEF Ledger, WriteAhead, AnswerOnDisk
<1>14. OutcomeFollowsIntent'
  <2>1. ASSUME NEW i \in DOMAIN journal', NEW k \in DOMAIN journal',
               journal'[i].status = ISSUED, journal'[k].status # ISSUED,
               journal'[i].command_id = journal'[k].command_id
        PROVE  k = i + 1
    <3>1. k \in DOMAIN journal
      BY <2>1, <1>6 DEF Row
    <3>2. RowKey(journal[k]) # <<c, FALSE>>
      BY <3>1, <1>4 DEF Holds
    <3>3. journal[k].command_id # c
      BY <2>1, <3>1, <3>2, <1>6 DEF RowKey
    <3>4. i \in DOMAIN journal
      BY <2>1, <3>1, <3>3, <1>6 DEF Row
    <3> QED
      BY <2>1, <3>1, <3>4, <1>6 DEF Ledger, OutcomeFollowsIntent
  <2>2. ASSUME NEW k \in DOMAIN journal', journal'[k].status = APPLIED
        PROVE  k > 1 /\ RowKey(journal'[k - 1]) = <<journal'[k].command_id, TRUE>>
    <3>1. k \in DOMAIN journal
      BY <2>2, <1>6 DEF Row, ISSUED, APPLIED
    <3>2. k > 1 /\ RowKey(journal[k - 1]) = <<journal[k].command_id, TRUE>>
      BY <2>2, <3>1, <1>6 DEF Ledger, OutcomeFollowsIntent
    <3>3. k - 1 \in DOMAIN journal
      BY <3>1, <3>2, <1>6
    <3> QED
      BY <3>1, <3>2, <3>3, <1>6
  <2> QED
    BY <2>1, <2>2 DEF OutcomeFollowsIntent
<1> QED
  BY <1>8, <1>9, <1>10, <1>11, <1>13, <1>14 DEF Ledger

\* An empty journal is a ledger in order.
THEOREM LedgerInit == Init => Ledger
  BY DEF Init, Ledger, Distinct, Unsettled, Untold, Newest, Issued, WriteAhead,
         AnswerOnDisk, OutcomeFollowsIntent, Holds, APPLIED, REFUSED, FAILED

\* Every step keeps the ledger: an intent before its write, one outcome per command,
\* nobody told what is not on disk (ControlService._execute and _record).
THEOREM LedgerStep == Protocol /\ Ledger /\ [Next]_vars => Ledger'
<1> SUFFICES ASSUME Protocol, Ledger, [Next]_vars PROVE Ledger'
  OBVIOUS
<1>1. ASSUME NEW t \in Threads, NEW c \in Commands, Submit(t, c) PROVE Ledger'
  <2> USE <1>1 DEF Submit, Goto, history, Protocol, TypeOK, Ledger
  <2>1. Distinct' /\ WriteAhead' /\ OutcomeFollowsIntent'
    BY DEF Distinct, WriteAhead, OutcomeFollowsIntent
  <2>2. Unsettled' /\ Untold'
    BY DEF Unsettled, Untold
  <2>3. Newest'
    BY DEF Newest, Issued
  <2>4. AnswerOnDisk'
    BY DEF AnswerOnDisk, APPLIED, REFUSED, FAILED
  <2> QED
    BY <2>1, <2>2, <2>3, <2>4
<1>2. ASSUME NEW t \in Threads, Enter(t) PROVE Ledger'
  <2> USE <1>2 DEF Enter, Goto, history, Protocol, TypeOK, Ledger
  <2>1. Distinct' /\ WriteAhead' /\ OutcomeFollowsIntent' /\ AnswerOnDisk'
    BY DEF Distinct, WriteAhead, OutcomeFollowsIntent, AnswerOnDisk
  <2>2. Unsettled' /\ Untold'
    BY DEF Unsettled, Untold
  <2>3. Newest'
    BY DEF Newest, Issued
  <2> QED
    BY <2>1, <2>2, <2>3
<1>3. ASSUME NEW t \in Threads, NEW status \in {APPLIED, REFUSED, FAILED},
             Record(t, status), UNCHANGED moves,
             \/ pc[t] = "deciding" /\ status # APPLIED
             \/ pc[t] \in {"applied", "failed"}
      PROVE  Ledger'
  <2>1. pc[t] \in Inside
    BY <1>3 DEF Inside
  <2> QED
    BY <1>3, <2>1, OutcomeLedger, RaisedLedger DEF Record
<1>4. ASSUME NEW t \in Threads,
             RefuseUnpermitted(t) \/ FailUnwired(t) \/ RefuseTooSoon(t)
      PROVE  Ledger'
  BY <1>3, <1>4 DEF RefuseUnpermitted, FailUnwired, RefuseTooSoon, InGate, history,
                    APPLIED, REFUSED, FAILED
<1>5. ASSUME NEW t \in Threads, Issue(t) PROVE Ledger'
  <2>1. pc[t] = "deciding" /\ UNCHANGED moves
    BY <1>5 DEF Issue, InGate
  <2>2. CASE journal' = Store(journal, Row(t, ISSUED)) /\ Goto(t, "writing")
             /\ UNCHANGED <<gate, command, now, answer>>
    BY <2>1, <2>2, IntentLedger
  <2>3. CASE Leave(t, "raised") /\ UNCHANGED journal
    BY <2>1, <2>3, RaisedLedger DEF Inside
  <2> QED
    BY <1>5, <2>2, <2>3 DEF Issue
<1>6. ASSUME NEW t \in Threads, WriteAcknowledged(t) \/ WriteFailed(t) PROVE Ledger'
  <2> USE <1>6 DEF WriteAcknowledged, WriteFailed, Goto, InGate
  <2>1. Distinct' /\ Unsettled' /\ OutcomeFollowsIntent' /\ AnswerOnDisk'
    BY DEF Ledger, Distinct, Unsettled, OutcomeFollowsIntent, AnswerOnDisk
  <2>2. Untold'
    BY DEF Ledger, Untold, Protocol, TypeOK
  <2>3. Newest'
    BY DEF Ledger, Newest, Issued, Protocol, TypeOK
  <2>4. WriteAhead'
    <3>1. HasStatus(journal, command[t], ISSUED)
      <4>1. /\ Len(journal) > 0
            /\ RowKey(journal[Len(journal)]) = <<command[t], TRUE>>
        BY DEF Ledger, Newest, Issued
      <4>2. Len(journal) \in DOMAIN journal
        BY <4>1 DEF Protocol, TypeOK
      <4> QED
        BY <4>1, <4>2 DEF HasStatus, RowKey
    <3> DEFINE Moved == [command_id: Commands, at: Nat]
               moved == [command_id |-> command[t], at |-> wall]
    <3>2. \A i \in DOMAIN moves' :
              \/ moves'[i].command_id = command[t]
              \/ i \in DOMAIN moves /\ moves'[i] = moves[i]
      <4>1. moves \in Seq(Moved)
        BY DEF Protocol, TypeOK
      <4>2. CASE moves' = moves
        BY <4>2
      <4>3. CASE moves' = Append(moves, moved)
        <5>1. \A i \in DOMAIN moves' : (i \in DOMAIN moves /\ moves'[i] = moves[i])
                                          \/ moves'[i] = moved
          <6> HIDE DEF Moved, moved
          <6> QED
            BY <4>1, <4>3
        <5>2. moved.command_id = command[t]
          OBVIOUS
        <5> HIDE DEF moved
        <5> QED
          BY <5>1, <5>2
      <4> QED
        BY <4>2, <4>3 DEF Move
    <3> QED
      BY <3>1, <3>2 DEF Ledger, WriteAhead
  <2> QED
    BY <2>1, <2>2, <2>3, <2>4 DEF Ledger
<1>7. ASSUME NEW t \in Threads, WriteEscapes(t) PROVE Ledger'
  BY <1>7, RaisedLedger DEF WriteEscapes, InGate, Inside, history
<1>8. ASSUME NEW t \in Threads, RecordApplied(t) \/ RecordFailed(t) PROVE Ledger'
  BY <1>3, <1>8 DEF RecordApplied, RecordFailed, InGate, history
<1>9. CASE Crash
  <2> USE <1>9 DEF Crash, history, Protocol, TypeOK, Ledger
  <2>1. Distinct' /\ WriteAhead' /\ OutcomeFollowsIntent'
    BY DEF Distinct, WriteAhead, OutcomeFollowsIntent
  <2>2. Unsettled' /\ Untold' /\ Newest'
    BY DEF Unsettled, Untold, Newest, Issued
  <2>3. AnswerOnDisk'
    BY DEF AnswerOnDisk, APPLIED, REFUSED, FAILED
  <2> QED
    BY <2>1, <2>2, <2>3
<1>10. CASE Boot \/ Tick \/ SetClock \/ UNCHANGED vars
  <2> USE <1>10 DEF Boot, Tick, SetClock, vars, memory, history, Ledger
  <2>1. Distinct' /\ WriteAhead' /\ OutcomeFollowsIntent' /\ AnswerOnDisk'
    BY DEF Distinct, WriteAhead, OutcomeFollowsIntent, AnswerOnDisk
  <2>2. Unsettled' /\ Untold' /\ Newest'
    BY DEF Unsettled, Untold, Newest
  <2> QED
    BY <2>1, <2>2
<1> QED
  BY <1>1, <1>2, <1>4, <1>5, <1>6, <1>7, <1>8, <1>9, <1>10 DEF Next, Proceed

\* The ledger of intents and outcomes is in order in every reachable state.
THEOREM Ledgers == Spec => []Ledger
  BY LedgerInit, LedgerStep, Protocols, PTL DEF Spec

\* Whatever crashes and whatever fails, every coil write the device obeyed has its
\* intent on disk.
THEOREM WriteAheadAlways == Spec => []WriteAhead
<1>1. Ledger => WriteAhead
  BY DEF Ledger
<1> QED
  BY <1>1, Ledgers, PTL

\* A caller is told nothing that the journal does not hold.
THEOREM AnswersAreOnDisk == Spec => []AnswerOnDisk
<1>1. Ledger => AnswerOnDisk
  BY DEF Ledger
<1> QED
  BY <1>1, Ledgers, PTL

\* Intent and outcome of a command are neighbours in the journal.
THEOREM TrailReadsInPairs == Spec => []OutcomeFollowsIntent
<1>1. Ledger => OutcomeFollowsIntent
  BY DEF Ledger
<1> QED
  BY <1>1, Ledgers, PTL

-----------------------------------------------------------------------------
(* The interval is kept. *)

\* A store adds to the applied rows of a relay at most the record itself.
LEMMA StoreApplied ==
    ASSUME NEW j \in Seq(CommandRecord(Commands, Requested)),
           NEW r \in CommandRecord(Commands, Requested), NEW g
    PROVE  \A i \in AppliedRows(Store(j, r), g) :
              \/ i \in AppliedRows(j, g) /\ i <= Len(j) /\ Store(j, r)[i] = j[i]
              \/ /\ i = Len(j) + 1
                 /\ Store(j, r)[i] = r
                 /\ r.status = APPLIED
                 /\ r.target_id = g
<1>1. \A i \in DOMAIN j : i <= Len(j)
  OBVIOUS
<1> QED
  BY <1>1, StoreRows DEF AppliedRows

\* The rows of a journal hold times.
LEMMA RowTime ==
    ASSUME Protocol, NEW g, NEW i \in AppliedRows(journal, g)
    PROVE  journal[i].decided_at \in Nat /\ i \in Nat
<1>1. i \in DOMAIN journal /\ journal \in Seq(CommandRecord(Commands, Requested))
  BY DEF AppliedRows, Protocol, TypeOK
<1>2. journal[i] \in CommandRecord(Commands, Requested) /\ i \in Nat
  BY <1>1
<1> QED
  BY <1>2 DEF CommandRecord

\* The latest applied row of a relay is the latest decision too.
LEMMA LatestDecision ==
    ASSUME Protocol, AppliedSpaced, NEW g \in Targets \ unanswered,
           AppliedRows(journal, g) # {}
    PROVE  /\ LastAppliedAt(journal, g) \in Nat
           /\ \A i \in AppliedRows(journal, g) :
                 journal[i].decided_at <= LastAppliedAt(journal, g)
<1> DEFINE m == Latest(AppliedRows(journal, g))
<1>1. m \in AppliedRows(journal, g) /\ \A k \in AppliedRows(journal, g) : k <= m
  BY LatestRow
<1>2. LastAppliedAt(journal, g) = journal[m].decided_at
  BY DEF LastAppliedAt
<1>3. journal[m].decided_at \in Nat /\ m \in Nat
  BY <1>1, RowTime
<1>4. ASSUME NEW i \in AppliedRows(journal, g)
      PROVE  journal[i].decided_at <= journal[m].decided_at
  <2>1. journal[i].decided_at \in Nat /\ i \in Nat /\ i <= m
    BY <1>1, RowTime
  <2>2. CASE i = m
    BY <2>1, <2>2
  <2>3. CASE i < m
    <3>1. journal[m].decided_at - journal[i].decided_at >= MinimumInterval[g]
      BY <1>1, <2>3 DEF AppliedSpaced
    <3>2. MinimumInterval[g] \in Nat
      BY GuardAssumption DEF GuardAssumption
    <3> QED
      BY <1>3, <2>1, <3>1, <3>2
  <2> QED
    BY <1>3, <2>1, <2>2, <2>3
<1> QED
  BY <1>2, <1>3, <1>4

\* What _remember leaves in the cache is current, and a command it lets pass is
\* rested with respect to every operation on record.
LEMMA RecalledSpacing ==
    ASSUME Protocol, Spacing, NEW g \in Targets, NEW readable \in BOOLEAN,
           Recall(g, readable)
    PROVE  /\ \A h \in Targets \ unanswered' : cache'[h] # Never =>
                 \A i \in AppliedRows(journal, h) : journal[i].decided_at <= cache'[h]
           /\ unanswered \subseteq unanswered'
           /\ \A at \in Nat :
                 ~RateLimited(g, at, Remembered(g, readable)) /\ g \notin unanswered' =>
                    \A i \in AppliedRows(journal, g) :
                        at - journal[i].decided_at >= MinimumInterval[g]
<1>1. /\ cache' = [cache EXCEPT ![g] = Remembered(g, readable)]
      /\ cache \in [Targets -> Nat \cup {Never}]
      /\ unanswered \subseteq unanswered'
      /\ cache[g] = Never /\ ~readable => g \in unanswered'
  BY DEF Recall, Protocol, TypeOK
<1>2. ASSUME g \notin unanswered', NEW i \in AppliedRows(journal, g)
      PROVE  /\ Remembered(g, readable) \in Nat
             /\ journal[i].decided_at <= Remembered(g, readable)
  <2>1. g \in Targets \ unanswered
    BY <1>1, <1>2
  <2>2. CASE cache[g] # Never
    <3>1. cache[g] \in Nat /\ Remembered(g, readable) = cache[g]
      BY <1>1, <2>2 DEF Remembered
    <3> QED
      BY <1>2, <2>1, <2>2, <3>1 DEF Spacing, CacheCurrent
  <2>3. CASE cache[g] = Never
    <3>1. Remembered(g, readable) = LastAppliedAt(journal, g)
      BY <1>1, <1>2, <2>3 DEF Remembered
    <3> QED
      BY <1>2, <2>1, <3>1, LatestDecision DEF Spacing
  <2> QED
    BY <2>2, <2>3
<1>3. ASSUME NEW h \in Targets \ unanswered', cache'[h] # Never,
             NEW i \in AppliedRows(journal, h)
      PROVE  journal[i].decided_at <= cache'[h]
  <2>1. CASE h = g
    BY <1>1, <1>2, <1>3, <2>1
  <2>2. CASE h # g
    BY <1>1, <1>3, <2>2 DEF Spacing, CacheCurrent
  <2> QED
    BY <2>1, <2>2
<1>4. ASSUME NEW at \in Nat, ~RateLimited(g, at, Remembered(g, readable)),
             g \notin unanswered', NEW i \in AppliedRows(journal, g)
      PROVE  at - journal[i].decided_at >= MinimumInterval[g]
  <2>1. /\ Remembered(g, readable) \in Nat
        /\ journal[i].decided_at <= Remembered(g, readable)
    BY <1>2, <1>4
  <2>2. at - Remembered(g, readable) >= MinimumInterval[g]
    <3>1. Remembered(g, readable) # Never
      BY <2>1 DEF Never
    <3>2. MinimumInterval[g] \in Nat
      BY GuardAssumption DEF GuardAssumption
    <3> QED
      BY <1>4, <2>1, <3>1, <3>2 DEF RateLimited
  <2>3. MinimumInterval[g] \in Nat /\ journal[i].decided_at \in Nat
    BY GuardAssumption, RowTime DEF GuardAssumption
  <2> QED
    BY <2>1, <2>2, <2>3
<1> QED
  BY <1>1, <1>3, <1>4

\* A row that is not an applied one leaves the applied ones as they are.
LEMMA PlainRowSpacing ==
    ASSUME Protocol, NEW r \in CommandRecord(Commands, Requested),
           r.status # APPLIED, journal' \in {journal, Store(journal, r)}, NEW g
    PROVE  \A i \in AppliedRows(journal', g) :
              i \in AppliedRows(journal, g) /\ journal'[i] = journal[i]
<1>1. journal \in Seq(CommandRecord(Commands, Requested))
  BY DEF Protocol, TypeOK
<1> QED
  BY <1>1, StoreApplied

\* Nothing has been applied yet, so nothing is too close.
THEOREM SpacingInit == Init => Spacing
  BY DEF Init, Spacing, CacheCurrent, Rested, AppliedSpaced, AppliedRows

\* Every step keeps applied decisions apart, and the memory of _remember in line
\* with the journal it was read from.
THEOREM SpacingStep == Protocol /\ Spacing /\ [Next]_vars => Spacing'
<1> SUFFICES ASSUME Protocol, Spacing, [Next]_vars PROVE Spacing'
  OBVIOUS
<1>1. ASSUME UNCHANGED <<journal, cache, unanswered, aim>>,
             \A t \in Threads : pc'[t] \in {"writing", "applied"} =>
                 /\ pc[t] \in {"writing", "applied"}
                 /\ command'[t] = command[t]
                 /\ now'[t] = now[t]
      PROVE  Spacing'
  BY <1>1 DEF Spacing, CacheCurrent, Rested, AppliedSpaced
<1>2. ASSUME NEW t \in Threads, pc[t] \in Inside,
             NEW said \in {APPLIED, REFUSED, FAILED, "raised"}, Leave(t, said)
      PROVE  \A s \in Threads : pc'[s] \notin {"writing", "applied"}
  BY <1>2 DEF Leave, Goto, Inside, Protocol, TypeOK, Gated
<1>3. ASSUME NEW t \in Threads, NEW c \in Commands, Submit(t, c) PROVE Spacing'
  BY <1>1, <1>3 DEF Submit, Goto, history, Protocol, TypeOK
<1>4. ASSUME NEW t \in Threads, Enter(t) PROVE Spacing'
  BY <1>1, <1>4 DEF Enter, Goto, history, Protocol, TypeOK
<1>5. ASSUME NEW t \in Threads, pc[t] \in Inside, NEW status \in {REFUSED, FAILED},
             Record(t, status), UNCHANGED <<aim, cache, unanswered>>
      PROVE  Spacing'
  <2>1. /\ Row(t, status) \in CommandRecord(Commands, Requested)
        /\ Row(t, status).status # APPLIED
        /\ journal' \in {journal, Store(journal, Row(t, status))}
        /\ \A s \in Threads : pc'[s] \notin {"writing", "applied"}
    BY <1>2, <1>5, RecordStep DEF Row, APPLIED, REFUSED, FAILED
  <2>2. \A g : \A i \in AppliedRows(journal', g) :
            i \in AppliedRows(journal, g) /\ journal'[i] = journal[i]
    BY <2>1, PlainRowSpacing
  <2> QED
    BY <1>5, <2>1, <2>2 DEF Spacing, CacheCurrent, Rested, AppliedSpaced
<1>6. ASSUME NEW t \in Threads, RefuseUnpermitted(t) \/ FailUnwired(t) \/ RecordFailed(t)
      PROVE  Spacing'
  BY <1>5, <1>6
     DEF RefuseUnpermitted, FailUnwired, RecordFailed, InGate, Inside, history
<1>7. ASSUME NEW t \in Threads, RefuseTooSoon(t) PROVE Spacing'
  <2> DEFINE g == aim[command[t]]
  <2>1. /\ pc[t] \in Inside /\ g \in Targets /\ Record(t, REFUSED) /\ UNCHANGED aim
        /\ \E readable \in BOOLEAN : Recall(g, readable)
    BY <1>7 DEF RefuseTooSoon, InGate, Inside, Permitted
  <2>2. /\ Row(t, REFUSED) \in CommandRecord(Commands, Requested)
        /\ Row(t, REFUSED).status # APPLIED
        /\ journal' \in {journal, Store(journal, Row(t, REFUSED))}
        /\ \A s \in Threads : pc'[s] \notin {"writing", "applied"}
    BY <1>2, <2>1, RecordStep DEF Row, APPLIED, REFUSED, FAILED
  <2>3. \A h : \A i \in AppliedRows(journal', h) :
            i \in AppliedRows(journal, h) /\ journal'[i] = journal[i]
    BY <2>2, PlainRowSpacing
  <2>4. /\ unanswered \subseteq unanswered'
        /\ \A h \in Targets \ unanswered' : cache'[h] # Never =>
              \A i \in AppliedRows(journal, h) : journal[i].decided_at <= cache'[h]
    BY <2>1, RecalledSpacing
  <2>5. CacheCurrent'
    BY <2>3, <2>4 DEF CacheCurrent
  <2> QED
    BY <2>2, <2>3, <2>4, <2>5 DEF Spacing, Rested, AppliedSpaced
<1>8. ASSUME NEW t \in Threads, Issue(t) PROVE Spacing'
  <2> DEFINE g == aim[command[t]]
  <2>1. /\ pc[t] = "deciding" /\ g \in Targets /\ UNCHANGED aim
        /\ command[t] \in Commands /\ now[t] \in Nat
        /\ \A s \in Threads : s # t => pc[s] \notin Inside
    BY <1>8 DEF Issue, InGate, Permitted, Protocol, TypeOK, Carrying, Gated, Inside
  <2>2. PICK readable \in BOOLEAN : /\ Recall(g, readable)
                                    /\ ~RateLimited(g, now[t], Remembered(g, readable))
    BY <1>8 DEF Issue
  <2>3. /\ unanswered \subseteq unanswered'
        /\ \A h \in Targets \ unanswered' : cache'[h] # Never =>
              \A i \in AppliedRows(journal, h) : journal[i].decided_at <= cache'[h]
        /\ g \notin unanswered' => \A i \in AppliedRows(journal, g) :
              now[t] - journal[i].decided_at >= MinimumInterval[g]
    BY <2>1, <2>2, RecalledSpacing
  <2>4. /\ Row(t, ISSUED) \in CommandRecord(Commands, Requested)
        /\ Row(t, ISSUED).status # APPLIED
        /\ journal' \in {journal, Store(journal, Row(t, ISSUED))}
    BY <1>8, <2>1 DEF Issue, Row, CommandRecord, CommandStatus, Protocol, TypeOK,
                      ISSUED, APPLIED
  <2>5. \A h : \A i \in AppliedRows(journal', h) :
            i \in AppliedRows(journal, h) /\ journal'[i] = journal[i]
    BY <2>4, PlainRowSpacing
  <2>6. CacheCurrent' /\ AppliedSpaced'
    BY <2>3, <2>5 DEF Spacing, CacheCurrent, AppliedSpaced
  <2>7. Rested'
    <3>1. \A s \in Threads : pc'[s] \in {"writing", "applied"} =>
              s = t /\ command'[s] = command[t] /\ now'[s] = now[t]
      <4>1. CASE Goto(t, "writing") /\ UNCHANGED <<gate, command, now, answer>>
        BY <2>1, <4>1 DEF Goto, Inside, Protocol, TypeOK
      <4>2. CASE Leave(t, "raised")
        BY <1>2, <2>1, <4>2 DEF Inside
      <4> QED
        BY <1>8, <4>1, <4>2 DEF Issue
    <3> QED
      BY <2>1, <2>3, <2>5, <3>1 DEF Rested
  <2> QED
    BY <2>6, <2>7 DEF Spacing
<1>9. ASSUME NEW t \in Threads, WriteAcknowledged(t) \/ WriteFailed(t) PROVE Spacing'
  BY <1>1, <1>9 DEF WriteAcknowledged, WriteFailed, InGate, Goto, Protocol, TypeOK
<1>10. ASSUME NEW t \in Threads, WriteEscapes(t) PROVE Spacing'
  BY <1>1, <1>2, <1>10 DEF WriteEscapes, InGate, Inside, history
<1>11. ASSUME NEW t \in Threads, RecordApplied(t) PROVE Spacing'
  <2> DEFINE g == aim[command[t]]
             r == Row(t, APPLIED)
             n == Len(journal) + 1
  <2>1. /\ pc[t] = "applied" /\ Record(t, APPLIED) /\ UNCHANGED <<aim, unanswered>>
        /\ cache' = [cache EXCEPT ![g] = now[t]]
        /\ g \in Targets /\ now[t] \in Nat
    BY <1>11 DEF RecordApplied, InGate, history, Protocol, TypeOK, Aimed, Issued
  <2>2. /\ r \in CommandRecord(Commands, Requested)
        /\ journal' \in {journal, Store(journal, r)}
        /\ \A s \in Threads : pc'[s] \notin {"writing", "applied"}
    BY <1>2, <2>1, RecordStep DEF Inside
  <2>3. \A h : \A i \in AppliedRows(journal', h) :
            \/ i \in AppliedRows(journal, h) /\ journal'[i] = journal[i]
            \/ h = g /\ i = n /\ journal'[i] = r
    <3>1. journal \in Seq(CommandRecord(Commands, Requested))
      BY DEF Protocol, TypeOK
    <3>2. r.target_id = g
      BY DEF Row
    <3> HIDE DEF r, g
    <3> QED
      BY <2>2, <3>1, <3>2, StoreApplied
  <2>4. g \notin unanswered => \A i \in AppliedRows(journal, g) :
            now[t] - journal[i].decided_at >= MinimumInterval[g]
    BY <2>1 DEF Spacing, Rested
  <2>5. MinimumInterval[g] \in Nat /\ r.decided_at = now[t]
    BY <2>1, GuardAssumption DEF GuardAssumption, Row
  <2>6. \A h : \A i \in AppliedRows(journal, h) :
            /\ i \in Nat /\ i < n
            /\ journal[i].decided_at \in Nat
    <3>1. \A i \in DOMAIN journal : i < n
      BY DEF Protocol, TypeOK
    <3> QED
      BY <3>1, RowTime DEF AppliedRows
  <2> HIDE DEF r, g, n
  <2>7. CacheCurrent'
    <3> SUFFICES ASSUME NEW h \in Targets \ unanswered, cache'[h] # Never,
                        NEW i \in AppliedRows(journal', h)
                 PROVE  journal'[i].decided_at <= cache'[h]
      BY <2>1 DEF CacheCurrent
    <3>1. CASE h = g
      <4>1. cache'[h] = now[t]
        BY <2>1, <3>1 DEF Protocol, TypeOK
      <4>2. CASE i \in AppliedRows(journal, h) /\ journal'[i] = journal[i]
        <5>1. now[t] - journal[i].decided_at >= MinimumInterval[g]
          BY <2>4, <3>1, <4>2
        <5> QED
          BY <2>1, <2>5, <2>6, <4>1, <4>2, <5>1
      <4> QED
        BY <2>1, <2>3, <2>5, <4>1, <4>2
    <3>2. CASE h # g
      <4>1. cache'[h] = cache[h] /\ i \in AppliedRows(journal, h)
            /\ journal'[i] = journal[i]
        BY <2>1, <2>3, <3>2 DEF Protocol, TypeOK
      <4> QED
        BY <4>1 DEF Spacing, CacheCurrent
    <3> QED
      BY <3>1, <3>2
  <2>8. AppliedSpaced'
    <3> SUFFICES ASSUME NEW h \in Targets \ unanswered,
                        NEW i \in AppliedRows(journal', h),
                        NEW k \in AppliedRows(journal', h), i < k
                 PROVE  journal'[k].decided_at - journal'[i].decided_at
                           >= MinimumInterval[h]
      BY <2>1 DEF AppliedSpaced
    <3>1. i \in AppliedRows(journal, h) /\ journal'[i] = journal[i]
      <4>1. i = n => k \in AppliedRows(journal, h) \/ k = n
        BY <2>3
      <4>2. n \in Nat
        BY DEF n, Protocol, TypeOK
      <4> QED
        BY <2>3, <2>6, <4>1, <4>2
    <3>2. CASE k \in AppliedRows(journal, h) /\ journal'[k] = journal[k]
      BY <3>1, <3>2 DEF Spacing, AppliedSpaced
    <3>3. CASE h = g /\ k = n /\ journal'[k] = r
      BY <2>4, <2>5, <3>1, <3>3
    <3> QED
      BY <2>3, <3>2, <3>3
  <2> QED
    BY <2>2, <2>7, <2>8 DEF Spacing, Rested
<1>12. CASE Crash
  BY <1>12 DEF Crash, history, Spacing, CacheCurrent, Rested, AppliedSpaced
<1>13. CASE Boot \/ Tick \/ SetClock \/ UNCHANGED vars
  BY <1>1, <1>13 DEF Boot, Tick, SetClock, vars, memory, history
<1> QED
  BY <1>3, <1>4, <1>6, <1>7, <1>8, <1>9, <1>10, <1>11, <1>12, <1>13 DEF Next, Proceed

\* The spacing of applied decisions, with the memory it rests on, is invariant.
THEOREM Spacings == Spec => []Spacing
  BY SpacingInit, SpacingStep, Protocols, PTL DEF Spec

\* Decisions recorded as applied to a relay lie its interval apart, for any number of
\* threads and restarts, any intervals, and a clock that is set at will.
THEOREM AppliedSpacedAlways == Spec => []AppliedSpaced
<1>1. Spacing => AppliedSpaced
  BY DEF Spacing
<1> QED
  BY <1>1, Spacings, PTL

-----------------------------------------------------------------------------
(* An operation on record protects its relay. *)

\* Where the journal grows, it grows by one row of the thread in the gate.
LEMMA OneRow ==
    ASSUME Protocol, NEW t \in Threads, command[t] \in Commands, NEW status \in CommandStatus,
           journal' \in {journal, Store(journal, Row(t, status))}
    PROVE  \A n \in DOMAIN journal' :
              \/ n \in DOMAIN journal /\ journal'[n] = journal[n]
              \/ journal'[n] = Row(t, status)
<1>1. /\ journal \in Seq(CommandRecord(Commands, Requested))
      /\ Row(t, status) \in CommandRecord(Commands, Requested)
  BY DEF Protocol, TypeOK, Row, CommandRecord
<1> QED
  BY <1>1, StoreRows

\* A step that moves nothing keeps Motion when its row is not an applied one, or is
\* that of the thread that moved last.
LEMMA StillMotion ==
    ASSUME Protocol, Motion, NEW t \in Threads, pc[t] \in Inside,
           NEW status \in CommandStatus,
           journal' \in {journal, Store(journal, Row(t, status))},
           status = APPLIED => pc[t] = "applied",
           UNCHANGED <<aim, moves, stepped, wall>>, unanswered \subseteq unanswered',
           \A s \in Threads : s # t => UNCHANGED <<pc[s], command[s], now[s]>>,
           \/ pc'[t] = "idle"
           \/ /\ pc'[t] = "writing" /\ UNCHANGED <<command[t], now[t]>>
              /\ \A i \in DOMAIN moves : moves[i].command_id # command[t]
    PROVE  Motion'
<1>1. command[t] \in Commands
  BY DEF Protocol, Carrying, Inside
<1>2. \A n \in DOMAIN journal' :
         \/ n \in DOMAIN journal /\ journal'[n] = journal[n]
         \/ journal'[n] = Row(t, status)
  BY <1>1, OneRow
<1>3. RowAim'
  BY <1>2 DEF Motion, RowAim, Row
<1>4. Timely'
  BY DEF Motion, Timely, Inside
<1>5. LastMove'
  <2> SUFFICES ASSUME NEW s \in Threads, NEW i \in DOMAIN moves,
                      moves[i].command_id = command'[s]
               PROVE  /\ pc'[s] \notin {"writing"}
                      /\ pc'[s] = "applied" => i = Len(moves)
    BY DEF LastMove
  <2>1. CASE s = t
    BY <2>1
  <2>2. CASE s # t
    BY <2>2 DEF Motion, LastMove
  <2> QED
    BY <2>1, <2>2
<1>6. RecordedMoveRests'
  <2> SUFFICES ASSUME ~stepped, NEW i \in DOMAIN moves, NEW k \in DOMAIN moves, i < k,
                      NEW n \in DOMAIN journal',
                      aim[moves[k].command_id] = aim[moves[i].command_id],
                      aim[moves[i].command_id] \notin unanswered',
                      journal'[n].command_id = moves[i].command_id,
                      journal'[n].status = APPLIED
               PROVE  moves[k].at - journal'[n].decided_at
                         >= MinimumInterval[aim[moves[i].command_id]]
    BY DEF RecordedMoveRests
  <2>1. CASE n \in DOMAIN journal /\ journal'[n] = journal[n]
    BY <2>1 DEF Motion, RecordedMoveRests
  <2>2. CASE journal'[n] = Row(t, status)
    <3>1. moves[i].command_id = command[t] /\ pc[t] = "applied"
      BY <2>2 DEF Row
    <3>2. i = Len(moves)
      BY <3>1 DEF Motion, LastMove
    <3>3. k <= Len(moves) /\ i \in Nat /\ k \in Nat
      BY DEF Protocol, TypeOK
    <3> QED
      BY <3>2, <3>3
  <2> QED
    BY <2>1, <2>2, <1>2
<1> QED
  BY <1>3, <1>4, <1>5, <1>6 DEF Motion

\* Leaving the gate is such a step.
LEMMA LeaveMotion ==
    ASSUME Protocol, Motion, NEW t \in Threads, pc[t] \in Inside,
           NEW status \in CommandStatus,
           journal' \in {journal, Store(journal, Row(t, status))},
           status = APPLIED => pc[t] = "applied",
           UNCHANGED <<aim, moves, stepped, wall>>, unanswered \subseteq unanswered',
           NEW said, Leave(t, said)
    PROVE  Motion'
<1>1. /\ \A s \in Threads : s # t => UNCHANGED <<pc[s], command[s], now[s]>>
      /\ pc'[t] = "idle"
  BY DEF Leave, Goto, Protocol, TypeOK
<1> QED
  BY <1>1, StillMotion

\* No coil has been written yet.
THEOREM MotionInit == Init => Motion
  BY DEF Init, Motion, RowAim, Timely, LastMove, RecordedMoveRests, Inside

\* While the clock only ticks, every step keeps the relation between the coil writes
\* the device obeyed and the decisions on record for them.
THEOREM MotionStep == Protocol /\ Ledger /\ Spacing /\ Motion /\ [Next]_vars => Motion'
<1> SUFFICES ASSUME Protocol, Ledger, Spacing, Motion, [Next]_vars PROVE Motion'
  OBVIOUS
<1>1. ASSUME UNCHANGED <<journal, moves, aim, unanswered, stepped, wall>>,
             \A s \in Threads :
                 \/ UNCHANGED <<pc[s], command[s], now[s]>>
                 \/ pc'[s] \notin {"writing", "applied"} /\ now'[s] <= wall
      PROVE  Motion'
  BY <1>1 DEF Motion, RowAim, Timely, LastMove, RecordedMoveRests, Inside
<1>2. ASSUME NEW t \in Threads, NEW c \in Commands, Submit(t, c) PROVE Motion'
  <2> USE <1>2 DEF Submit, Goto, history, Protocol, TypeOK, Motion
  <2>1. RowAim' /\ RecordedMoveRests'
    BY DEF RowAim, RecordedMoveRests
  <2>2. Timely' /\ LastMove'
    BY DEF Timely, LastMove, Inside
  <2> QED
    BY <2>1, <2>2
<1>3. ASSUME NEW t \in Threads, Enter(t) PROVE Motion'
  <2>1. /\ UNCHANGED <<journal, moves, aim, unanswered, stepped, wall>>
        /\ \A s \in Threads : \/ UNCHANGED <<pc[s], command[s], now[s]>>
                              \/ pc'[s] = "deciding" /\ now'[s] = wall
    BY <1>3 DEF Enter, Goto, history, Protocol, TypeOK
  <2>2. wall \in Nat
    BY GuardAssumption DEF GuardAssumption, Protocol, TypeOK
  <2> QED
    BY <1>1, <2>1, <2>2
<1>4. ASSUME NEW t \in Threads, pc[t] \in Inside, NEW status \in {APPLIED, REFUSED, FAILED},
             status = APPLIED => pc[t] = "applied",
             Record(t, status), UNCHANGED <<aim, moves, stepped, wall>>,
             unanswered \subseteq unanswered'
      PROVE  Motion'
  BY <1>4, LeaveMotion DEF Record, CommandStatus
<1>5. ASSUME NEW t \in Threads,
             \/ RefuseUnpermitted(t) \/ FailUnwired(t)
             \/ RecordApplied(t) \/ RecordFailed(t)
      PROVE  Motion'
  BY <1>4, <1>5 DEF RefuseUnpermitted, FailUnwired, RecordApplied, RecordFailed,
                    InGate, Inside, history, APPLIED, REFUSED, FAILED
<1>6. ASSUME NEW t \in Threads, RefuseTooSoon(t) PROVE Motion'
  <2>1. /\ pc[t] \in Inside /\ Record(t, REFUSED)
        /\ UNCHANGED <<aim, moves, stepped, wall>>
        /\ unanswered \subseteq unanswered'
    BY <1>6 DEF RefuseTooSoon, InGate, Inside, Recall
  <2> QED
    BY <1>4, <2>1 DEF APPLIED, REFUSED
<1>7. ASSUME NEW t \in Threads, Issue(t) PROVE Motion'
  <2>1. /\ pc[t] = "deciding" /\ command[t] \in Commands
        /\ UNCHANGED <<aim, moves, stepped, wall>>
        /\ unanswered \subseteq unanswered'
        /\ journal' \in {journal, Store(journal, Row(t, ISSUED))}
    BY <1>7 DEF Issue, InGate, Recall, Protocol, Carrying
  <2>2. CASE Goto(t, "writing") /\ UNCHANGED <<gate, command, now, answer>>
    <3>1. \A i \in DOMAIN moves : moves[i].command_id # command[t]
      <4>1. ~Holds(journal, <<command[t], TRUE>>)
        BY <2>1 DEF Ledger, Untold
      <4>2. ~HasStatus(journal, command[t], ISSUED)
        BY <4>1 DEF Holds, HasStatus, RowKey
      <4> QED
        BY <4>2 DEF Ledger, WriteAhead
    <3>2. /\ \A s \in Threads : s # t => UNCHANGED <<pc[s], command[s], now[s]>>
          /\ pc'[t] = "writing" /\ UNCHANGED <<command[t], now[t]>>
      BY <2>2 DEF Goto, Protocol, TypeOK
    <3>3. pc[t] \in Inside /\ ISSUED \in CommandStatus /\ ISSUED # APPLIED
      BY <2>1 DEF Inside, CommandStatus, ISSUED, APPLIED
    <3> QED
      BY <2>1, <3>1, <3>2, <3>3, StillMotion
  <2>3. CASE Leave(t, "raised")
    <3>1. pc[t] \in Inside /\ ISSUED \in CommandStatus /\ ISSUED # APPLIED
      BY <2>1 DEF Inside, CommandStatus, ISSUED, APPLIED
    <3> QED
      BY <2>1, <2>3, <3>1, LeaveMotion
  <2> QED
    BY <1>7, <2>2, <2>3 DEF Issue
<1>8. ASSUME NEW t \in Threads, WriteAcknowledged(t) \/ WriteFailed(t) PROVE Motion'
  <2> DEFINE Moved == [command_id: Commands, at: Nat]
             moved == [command_id |-> command[t], at |-> wall]
             g == aim[command[t]]
  <2>1. /\ pc[t] = "writing"
        /\ pc' \in {[pc EXCEPT ![t] = "applied"], [pc EXCEPT ![t] = "failed"]}
        /\ UNCHANGED <<command, now, journal, aim, wall, unanswered, stepped>>
        /\ moves' \in {moves, Append(moves, moved)}
        /\ g \in Targets
        /\ wall \in Nat /\ now[t] \in Nat
    BY <1>8, GuardAssumption
       DEF WriteAcknowledged, WriteFailed, InGate, Goto, Move, GuardAssumption,
           Protocol, TypeOK, Aimed, Issued
  <2>2. /\ \A s \in Threads : s # t => UNCHANGED pc[s]
        /\ \A s \in Threads : s # t => pc[s] \notin Inside
        /\ pc'[t] \in {"applied", "failed"}
    BY <2>1 DEF Protocol, TypeOK, Gated, Inside
  <2>3. /\ \A i \in DOMAIN moves' :
              \/ i \in DOMAIN moves /\ moves'[i] = moves[i]
              \/ i = Len(moves') /\ moves'[i] = moved
        /\ \A i \in DOMAIN moves' : i \in Nat /\ i <= Len(moves')
        /\ Len(moves') \in Nat
    <3>1. moves \in Seq(Moved)
      BY DEF Protocol, TypeOK
    <3>2. CASE moves' = moves
      BY <3>1, <3>2
    <3>3. CASE moves' = Append(moves, moved)
      <4> HIDE DEF Moved, moved
      <4> QED
        BY <3>1, <3>3
    <3> QED
      BY <2>1, <3>2, <3>3
  <2>4. \A i \in DOMAIN moves : moves[i].command_id # command[t]
    BY <2>1 DEF Motion, LastMove
  <2>5. moved.command_id = command[t] /\ moved.at = wall
    OBVIOUS
  <2> HIDE DEF Moved, moved
  <2>6. RowAim'
    BY <2>1 DEF Motion, RowAim
  <2>7. Timely'
    BY <2>1, <2>2 DEF Motion, Timely, Inside
  <2>8. LastMove'
    BY <2>1, <2>2, <2>3, <2>4 DEF LastMove, Inside
  <2>9. RecordedMoveRests'
    <3> SUFFICES ASSUME ~stepped, NEW i \in DOMAIN moves', NEW k \in DOMAIN moves', i < k,
                        NEW n \in DOMAIN journal,
                        aim[moves'[k].command_id] = aim[moves'[i].command_id],
                        aim[moves'[i].command_id] \notin unanswered,
                        journal[n].command_id = moves'[i].command_id,
                        journal[n].status = APPLIED
                 PROVE  moves'[k].at - journal[n].decided_at
                           >= MinimumInterval[aim[moves'[i].command_id]]
      BY <2>1 DEF RecordedMoveRests
    <3>1. i \in DOMAIN moves /\ moves'[i] = moves[i]
      BY <2>3
    <3>2. CASE k \in DOMAIN moves /\ moves'[k] = moves[k]
      BY <3>1, <3>2 DEF Motion, RecordedMoveRests
    <3>3. CASE moves'[k] = moved
      <4>1. aim[moves'[i].command_id] = g
        BY <2>5, <3>3
      <4>2. n \in AppliedRows(journal, g)
        BY <4>1 DEF Motion, RowAim, AppliedRows
      <4>3. now[t] - journal[n].decided_at >= MinimumInterval[g]
        BY <2>1, <4>1, <4>2 DEF Spacing, Rested
      <4>4. now[t] <= wall
        BY <2>1 DEF Motion, Timely, Inside
      <4>5. journal[n].decided_at \in Nat /\ MinimumInterval[g] \in Nat
        BY <2>1, <4>2, RowTime, GuardAssumption DEF GuardAssumption
      <4> HIDE DEF g
      <4> QED
        BY <2>1, <2>5, <3>3, <4>1, <4>3, <4>4, <4>5
    <3> QED
      BY <2>3, <3>2, <3>3
  <2> QED
    BY <2>6, <2>7, <2>8, <2>9 DEF Motion
<1>9. ASSUME NEW t \in Threads, WriteEscapes(t) PROVE Motion'
  <2>1. /\ pc[t] \in Inside /\ Leave(t, "raised")
        /\ UNCHANGED <<journal, aim, moves, stepped, wall, unanswered>>
    BY <1>9 DEF WriteEscapes, InGate, Inside, history
  <2>2. ISSUED \in CommandStatus /\ ISSUED # APPLIED
    BY DEF CommandStatus, ISSUED, APPLIED
  <2> QED
    BY <2>1, <2>2, LeaveMotion
<1>10. CASE Crash
  BY <1>10 DEF Crash, history, Motion, RowAim, Timely, LastMove, RecordedMoveRests, Inside
<1>11. CASE Boot \/ UNCHANGED vars
  BY <1>1, <1>11 DEF Boot, vars, memory, history
<1>12. CASE Tick \/ SetClock
  <2> USE <1>12 DEF Tick, SetClock, memory, history, Motion
  <2>1. RowAim' /\ LastMove' /\ RecordedMoveRests'
    BY DEF RowAim, LastMove, RecordedMoveRests
  <2>2. Timely'
    <3>1. wall \in Nat /\ now \in [Threads -> Nat]
      BY GuardAssumption DEF GuardAssumption, Protocol, TypeOK
    <3> QED
      BY <3>1 DEF Timely
  <2> QED
    BY <2>1, <2>2
<1> QED
  BY <1>2, <1>3, <1>5, <1>6, <1>7, <1>8, <1>9, <1>10, <1>11, <1>12 DEF Next, Proceed

\* While the clock only ticks, a relay whose operation is on record is not written
\* again before its interval has passed.
THEOREM RecordedMovesRest == Spec => []RecordedMoveRests
<1>1. Motion => RecordedMoveRests
  BY DEF Motion
<1> QED
  BY <1>1, MotionInit, MotionStep, Protocols, Ledgers, Spacings, PTL DEF Spec

-----------------------------------------------------------------------------
(* What an intent without an outcome is the evidence of. *)

\* A port that opens and a journal that takes what it is given.
NothingRefused == {"open", "append"} \cap Faults = {}

\* An intent that is on record alone belongs to a caller who waits or was cut off.
Traced ==
    \A c \in Commands :
        Holds(journal, <<c, TRUE>>) /\ ~Holds(journal, <<c, FALSE>>)
            => answer[c] \in {"pending", "lost"}

\* A thread that leaves the gate with a record has settled its command.
LEMMA RecordTraced ==
    ASSUME NothingRefused, Protocol, Traced, NEW t \in Threads, pc[t] \in Inside,
           NEW status \in {APPLIED, REFUSED, FAILED}, Record(t, status)
    PROVE  Traced'
<1> SUFFICES ASSUME NEW c \in Commands, Holds(journal', <<c, TRUE>>),
                    ~Holds(journal', <<c, FALSE>>)
             PROVE  answer'[c] \in {"pending", "lost"}
  BY DEF Traced
<1>1. journal' = Store(journal, Row(t, status)) /\ Leave(t, status)
  BY DEF Record, NothingRefused
<1>2. /\ journal \in Seq(CommandRecord(Commands, Requested))
      /\ Row(t, status) \in CommandRecord(Commands, Requested)
  BY RecordStep DEF Protocol, TypeOK
<1>3. RowKey(Row(t, status)) = <<command[t], FALSE>>
  BY DEF RowKey, Row, ISSUED, APPLIED, REFUSED, FAILED
<1>4. command[t] # c
  BY <1>1, <1>2, <1>3, StoreKeys
<1>5. Holds(journal, <<c, TRUE>>) /\ ~Holds(journal, <<c, FALSE>>)
  <2>1. <<command[t], FALSE>> # <<c, TRUE>>
    OBVIOUS
  <2>2. \A key : Holds(journal', key) <=> Holds(journal, key) \/ <<command[t], FALSE>> = key
    BY <1>1, <1>2, <1>3, StoreKeys
  <2> QED
    BY <2>1, <2>2
<1>6. answer'[c] = answer[c]
  BY <1>1, <1>4 DEF Leave, Protocol, TypeOK
<1> QED
  BY <1>5, <1>6 DEF Traced

LEMMA TracedStep ==
    ASSUME NothingRefused, Protocol, Traced, [Next]_vars
    PROVE  Traced'
<1>1. ASSUME NEW t \in Threads, NEW c \in Commands, Submit(t, c) PROVE Traced'
  BY <1>1 DEF Submit, Traced, Protocol, TypeOK
<1>2. ASSUME NEW t \in Threads,
             Enter(t) \/ WriteAcknowledged(t) \/ WriteFailed(t)
      PROVE  Traced'
  BY <1>2 DEF Enter, WriteAcknowledged, WriteFailed, Traced
<1>3. ASSUME NEW t \in Threads,
             \/ RefuseUnpermitted(t) \/ FailUnwired(t) \/ RefuseTooSoon(t)
             \/ RecordApplied(t) \/ RecordFailed(t)
      PROVE  Traced'
  <2>1. /\ pc[t] \in Inside
        /\ \E status \in {APPLIED, REFUSED, FAILED} : Record(t, status)
    BY <1>3 DEF RefuseUnpermitted, FailUnwired, RefuseTooSoon, RecordApplied, RecordFailed,
                InGate, Inside
  <2> QED
    BY <2>1, RecordTraced
<1>4. ASSUME NEW t \in Threads, Issue(t) PROVE Traced'
  <2>1. /\ journal' = Store(journal, Row(t, ISSUED))
        /\ answer' = answer
    BY <1>4 DEF Issue, NothingRefused
  <2>2. pc[t] = "deciding" /\ command[t] \in Commands /\ answer[command[t]] = "pending"
    BY <1>4 DEF Issue, InGate, Protocol, Carrying
  <2>3. /\ journal \in Seq(CommandRecord(Commands, Requested))
        /\ Row(t, ISSUED) \in CommandRecord(Commands, Requested)
    BY <2>2 DEF Row, CommandRecord, CommandStatus, Protocol, TypeOK
  <2>4. RowKey(Row(t, ISSUED)) = <<command[t], TRUE>>
    BY DEF RowKey, Row
  <2>5. ASSUME NEW c \in Commands, Holds(journal', <<c, TRUE>>), ~Holds(journal', <<c, FALSE>>)
        PROVE  answer'[c] \in {"pending", "lost"}
    <3>1. CASE c = command[t]
      BY <2>1, <2>2, <3>1
    <3>2. CASE c # command[t]
      <4>1. Holds(journal, <<c, TRUE>>) /\ ~Holds(journal, <<c, FALSE>>)
        BY <2>1, <2>3, <2>4, <2>5, <3>2, StoreKeys
      <4> QED
        BY <2>1, <4>1 DEF Traced
    <3> QED
      BY <3>1, <3>2
  <2> QED
    BY <2>5 DEF Traced
<1>5. ASSUME NEW t \in Threads, WriteEscapes(t) PROVE Traced'
  BY <1>5 DEF WriteEscapes, NothingRefused
<1>6. CASE Crash
  BY <1>6 DEF Crash, Traced, Protocol, TypeOK, history
<1>7. CASE Boot \/ Tick \/ SetClock \/ UNCHANGED vars
  BY <1>7 DEF Boot, Tick, SetClock, Traced, vars, memory, history
<1> QED
  BY <1>1, <1>2, <1>3, <1>4, <1>5, <1>6, <1>7 DEF Next, Proceed

\* Where no port fails to open and no record is refused, the journal says what
\* control.py:265 says of it: an intent without an outcome is left only by a process
\* that ended.
THEOREM UnresolvedOnlyByCrash ==
    ASSUME NothingRefused
    PROVE  Spec => []UnresolvedMeansCrash
<1>1. Init => Traced
  BY DEF Init, Traced, Holds
<1>2. Protocol /\ Traced /\ [Next]_vars => Traced'
  BY TracedStep
<1>3. Traced => UnresolvedMeansCrash
  <2>1. \A c : HasStatus(journal, c, ISSUED) => Holds(journal, <<c, TRUE>>)
    BY DEF HasStatus, Holds, RowKey
  <2> QED
    BY <2>1 DEF Traced, UnresolvedMeansCrash, Unresolved
<1> QED
  BY <1>1, <1>2, <1>3, Protocols, PTL DEF Spec

-----------------------------------------------------------------------------
(* The interval where no echo is lost and no process dies. *)

\* What moves the coil says so, and the process that moved it lives to remember.
NothingForgotten == {"echo", "crash"} \cap Faults = {}

IntentRow(n, c) == journal[n].command_id = c /\ journal[n].status = ISSUED

\* The decisions of any two operations that reached one relay lie its interval apart,
\* recorded as applied or not.
OperationsSpaced ==
    \A i, k \in DOMAIN moves : \A m, n \in DOMAIN journal :
        LET g == aim[moves[k].command_id] IN
        (/\ i < k
         /\ aim[moves[i].command_id] = g
         /\ IntentRow(m, moves[i].command_id)
         /\ IntentRow(n, moves[k].command_id))
        => journal[n].decided_at - journal[m].decided_at >= MinimumInterval[g]

\* An intent is dated by the thread that carries its command.
IntentDated ==
    \A t \in Threads : \A n \in DOMAIN journal :
        pc[t] \in Issued /\ IntentRow(n, command[t]) => journal[n].decided_at = now[t]

\* What a command is dated, where it is on record.
DatedBy(c, latest) == \A n \in DOMAIN journal : IntentRow(n, c) => journal[n].decided_at <= latest

\* An operation is remembered by its thread, and then by the service.
OnItsThread(c) == \E t \in Threads : pc[t] = "applied" /\ command[t] = c

InMemory(c) == cache[aim[c]] # Never /\ DatedBy(c, cache[aim[c]])

StillKnown(c) == aim[c] \in Targets /\ (OnItsThread(c) \/ InMemory(c))

OperationsRemembered == \A i \in DOMAIN moves : StillKnown(moves[i].command_id)

\* A command on its way is rested against every operation of its relay.
RestedFrom(t, i) ==
    \A n \in DOMAIN journal :
        IntentRow(n, moves[i].command_id)
            => now[t] - journal[n].decided_at >= MinimumInterval[aim[command[t]]]

OnTheWayRested ==
    \A t \in Threads : \A i \in DOMAIN moves :
        /\ pc[t] \in {"writing", "applied"}
        /\ moves[i].command_id # command[t]
        /\ aim[moves[i].command_id] = aim[command[t]]
        => RestedFrom(t, i)

Remembering ==
    IntentDated /\ OperationsRemembered /\ OnTheWayRested /\ OperationsSpaced

\* Threads outside the gate carry nothing that is on its way.
LEMMA OthersOutside ==
    ASSUME Protocol, NEW t \in Threads, pc[t] \in Inside
    PROVE  \A s \in Threads : s # t => pc[s] \notin Inside
  BY DEF Protocol, Gated

\* The rows of a journal and what they hold.
LEMMA RowTyped ==
    ASSUME Protocol, NEW n \in DOMAIN journal
    PROVE  journal[n].decided_at \in Nat
<1>1. journal[n] \in CommandRecord(Commands, Requested)
  BY DEF Protocol, TypeOK
<1> QED
  BY <1>1 DEF CommandRecord

\* Nothing is forgotten by a step that writes no intent, moves no coil, lets no
\* thread further and loses nothing from the cache.
LEMMA KeptRemembering ==
    ASSUME Protocol, Remembering,
           UNCHANGED <<moves, aim>>,
           \A n \in DOMAIN journal' : journal'[n].status = ISSUED
               => n \in DOMAIN journal /\ journal'[n] = journal[n],
           \A g \in Targets : cache[g] # Never => cache'[g] = cache[g],
           \A s \in Threads :
               \/ UNCHANGED <<pc[s], command[s], now[s]>>
               \/ pc'[s] \notin Issued /\ pc[s] # "applied"
               \/ pc[s] = "writing" /\ pc'[s] = "failed" /\ UNCHANGED <<command[s], now[s]>>
    PROVE  Remembering'
<1>1. \A n \in DOMAIN journal' : \A c :
          IntentRow(n, c)' => n \in DOMAIN journal /\ IntentRow(n, c) /\ journal'[n] = journal[n]
  BY DEF IntentRow
<1>2. IntentDated'
  BY <1>1 DEF Remembering, IntentDated, Issued
<1>3. OperationsRemembered'
  <2>1. ASSUME NEW c, StillKnown(c) PROVE StillKnown(c)'
    <3>1. CASE OnItsThread(c)
      <4>1. OnItsThread(c)'
        BY <3>1 DEF OnItsThread
      <4> QED
        BY <2>1, <4>1 DEF StillKnown
    <3>2. CASE InMemory(c)
      <4>1. cache'[aim[c]] = cache[aim[c]] /\ cache[aim[c]] # Never
        BY <2>1, <3>2 DEF StillKnown, InMemory
      <4>2. DatedBy(c, cache[aim[c]])'
        BY <1>1, <3>2, <4>1 DEF DatedBy, InMemory
      <4> QED
        BY <2>1, <4>1, <4>2 DEF StillKnown, InMemory
    <3> QED
      BY <2>1, <3>1, <3>2 DEF StillKnown
  <2> QED
    BY <2>1 DEF Remembering, OperationsRemembered
<1>4. OnTheWayRested'
  <2> SUFFICES ASSUME NEW t \in Threads, NEW i \in DOMAIN moves,
                      pc'[t] \in {"writing", "applied"}, moves[i].command_id # command'[t],
                      aim[moves[i].command_id] = aim[command'[t]]
               PROVE  RestedFrom(t, i)'
    BY DEF OnTheWayRested
  <2>1. UNCHANGED <<pc[t], command[t], now[t]>>
    BY DEF Issued
  <2>2. RestedFrom(t, i)
    BY <2>1 DEF Remembering, OnTheWayRested
  <2> QED
    BY <1>1, <2>1, <2>2 DEF RestedFrom
<1>5. OperationsSpaced'
  <2> SUFFICES ASSUME NEW i \in DOMAIN moves, NEW k \in DOMAIN moves, i < k,
                      NEW m \in DOMAIN journal', NEW n \in DOMAIN journal',
                      aim[moves[i].command_id] = aim[moves[k].command_id],
                      IntentRow(m, moves[i].command_id)', IntentRow(n, moves[k].command_id)'
               PROVE  journal'[n].decided_at - journal'[m].decided_at
                          >= MinimumInterval[aim[moves[k].command_id]]
    BY DEF OperationsSpaced, IntentRow
  <2>1. /\ m \in DOMAIN journal /\ IntentRow(m, moves[i].command_id) /\ journal'[m] = journal[m]
        /\ n \in DOMAIN journal /\ IntentRow(n, moves[k].command_id) /\ journal'[n] = journal[n]
    BY <1>1
  <2> QED
    BY <2>1 DEF Remembering, OperationsSpaced
<1> QED
  BY <1>2, <1>3, <1>4, <1>5 DEF Remembering

\* The record of an applied command is what the service remembers it by.
LEMMA AppliedRemembering ==
    ASSUME Protocol, Remembering, NEW t \in Threads, RecordApplied(t)
    PROVE  Remembering'
<1> DEFINE g == aim[command[t]]
<1>1. /\ pc[t] = "applied" /\ pc[t] \in Inside /\ g \in Targets /\ now[t] \in Nat
      /\ command[t] \in Commands
      /\ cache' = [cache EXCEPT ![g] = now[t]] /\ cache \in [Targets -> Nat \cup {Never}]
      /\ UNCHANGED <<aim, moves>>
      /\ Record(t, APPLIED)
  BY DEF RecordApplied, InGate, history, Protocol, TypeOK, Aimed, Issued, Inside, Carrying
<1>2. \A s \in Threads : pc'[s] \notin Issued /\ (s # t => pc[s] \notin Inside)
  BY <1>1, OthersOutside DEF Record, Leave, Goto, Protocol, TypeOK, Issued, Inside
<1>3. \A n \in DOMAIN journal' : \A c :
          IntentRow(n, c)' => n \in DOMAIN journal /\ IntentRow(n, c) /\ journal'[n] = journal[n]
  <2>1. journal' \in {journal, Store(journal, Row(t, APPLIED))}
    BY <1>1 DEF Record
  <2>2. APPLIED \in CommandStatus /\ Row(t, APPLIED).status # ISSUED
    BY DEF Row, CommandStatus, APPLIED, ISSUED
  <2> QED
    BY <1>1, <2>1, <2>2, OneRow DEF IntentRow
<1>4. IntentDated' /\ OnTheWayRested'
  BY <1>2 DEF IntentDated, OnTheWayRested, Issued
<1>5. OperationsRemembered'
  <2> SUFFICES ASSUME NEW i \in DOMAIN moves
               PROVE  StillKnown(moves[i].command_id)'
    BY <1>1 DEF OperationsRemembered
  <2> DEFINE c == moves[i].command_id
  <2>1. StillKnown(c)
    BY DEF Remembering, OperationsRemembered
  <2>2. CASE c = command[t] \/ (c # command[t] /\ aim[c] = g)
    <3>1. \A n \in DOMAIN journal : IntentRow(n, c) => journal[n].decided_at <= now[t]
      <4>1. CASE c = command[t]
        <5>1. \A n \in DOMAIN journal : IntentRow(n, c) => journal[n].decided_at = now[t]
          BY <1>1, <4>1 DEF Remembering, IntentDated, Issued
        <5> QED
          BY <1>1, <5>1
      <4>2. CASE c # command[t] /\ aim[c] = g
        <5>1. RestedFrom(t, i)
          BY <1>1, <4>2 DEF Remembering, OnTheWayRested
        <5>2. MinimumInterval[g] \in Nat
          BY <1>1, GuardAssumption DEF GuardAssumption
        <5> HIDE DEF g
        <5>3. \A n \in DOMAIN journal :
                  IntentRow(n, c) => now[t] - journal[n].decided_at >= MinimumInterval[g]
          BY <5>1 DEF RestedFrom, g
        <5> QED
          BY <1>1, <5>2, <5>3, RowTyped
      <4> QED
        BY <2>2, <4>1, <4>2
    <3>2. cache'[aim[c]] = now[t] /\ now[t] # Never
      BY <1>1, <2>2 DEF Never
    <3>3. DatedBy(c, cache[aim[c]])'
      BY <1>1, <1>3, <3>1, <3>2 DEF DatedBy
    <3> QED
      BY <1>1, <2>1, <3>2, <3>3 DEF StillKnown, InMemory
  <2>3. CASE aim[c] # g
    <3>1. InMemory(c) /\ aim[c] \in Targets
      BY <1>2, <2>1, <2>3 DEF StillKnown, OnItsThread, Inside
    <3>2. cache'[aim[c]] = cache[aim[c]]
      BY <1>1, <2>3, <3>1
    <3>3. DatedBy(c, cache[aim[c]])'
      BY <1>1, <1>3, <3>1, <3>2 DEF DatedBy, InMemory
    <3> QED
      BY <1>1, <3>1, <3>2, <3>3 DEF StillKnown, InMemory
  <2> QED
    BY <2>2, <2>3
<1>6. OperationsSpaced'
  <2> SUFFICES ASSUME NEW i \in DOMAIN moves, NEW k \in DOMAIN moves, i < k,
                      NEW m \in DOMAIN journal', NEW n \in DOMAIN journal',
                      aim[moves[i].command_id] = aim[moves[k].command_id],
                      IntentRow(m, moves[i].command_id)', IntentRow(n, moves[k].command_id)'
               PROVE  journal'[n].decided_at - journal'[m].decided_at
                          >= MinimumInterval[aim[moves[k].command_id]]
    BY <1>1 DEF OperationsSpaced, IntentRow
  <2>1. /\ m \in DOMAIN journal /\ IntentRow(m, moves[i].command_id) /\ journal'[m] = journal[m]
        /\ n \in DOMAIN journal /\ IntentRow(n, moves[k].command_id) /\ journal'[n] = journal[n]
    BY <1>1, <1>3
  <2> QED
    BY <2>1 DEF Remembering, OperationsSpaced
<1> QED
  BY <1>4, <1>5, <1>6 DEF Remembering

\* An intent goes on record when its relay has rested since every operation of it.
LEMMA IssueRemembering ==
    ASSUME Protocol, Ledger, Remembering, NEW t \in Threads, Issue(t),
           journal' = Store(journal, Row(t, ISSUED)), Goto(t, "writing"),
           UNCHANGED <<command, now>>
    PROVE  Remembering'
<1> DEFINE g == aim[command[t]]
<1>1. /\ pc[t] = "deciding" /\ pc[t] \in Inside /\ g \in Targets /\ now[t] \in Nat
      /\ command[t] \in Commands
      /\ cache \in [Targets -> Nat \cup {Never}]
      /\ UNCHANGED <<aim, moves>>
  BY DEF Issue, InGate, Permitted, Protocol, TypeOK, Inside, Carrying
<1>2. /\ pc' = [pc EXCEPT ![t] = "writing"]
      /\ \A s \in Threads : s # t => pc'[s] = pc[s] /\ pc[s] \notin Inside
  BY <1>1, OthersOutside DEF Goto, Protocol, TypeOK
<1>3. \A n \in DOMAIN journal' :
          \/ n \in DOMAIN journal /\ journal'[n] = journal[n]
          \/ journal'[n] = Row(t, ISSUED)
  BY <1>1, OneRow DEF CommandStatus
<1>4. ~HasStatus(journal, command[t], ISSUED)
  <2>1. ~Holds(journal, <<command[t], TRUE>>)
    BY <1>1 DEF Ledger, Untold
  <2> QED
    BY <2>1 DEF Holds, HasStatus, RowKey
<1>5. \A i \in DOMAIN moves : moves[i].command_id # command[t]
  BY <1>4 DEF Ledger, WriteAhead
<1>6. \A n \in DOMAIN journal' : IntentRow(n, command[t])' => journal'[n].decided_at = now[t]
  BY <1>1, <1>3, <1>4 DEF IntentRow, HasStatus, Row
<1>7. \A n \in DOMAIN journal' : \A c : c # command[t] /\ IntentRow(n, c)'
          => n \in DOMAIN journal /\ IntentRow(n, c) /\ journal'[n] = journal[n]
  BY <1>1, <1>3 DEF IntentRow, Row
<1>8. \A i \in DOMAIN moves :
          InMemory(moves[i].command_id) /\ aim[moves[i].command_id] \in Targets
  BY <1>1, <1>2 DEF Remembering, OperationsRemembered, StillKnown, OnItsThread, Inside
<1>9. IntentDated'
  BY <1>1, <1>2, <1>6 DEF IntentDated, Issued, Inside
<1>10. ASSUME NEW h \in Targets, cache[h] # Never PROVE cache'[h] = cache[h]
  BY <1>1, <1>10 DEF Issue, Recall, Remembered
<1>11. OperationsRemembered'
  <2> SUFFICES ASSUME NEW i \in DOMAIN moves
               PROVE  StillKnown(moves[i].command_id)'
    BY <1>1 DEF OperationsRemembered
  <2> DEFINE c == moves[i].command_id
  <2>1. InMemory(c) /\ aim[c] \in Targets /\ c # command[t]
    BY <1>5, <1>8
  <2>2. cache'[aim[c]] = cache[aim[c]]
    BY <1>10, <2>1 DEF InMemory
  <2>3. DatedBy(c, cache[aim[c]])'
    BY <1>1, <1>7, <2>1, <2>2 DEF DatedBy, InMemory
  <2> QED
    BY <1>1, <2>1, <2>2, <2>3 DEF StillKnown, InMemory
<1>12. OnTheWayRested'
  <2> SUFFICES ASSUME NEW s \in Threads, NEW i \in DOMAIN moves,
                      pc'[s] \in {"writing", "applied"}, moves[i].command_id # command[s],
                      aim[moves[i].command_id] = aim[command[s]]
               PROVE  RestedFrom(s, i)'
    BY <1>1 DEF OnTheWayRested
  <2> DEFINE c == moves[i].command_id
  <2>1. s = t
    BY <1>2 DEF Inside
  <2>2. cache[g] # Never /\ DatedBy(c, cache[g]) /\ c # command[t]
    BY <1>5, <1>8, <2>1 DEF InMemory
  <2>3. cache[g] \in Nat /\ MinimumInterval[g] \in Nat
    BY <1>1, <2>2, GuardAssumption DEF GuardAssumption
  <2>4. now[t] - cache[g] >= MinimumInterval[g]
    <3>1. \E readable \in BOOLEAN : ~RateLimited(g, now[t], Remembered(g, readable))
      BY DEF Issue
    <3>2. ~RateLimited(g, now[t], cache[g])
      BY <2>2, <3>1 DEF Remembered
    <3> HIDE DEF g
    <3> QED
      BY <1>1, <2>2, <2>3, <3>2 DEF RateLimited
  <2> HIDE DEF g, c
  <2>5. ASSUME NEW n \in DOMAIN journal, IntentRow(n, c)
        PROVE  now[t] - journal[n].decided_at >= MinimumInterval[g]
    <3>1. journal[n].decided_at <= cache[g] /\ journal[n].decided_at \in Nat
      BY <2>2, <2>5, RowTyped DEF DatedBy
    <3> QED
      BY <1>1, <2>3, <2>4, <3>1
  <2>6. ASSUME NEW n \in DOMAIN journal', IntentRow(n, moves[i].command_id)'
        PROVE  n \in DOMAIN journal /\ IntentRow(n, c) /\ journal'[n] = journal[n]
    BY <1>1, <1>7, <2>2, <2>6 DEF IntentRow, c
  <2> QED
    BY <1>1, <2>1, <2>5, <2>6 DEF RestedFrom, IntentRow, c, g
<1>13. OperationsSpaced'
  <2> SUFFICES ASSUME NEW i \in DOMAIN moves, NEW k \in DOMAIN moves, i < k,
                      NEW m \in DOMAIN journal', NEW n \in DOMAIN journal',
                      aim[moves[i].command_id] = aim[moves[k].command_id],
                      IntentRow(m, moves[i].command_id)', IntentRow(n, moves[k].command_id)'
               PROVE  journal'[n].decided_at - journal'[m].decided_at
                          >= MinimumInterval[aim[moves[k].command_id]]
    BY <1>1 DEF OperationsSpaced, IntentRow
  <2>1. /\ m \in DOMAIN journal /\ IntentRow(m, moves[i].command_id) /\ journal'[m] = journal[m]
        /\ n \in DOMAIN journal /\ IntentRow(n, moves[k].command_id) /\ journal'[n] = journal[n]
    BY <1>1, <1>5, <1>7
  <2> QED
    BY <2>1 DEF Remembering, OperationsSpaced
<1> QED
  BY <1>9, <1>11, <1>12, <1>13 DEF Remembering

\* A coil write that is acknowledged is the only one of its command.
LEMMA MovedRemembering ==
    ASSUME Protocol, Motion, Remembering, NEW t \in Threads, WriteAcknowledged(t)
    PROVE  Remembering'
<1> DEFINE Moved == [command_id: Commands, at: Nat]
           moved == [command_id |-> command[t], at |-> wall]
           g == aim[command[t]]
<1>1. /\ pc[t] = "writing" /\ pc[t] \in Inside /\ g \in Targets /\ command[t] \in Commands
      /\ pc' = [pc EXCEPT ![t] = "applied"]
      /\ moves' = Append(moves, moved)
      /\ UNCHANGED <<aim, command, now, journal, cache>>
      /\ wall \in Nat /\ moves \in Seq(Moved)
  BY GuardAssumption DEF WriteAcknowledged, InGate, Goto, Move, GuardAssumption, Protocol, TypeOK,
                         Aimed, Issued, Inside, Carrying
<1>2. \A s \in Threads : s # t => pc'[s] = pc[s] /\ pc[s] \notin Inside
  BY <1>1, OthersOutside DEF Protocol, TypeOK
<1>3. \A i \in DOMAIN moves : moves[i].command_id # command[t]
  BY <1>1 DEF Motion, LastMove
<1>4. moved.command_id = command[t]
  OBVIOUS
<1>5. /\ Len(moves) \in Nat /\ DOMAIN moves = 1..Len(moves)
      /\ \A i \in DOMAIN moves' : \/ i \in DOMAIN moves /\ moves'[i] = moves[i]
                                  \/ i = Len(moves) + 1 /\ moves'[i] = moved
  <2> HIDE DEF Moved, moved
  <2> QED
    BY <1>1
<1> HIDE DEF Moved, moved
<1>6. IntentDated'
  BY <1>1, <1>2 DEF Remembering, IntentDated, IntentRow, Issued, Inside, Protocol, TypeOK
<1>7. OperationsRemembered'
  <2> SUFFICES ASSUME NEW i \in DOMAIN moves'
               PROVE  StillKnown(moves[i].command_id)'
    BY DEF OperationsRemembered
  <2>1. CASE moves'[i] = moved
    <3>1. OnItsThread(command[t])'
      BY <1>1 DEF OnItsThread, Protocol, TypeOK
    <3>2. StillKnown(command[t])'
      BY <1>1, <3>1 DEF StillKnown
    <3> QED
      BY <1>1, <1>4, <2>1, <3>2 DEF StillKnown, OnItsThread
  <2>2. CASE i \in DOMAIN moves /\ moves'[i] = moves[i]
    <3>1. StillKnown(moves[i].command_id) /\ ~OnItsThread(moves[i].command_id)
      BY <1>1, <1>2, <2>2 DEF Remembering, OperationsRemembered, OnItsThread, Inside
    <3>2. aim[moves[i].command_id] \in Targets /\ InMemory(moves[i].command_id)
      BY <3>1 DEF StillKnown
    <3>3. InMemory(moves[i].command_id)'
      BY <1>1, <2>2, <3>2 DEF InMemory, DatedBy, IntentRow
    <3> QED
      BY <1>1, <2>2, <3>2, <3>3 DEF StillKnown
  <2> QED
    BY <1>5, <2>1, <2>2
<1>8. OnTheWayRested'
  <2> SUFFICES ASSUME NEW s \in Threads, NEW i \in DOMAIN moves',
                      pc'[s] \in {"writing", "applied"}, moves'[i].command_id # command[s],
                      aim[moves'[i].command_id] = aim[command[s]]
               PROVE  RestedFrom(s, i)'
    BY <1>1 DEF OnTheWayRested
  <2>1. s = t
    BY <1>2 DEF Inside
  <2>2. i \in DOMAIN moves /\ moves'[i] = moves[i]
    BY <1>4, <1>5, <2>1
  <2>3. RestedFrom(t, i)
    BY <1>1, <2>1, <2>2 DEF Remembering, OnTheWayRested
  <2> QED
    BY <1>1, <2>1, <2>2, <2>3 DEF RestedFrom, IntentRow
<1>9. OperationsSpaced'
  <2> SUFFICES ASSUME NEW i \in DOMAIN moves', NEW k \in DOMAIN moves', i < k,
                      NEW m \in DOMAIN journal, NEW n \in DOMAIN journal,
                      aim[moves'[i].command_id] = aim[moves'[k].command_id],
                      IntentRow(m, moves'[i].command_id), IntentRow(n, moves'[k].command_id)
               PROVE  journal[n].decided_at - journal[m].decided_at
                          >= MinimumInterval[aim[moves'[k].command_id]]
    BY <1>1 DEF OperationsSpaced, IntentRow
  <2>1. i \in DOMAIN moves /\ moves'[i] = moves[i]
    BY <1>1, <1>5
  <2>2. CASE k \in DOMAIN moves /\ moves'[k] = moves[k]
    BY <2>1, <2>2 DEF Remembering, OperationsSpaced
  <2>3. CASE moves'[k] = moved
    <3>1. RestedFrom(t, i)
      BY <1>1, <1>3, <1>4, <2>1, <2>3 DEF Remembering, OnTheWayRested
    <3>2. journal[n].decided_at = now[t]
      BY <1>1, <1>4, <2>3 DEF Remembering, IntentDated, Issued
    <3> QED
      BY <1>4, <2>1, <2>3, <3>1, <3>2 DEF RestedFrom
  <2> QED
    BY <1>5, <2>2, <2>3
<1> QED
  BY <1>6, <1>7, <1>8, <1>9 DEF Remembering

\* Where no echo is lost and no process dies, every step keeps what the interval needs.
LEMMA RememberingStep ==
    ASSUME NothingForgotten, Protocol, Ledger, Motion, Remembering, [Next]_vars
    PROVE  Remembering'
<1>1. ASSUME UNCHANGED <<moves, aim, journal>>,
             \A g \in Targets : cache[g] # Never => cache'[g] = cache[g],
             \A s \in Threads : \/ UNCHANGED <<pc[s], command[s], now[s]>>
                                \/ pc'[s] \notin Issued /\ pc[s] # "applied"
                                \/ /\ pc[s] = "writing" /\ pc'[s] = "failed"
                                   /\ UNCHANGED <<command[s], now[s]>>
      PROVE  Remembering'
  BY <1>1, KeptRemembering
<1>2. ASSUME NEW t \in Threads, NEW c \in Commands, Submit(t, c) PROVE Remembering'
  BY <1>1, <1>2 DEF Submit, Goto, history, Protocol, TypeOK, Issued
<1>3. ASSUME NEW t \in Threads, Enter(t) PROVE Remembering'
  BY <1>1, <1>3 DEF Enter, Goto, history, Protocol, TypeOK, Issued
<1>4. ASSUME NEW t \in Threads, NEW status \in {REFUSED, FAILED}, Record(t, status),
             pc[t] \in Inside \ {"applied"}, UNCHANGED <<moves, aim>>,
             \A g \in Targets : cache[g] # Never => cache'[g] = cache[g]
      PROVE  Remembering'
  <2>1. /\ journal' \in {journal, Store(journal, Row(t, status))}
        /\ \A s \in Threads : \/ UNCHANGED <<pc[s], command[s], now[s]>>
                              \/ pc'[s] \notin Issued /\ pc[s] # "applied"
    BY <1>4 DEF Record, Leave, Goto, Protocol, TypeOK, Issued
  <2>2. command[t] \in Commands /\ status \in CommandStatus /\ Row(t, status).status # ISSUED
    BY <1>4 DEF Row, CommandStatus, ISSUED, REFUSED, FAILED, Protocol, Carrying, Inside
  <2>3. \A n \in DOMAIN journal' : journal'[n].status = ISSUED
            => n \in DOMAIN journal /\ journal'[n] = journal[n]
    BY <2>1, <2>2, OneRow
  <2> QED
    BY <1>4, <2>1, <2>3, KeptRemembering
<1>5. ASSUME NEW t \in Threads, RefuseUnpermitted(t) \/ FailUnwired(t) \/ RecordFailed(t)
      PROVE  Remembering'
  BY <1>4, <1>5 DEF RefuseUnpermitted, FailUnwired, RecordFailed, InGate, Inside, history
<1>6. ASSUME NEW t \in Threads, NEW g \in Targets, NEW readable \in BOOLEAN, Recall(g, readable)
      PROVE  \A h \in Targets : cache[h] # Never => cache'[h] = cache[h]
  BY <1>6 DEF Recall, Remembered, Protocol, TypeOK
<1>7. ASSUME NEW t \in Threads, RefuseTooSoon(t) PROVE Remembering'
  <2>1. /\ pc[t] \in Inside \ {"applied"} /\ Record(t, REFUSED) /\ UNCHANGED <<moves, aim>>
        /\ aim[command[t]] \in Targets
        /\ \E readable \in BOOLEAN : Recall(aim[command[t]], readable)
    BY <1>7 DEF RefuseTooSoon, InGate, Inside, Permitted
  <2> QED
    BY <1>4, <1>6, <2>1
<1>8. ASSUME NEW t \in Threads, Issue(t) PROVE Remembering'
  <2>1. CASE journal' = Store(journal, Row(t, ISSUED)) /\ Goto(t, "writing")
             /\ UNCHANGED <<gate, command, now, answer>>
    BY <1>8, <2>1, IssueRemembering
  <2>2. CASE Leave(t, "raised") /\ UNCHANGED journal
    <3>1. /\ pc[t] = "deciding" /\ UNCHANGED <<moves, aim>> /\ aim[command[t]] \in Targets
          /\ \E readable \in BOOLEAN : Recall(aim[command[t]], readable)
      BY <1>8 DEF Issue, InGate, Permitted
    <3>2. \A s \in Threads : \/ UNCHANGED <<pc[s], command[s], now[s]>>
                             \/ pc'[s] \notin Issued /\ pc[s] # "applied"
      BY <2>2, <3>1 DEF Leave, Goto, Protocol, TypeOK, Issued
    <3> QED
      BY <1>1, <1>6, <2>2, <3>1, <3>2
  <2> QED
    BY <1>8, <2>1, <2>2 DEF Issue
<1>9. ASSUME NEW t \in Threads, WriteFailed(t) PROVE Remembering'
  BY <1>1, <1>9 DEF WriteFailed, NothingForgotten, InGate, Goto, Protocol, TypeOK
<1>10. ASSUME NEW t \in Threads, WriteEscapes(t) PROVE Remembering'
  BY <1>1, <1>10 DEF WriteEscapes, InGate, Leave, Goto, history, Protocol, TypeOK, Issued
<1>11. CASE Crash
  BY <1>11 DEF Crash, NothingForgotten
<1>12. CASE Boot \/ Tick \/ SetClock \/ UNCHANGED vars
  BY <1>1, <1>12 DEF Boot, Tick, SetClock, vars, memory, history
<1> QED
  BY <1>2, <1>3, <1>5, <1>7, <1>8, <1>9, <1>10, <1>11, <1>12, AppliedRemembering,
     MovedRemembering DEF Next, Proceed

\* Where the coil answers for every movement and the process lives, no two decisions
\* that operated a relay are closer than its interval, whatever the journal refuses or
\* cannot tell and however the clock is set: what docs/CONTROL_BOUNDARY_ADR.md:110
\* promises, short of the two faults of guard_interval.
THEOREM OperationsSpacedAlways ==
    ASSUME NothingForgotten
    PROVE  Spec => []OperationsSpaced
<1>1. Init => Remembering
  BY DEF Init, Remembering, IntentDated, OperationsRemembered, OnTheWayRested, OperationsSpaced
<1>2. Protocol /\ Ledger /\ Motion /\ Remembering /\ [Next]_vars => Remembering'
  BY RememberingStep
<1>3. Remembering => OperationsSpaced
  BY DEF Remembering
<1>4. Spec => []Motion
  BY MotionInit, MotionStep, Protocols, Ledgers, Spacings, PTL DEF Spec
<1> QED
  BY <1>1, <1>2, <1>3, <1>4, Protocols, Ledgers, PTL DEF Spec
=============================================================================
