--------------------------- MODULE AuditTrailProofs ---------------------------
(***************************************************************************)
(* The command guard implements the audit trail, for any number of         *)
(* threads, commands and targets, any intervals and any faults: every step *)
(* of the guard is a step of AuditTrail or leaves it alone.                *)
(***************************************************************************)
EXTENDS CommandGuardProofs

-----------------------------------------------------------------------------
(* The state of the trail, as Trail in CommandGuard reads it off the guard. *)

Intents == {c \in Commands : HasStatus(journal, c, ISSUED)}
Movers  == {moves[i].command_id : i \in DOMAIN moves}
Fates   == [c \in Commands |-> OutcomeOf(c)]
Open    == IF \E t \in Threads : OnTheBus(t)
           THEN command[CHOOSE t \in Threads : OnTheBus(t)] ELSE NoCommand

\* A write that was acknowledged moved the relay.
Operated == \A t \in Threads : pc[t] = "applied" => command[t] \in Movers

-----------------------------------------------------------------------------
\* What is open is the command of the thread between its intent and its outcome;
\* the gate sees to it that there is one at most.
LEMMA OpenNow ==
    ASSUME Protocol
    PROVE  /\ \A t \in Threads : pc[t] \in Issued => Open = command[t]
           /\ (\A t \in Threads : pc[t] \notin Issued) => Open = NoCommand
<1>1. \A t \in Threads : OnTheBus(t) <=> pc[t] \in Issued
  BY DEF OnTheBus, Issued, Protocol, Gated, Inside
<1>2. ASSUME NEW t \in Threads, pc[t] \in Issued PROVE Open = command[t]
  <2>1. \E s \in Threads : OnTheBus(s)
    BY <1>1, <1>2
  <2>2. OnTheBus(CHOOSE s \in Threads : OnTheBus(s))
    BY <2>1
  <2>3. (CHOOSE s \in Threads : OnTheBus(s)) = t
    BY <1>1, <1>2, <2>2 DEF OnTheBus
  <2> QED
    BY <2>1, <2>3 DEF Open
<1>3. ASSUME \A t \in Threads : pc[t] \notin Issued PROVE Open = NoCommand
  BY <1>1, <1>3 DEF Open
<1> QED
  BY <1>2, <1>3

\* The same of the state after a step.
LEMMA OpenNext ==
    ASSUME Protocol'
    PROVE  /\ \A t \in Threads : pc'[t] \in Issued => Open' = command'[t]
           /\ (\A t \in Threads : pc'[t] \notin Issued) => Open' = NoCommand
<1>1. \A t \in Threads : OnTheBus(t)' <=> pc'[t] \in Issued
  BY DEF OnTheBus, Issued, Protocol, Gated, Inside
<1>2. ASSUME NEW t \in Threads, pc'[t] \in Issued PROVE Open' = command'[t]
  <2>1. \E s \in Threads : OnTheBus(s)'
    BY <1>1, <1>2
  <2>2. gate' = (CHOOSE s \in Threads : OnTheBus(s)')
    BY <2>1 DEF OnTheBus
  <2>3. (CHOOSE s \in Threads : OnTheBus(s)') = t
    BY <1>1, <1>2, <2>2 DEF OnTheBus
  <2> QED
    BY <2>1, <2>3 DEF Open
<1>3. ASSUME \A t \in Threads : pc'[t] \notin Issued PROVE Open' = NoCommand
  BY <1>1, <1>3 DEF Open
<1> QED
  BY <1>2, <1>3

\* A stored intent announces its command and tells no fate.
LEMMA IntentStored ==
    ASSUME Protocol, Ledger, NEW t \in Threads, pc[t] = "deciding",
           journal' = Store(journal, Row(t, ISSUED))
    PROVE  Intents' = Intents \cup {command[t]} /\ Fates' = Fates
<1> DEFINE c == command[t]
<1>1. c \in Commands
  BY DEF Protocol, Carrying
<1>2. /\ journal \in Seq(CommandRecord(Commands, Requested))
      /\ Row(t, ISSUED) \in CommandRecord(Commands, Requested)
  BY <1>1 DEF Protocol, TypeOK, Row, CommandRecord, CommandStatus
<1>3. journal' = Append(journal, Row(t, ISSUED))
  BY DEF Store, Ledger, Untold, RowKey, Row
<1>4. /\ DOMAIN journal' = DOMAIN journal \cup {Len(journal) + 1}
      /\ \A i \in DOMAIN journal : journal'[i] = journal[i]
      /\ journal'[Len(journal) + 1] = Row(t, ISSUED)
  BY <1>2, <1>3
<1>5. \A id, s : HasStatus(journal', id, s) <=>
                    HasStatus(journal, id, s) \/ (id = c /\ s = ISSUED)
  BY <1>4 DEF HasStatus, Row
<1>6. Intents' = Intents \cup {c}
  BY <1>1, <1>5 DEF Intents
<1>7. Fates' = Fates
  BY <1>5 DEF Fates, OutcomeOf, ISSUED, APPLIED, REFUSED, FAILED
<1> QED
  BY <1>6, <1>7

\* A stored outcome is the fate of its command, which had none, and of no other.
LEMMA FateStored ==
    ASSUME Protocol, Ledger, NEW t \in Threads, pc[t] \in Inside,
           NEW status \in {APPLIED, REFUSED, FAILED},
           journal' = Store(journal, Row(t, status))
    PROVE  /\ Intents' = Intents
           /\ Fates' = [Fates EXCEPT ![command[t]] = status]
<1> DEFINE c == command[t]
<1>1. c \in Commands /\ answer[c] = "pending"
  BY DEF Protocol, Carrying, Inside
<1>2. /\ journal \in Seq(CommandRecord(Commands, Requested))
      /\ Row(t, status) \in CommandRecord(Commands, Requested)
  BY <1>1 DEF Protocol, TypeOK, Row, CommandRecord, CommandStatus
<1>3. ~Holds(journal, <<c, FALSE>>)
  BY <1>1 DEF Ledger, Unsettled
<1>4. RowKey(Row(t, status)) = <<c, FALSE>>
  BY DEF RowKey, Row, ISSUED, APPLIED, REFUSED, FAILED
<1>5. journal' = Append(journal, Row(t, status))
  BY <1>3, <1>4 DEF Store
<1>6. /\ DOMAIN journal' = DOMAIN journal \cup {Len(journal) + 1}
      /\ \A i \in DOMAIN journal : journal'[i] = journal[i]
      /\ journal'[Len(journal) + 1] = Row(t, status)
  BY <1>2, <1>5
<1>7. \A id, s : HasStatus(journal', id, s) <=>
                    HasStatus(journal, id, s) \/ (id = c /\ s = status)
  BY <1>6 DEF HasStatus, Row
<1>8. \A s \in {APPLIED, REFUSED, FAILED} : ~HasStatus(journal, c, s)
  BY <1>3 DEF Holds, HasStatus, RowKey, ISSUED, APPLIED, REFUSED, FAILED
<1>9. Intents' = Intents
  BY <1>7 DEF Intents, ISSUED, APPLIED, REFUSED, FAILED
<1>10. Fates'[c] = status
  <2>1. \A s \in {APPLIED, REFUSED, FAILED} : HasStatus(journal', c, s) <=> s = status
    BY <1>7, <1>8
  <2> QED
    BY <1>1, <2>1 DEF Fates, OutcomeOf, APPLIED, REFUSED, FAILED
<1>11. \A d \in Commands : d # c => Fates'[d] = Fates[d]
  <2>1. \A d \in Commands : d # c =>
            \A s : HasStatus(journal', d, s) <=> HasStatus(journal, d, s)
    BY <1>7
  <2> QED
    BY <2>1 DEF Fates, OutcomeOf
<1>12. Fates' = [Fates EXCEPT ![c] = status]
  <2>1. Fates = [d \in Commands |-> Fates[d]] /\ Fates' = [d \in Commands |-> Fates'[d]]
    BY DEF Fates
  <2> QED
    BY <1>1, <1>10, <1>11, <2>1
<1> QED
  BY <1>9, <1>12

\* Until it is decided, a command is neither announced nor settled.
LEMMA Undecided ==
    ASSUME Protocol, Ledger, NEW t \in Threads, pc[t] = "deciding"
    PROVE  command[t] \in Commands /\ command[t] \notin Intents /\ Fates[command[t]] = "none"
<1>1. command[t] \in Commands /\ answer[command[t]] = "pending"
  BY DEF Protocol, Carrying
<1>2. ~Holds(journal, <<command[t], TRUE>>) /\ ~Holds(journal, <<command[t], FALSE>>)
  BY <1>1 DEF Ledger, Unsettled, Untold
<1>3. \A s : ~HasStatus(journal, command[t], s)
  BY <1>2 DEF Holds, HasStatus, RowKey
<1> QED
  BY <1>1, <1>3 DEF Intents, Fates, OutcomeOf

\* A move is one of the command that makes it.
LEMMA Moved ==
    ASSUME Protocol, NEW t \in Threads, Move(t)
    PROVE  Movers' = Movers \cup {command[t]}
<1> DEFINE Moves == [command_id: Commands, at: Nat]
           moved == [command_id |-> command[t], at |-> wall]
<1>1. moves \in Seq(Moves) /\ moves' = Append(moves, moved)
  BY DEF Protocol, TypeOK, Move
<1>2. moved.command_id = command[t]
  OBVIOUS
<1> HIDE DEF Moves, moved
<1>3. /\ DOMAIN moves' = DOMAIN moves \cup {Len(moves) + 1}
      /\ \A i \in DOMAIN moves : moves'[i] = moves[i]
      /\ moves'[Len(moves) + 1] = moved
  BY <1>1
<1> QED
  BY <1>2, <1>3 DEF Movers

-----------------------------------------------------------------------------
\* Nobody has written a coil yet.
THEOREM OperatedInit == Init => Operated
  BY DEF Init, Operated

\* The write the device acknowledged is in the history, which only grows.
THEOREM OperatedStep == Protocol /\ Operated /\ [Next]_vars => Operated'
<1> SUFFICES ASSUME Protocol, Operated, [Next]_vars PROVE Operated'
  OBVIOUS
<1>1. ASSUME UNCHANGED moves,
             \A s \in Threads : pc'[s] = "applied" => pc[s] = "applied" /\ UNCHANGED command[s]
      PROVE  Operated'
  BY <1>1 DEF Operated, Movers
<1>2. ASSUME NEW t \in Threads, UNCHANGED moves, NEW said, Leave(t, said) PROVE Operated'
  BY <1>1, <1>2 DEF Leave, Goto, Protocol, TypeOK
<1>3. ASSUME NEW t \in Threads, NEW status, UNCHANGED moves, Record(t, status) PROVE Operated'
  BY <1>2, <1>3 DEF Record
<1>4. ASSUME NEW t \in Threads, NEW c \in Commands, Submit(t, c) PROVE Operated'
  BY <1>1, <1>4 DEF Submit, Goto, history, Protocol, TypeOK
<1>5. ASSUME NEW t \in Threads, Enter(t) PROVE Operated'
  BY <1>1, <1>5 DEF Enter, Goto, history, Protocol, TypeOK
<1>6. ASSUME NEW t \in Threads,
             \/ RefuseUnpermitted(t) \/ FailUnwired(t) \/ RefuseTooSoon(t)
             \/ RecordApplied(t) \/ RecordFailed(t)
      PROVE  Operated'
  BY <1>3, <1>6 DEF RefuseUnpermitted, FailUnwired, RefuseTooSoon, RecordApplied,
                    RecordFailed, history
<1>7. ASSUME NEW t \in Threads, Issue(t) PROVE Operated'
  <2>1. CASE Goto(t, "writing") /\ UNCHANGED command
    BY <1>1, <1>7, <2>1 DEF Issue, Goto, Protocol, TypeOK
  <2>2. CASE Leave(t, "raised")
    BY <1>2, <1>7, <2>2 DEF Issue
  <2> QED
    BY <1>7, <2>1, <2>2 DEF Issue
<1>8. ASSUME NEW t \in Threads, Move(t), UNCHANGED command,
             \A s \in Threads : s # t => UNCHANGED pc[s]
      PROVE  Operated'
  BY <1>8, Moved DEF Operated
<1>9. ASSUME NEW t \in Threads, WriteAcknowledged(t) PROVE Operated'
  BY <1>8, <1>9 DEF WriteAcknowledged, Goto, Protocol, TypeOK
<1>10. ASSUME NEW t \in Threads, WriteFailed(t) PROVE Operated'
  <2>1. /\ UNCHANGED command
        /\ \A s \in Threads : s # t => UNCHANGED pc[s]
        /\ pc'[t] = "failed"
    BY <1>10 DEF WriteFailed, InGate, Goto, Protocol, TypeOK
  <2>2. CASE UNCHANGED moves
    BY <1>1, <2>1, <2>2
  <2>3. CASE Move(t)
    BY <1>8, <2>1, <2>3
  <2> QED
    BY <1>10, <2>2, <2>3 DEF WriteFailed
<1>11. ASSUME NEW t \in Threads, WriteEscapes(t) PROVE Operated'
  BY <1>2, <1>11 DEF WriteEscapes, history
<1>12. CASE Crash
  BY <1>1, <1>12 DEF Crash, history
<1>13. CASE Boot \/ Tick \/ SetClock \/ UNCHANGED vars
  BY <1>1, <1>13 DEF Boot, Tick, SetClock, vars, memory, history
<1> QED
  BY <1>4, <1>5, <1>6, <1>7, <1>9, <1>10, <1>11, <1>12, <1>13 DEF Next, Proceed

-----------------------------------------------------------------------------
\* An installation that has just been set up has an empty trail.
THEOREM TrailInit == Init => Trail!Init
  BY DEF Init, Trail!Init, HasStatus, OutcomeOf, OnTheBus

\* Every step of the guard is one of the trail, or none.
THEOREM TrailStep ==
    /\ Protocol /\ Ledger /\ Motion /\ Operated /\ Protocol' /\ [Next]_vars
    => [Trail!Next]_(Trail!vars)
<1> SUFFICES ASSUME Protocol, Ledger, Motion, Operated, Protocol', [Next]_vars
             PROVE  [Trail!Next]_(Trail!vars)
  OBVIOUS
<1>0. /\ UNCHANGED <<Intents, Movers, Fates, Open>> => UNCHANGED Trail!vars
      /\ \A c \in Commands :
            /\ Trail!Decline(c) <=>
                  /\ Open = NoCommand /\ c \notin Intents /\ Fates[c] = "none"
                  /\ \E said \in {"refused", "failed"} : Fates' = [Fates EXCEPT ![c] = said]
                  /\ UNCHANGED <<Intents, Movers, Open>>
            /\ Trail!Announce(c) <=>
                  /\ Open = NoCommand /\ c \notin Intents /\ Fates[c] = "none"
                  /\ Intents' = Intents \cup {c} /\ Open' = c
                  /\ UNCHANGED <<Movers, Fates>>
            /\ Trail!Operate(c) <=>
                  /\ Open = c /\ c \notin Movers /\ Movers' = Movers \cup {c}
                  /\ UNCHANGED <<Intents, Fates, Open>>
            /\ Trail!Conclude(c) <=>
                  /\ Open = c
                  /\ \E said \in {"applied", "failed"} :
                        (said = "applied" => c \in Movers) /\ Fates' = [Fates EXCEPT ![c] = said]
                  /\ Open' = NoCommand
                  /\ UNCHANGED <<Intents, Movers>>
      /\ Trail!Abandon <=>
            Open # NoCommand /\ Open' = NoCommand /\ UNCHANGED <<Intents, Movers, Fates>>
  BY DEF Intents, Movers, Fates, Open, Trail!vars, Trail!Decline, Trail!Announce,
         Trail!Operate, Trail!Conclude, Trail!Abandon
<1> DEFINE Kept == UNCHANGED <<Intents, Movers, Fates, Open>>
<1> HIDE DEF Kept
<1>1. ASSUME Kept PROVE [Trail!Next]_(Trail!vars)
  BY <1>0, <1>1 DEF Kept
<1>2. UNCHANGED journal => UNCHANGED <<Intents, Fates>>
  BY DEF Intents, Fates, HasStatus, OutcomeOf
<1>3. UNCHANGED moves => UNCHANGED Movers
  BY DEF Movers
<1>4. ASSUME UNCHANGED <<journal, moves>>,
             \A s \in Threads : \/ UNCHANGED <<pc[s], command[s]>>
                                \/ pc[s] \notin Issued /\ pc'[s] \notin Issued
      PROVE  [Trail!Next]_(Trail!vars)
  <2>1. UNCHANGED Open
    <3>1. CASE \A s \in Threads : pc[s] \notin Issued
      <4>1. \A s \in Threads : pc'[s] \notin Issued
        BY <1>4, <3>1
      <4> QED
        BY <3>1, <4>1, OpenNow, OpenNext
    <3>2. ASSUME NEW s \in Threads, pc[s] \in Issued PROVE UNCHANGED Open
      <4>1. UNCHANGED <<pc[s], command[s]>>
        BY <1>4, <3>2
      <4> QED
        BY <3>2, <4>1, OpenNow, OpenNext
    <3> QED
      BY <3>1, <3>2
  <2> QED
    BY <1>1, <1>2, <1>3, <1>4, <2>1 DEF Kept
<1>5. ASSUME NEW t \in Threads, pc[t] \in Inside
      PROVE  /\ command[t] \in Commands /\ command[t] # NoCommand
             /\ \A s \in Threads : s # t => pc[s] \notin Inside
             /\ pc[t] = "deciding" => Open = NoCommand
             /\ pc[t] \in Issued => Open = command[t]
  <2>1. /\ command[t] \in Commands
        /\ \A s \in Threads : s # t => pc[s] \notin Inside
    BY <1>5 DEF Protocol, Carrying, Gated, Inside
  <2>2. command[t] # NoCommand
    BY <2>1, GuardAssumption DEF GuardAssumption
  <2>3. pc[t] = "deciding" => \A s \in Threads : pc[s] \notin Issued
    BY <2>1 DEF Inside, Issued
  <2> QED
    BY <2>1, <2>2, <2>3, OpenNow
<1>6. ASSUME NEW t \in Threads, pc[t] \in Inside, NEW said, Leave(t, said)
      PROVE  /\ Open' = NoCommand
             /\ \A s \in Threads : s # t => UNCHANGED <<pc[s], command[s]>>
             /\ pc'[t] = "idle"
  <2>1. /\ \A s \in Threads : s # t => UNCHANGED <<pc[s], command[s]>>
        /\ pc'[t] = "idle"
    BY <1>6 DEF Leave, Goto, Protocol, TypeOK
  <2>2. \A s \in Threads : pc'[s] \notin Issued
    BY <1>5, <1>6, <2>1 DEF Inside, Issued
  <2> QED
    BY <2>1, <2>2, OpenNext
<1>7. ASSUME NEW t \in Threads, pc[t] \in Inside, NEW said, Leave(t, said),
             UNCHANGED <<journal, moves>>
      PROVE  [Trail!Next]_(Trail!vars)
  <2>1. CASE pc[t] = "deciding"
    BY <1>4, <1>6, <1>7, <2>1 DEF Issued
  <2>2. CASE pc[t] \in Issued
    <3>1. Trail!Abandon
      BY <1>0, <1>2, <1>3, <1>5, <1>6, <1>7, <2>2
    <3> QED
      BY <3>1 DEF Trail!Next
  <2> QED
    BY <1>7, <2>1, <2>2 DEF Inside, Issued
<1>8. ASSUME NEW t \in Threads, pc[t] = "deciding", NEW status \in {REFUSED, FAILED},
             Record(t, status), UNCHANGED moves
      PROVE  [Trail!Next]_(Trail!vars)
  <2>1. pc[t] \in Inside
    BY <1>8 DEF Inside
  <2>2. CASE journal' = Store(journal, Row(t, status)) /\ Leave(t, status)
    <3>1. Intents' = Intents /\ Fates' = [Fates EXCEPT ![command[t]] = status]
      BY <2>1, <2>2, FateStored
    <3>2. status \in {"refused", "failed"}
      BY DEF REFUSED, FAILED
    <3>3. Open' = NoCommand /\ Open = NoCommand
      BY <1>5, <1>6, <1>8, <2>1, <2>2
    <3>4. Trail!Decline(command[t]) /\ command[t] \in Commands
      BY <1>0, <1>3, <1>8, <3>1, <3>2, <3>3, Undecided
    <3> QED
      BY <3>4 DEF Trail!Next
  <2>3. CASE Leave(t, "raised") /\ UNCHANGED journal
    BY <1>7, <1>8, <2>1, <2>3
  <2> QED
    BY <1>8, <2>2, <2>3 DEF Record
<1>9. ASSUME NEW t \in Threads, pc[t] \in {"applied", "failed"}, NEW status \in {APPLIED, FAILED},
             status = APPLIED => pc[t] = "applied", Record(t, status), UNCHANGED moves
      PROVE  [Trail!Next]_(Trail!vars)
  <2>1. pc[t] \in Inside /\ pc[t] \in Issued
    BY <1>9 DEF Inside, Issued
  <2>2. CASE journal' = Store(journal, Row(t, status)) /\ Leave(t, status)
    <3>1. Intents' = Intents /\ Fates' = [Fates EXCEPT ![command[t]] = status]
      BY <2>1, <2>2, FateStored
    <3>2. /\ status \in {"applied", "failed"}
          /\ status = "applied" => command[t] \in Movers
      BY <1>9 DEF Operated, APPLIED, FAILED
    <3>3. Open' = NoCommand /\ Open = command[t]
      BY <1>5, <1>6, <2>1, <2>2
    <3>4. Trail!Conclude(command[t]) /\ command[t] \in Commands
      BY <1>0, <1>3, <1>5, <1>9, <2>1, <3>1, <3>2, <3>3
    <3> QED
      BY <3>4 DEF Trail!Next
  <2>3. CASE Leave(t, "raised") /\ UNCHANGED journal
    BY <1>7, <1>9, <2>1, <2>3
  <2> QED
    BY <1>9, <2>2, <2>3 DEF Record
<1>10. ASSUME NEW t \in Threads, NEW c \in Commands, Submit(t, c)
       PROVE  [Trail!Next]_(Trail!vars)
  BY <1>4, <1>10 DEF Submit, Goto, history, Issued, Protocol, TypeOK
<1>11. ASSUME NEW t \in Threads, Enter(t) PROVE [Trail!Next]_(Trail!vars)
  BY <1>4, <1>11 DEF Enter, Goto, history, Issued, Protocol, TypeOK
<1>12. ASSUME NEW t \in Threads,
              RefuseUnpermitted(t) \/ FailUnwired(t) \/ RefuseTooSoon(t)
       PROVE  [Trail!Next]_(Trail!vars)
  BY <1>8, <1>12 DEF RefuseUnpermitted, FailUnwired, RefuseTooSoon, InGate, history
<1>13. ASSUME NEW t \in Threads, Issue(t) PROVE [Trail!Next]_(Trail!vars)
  <2>1. pc[t] = "deciding" /\ pc[t] \in Inside /\ UNCHANGED moves
    BY <1>13 DEF Issue, InGate, Inside
  <2>2. CASE journal' = Store(journal, Row(t, ISSUED)) /\ Goto(t, "writing")
             /\ UNCHANGED command
    <3>1. Intents' = Intents \cup {command[t]} /\ Fates' = Fates
      BY <2>1, <2>2, IntentStored
    <3>2. pc'[t] \in Issued
      BY <2>2 DEF Goto, Issued, Protocol, TypeOK
    <3>3. Open' = command[t] /\ Open = NoCommand
      BY <1>5, <2>1, <2>2, <3>2, OpenNext
    <3>4. Trail!Announce(command[t]) /\ command[t] \in Commands
      BY <1>0, <1>3, <2>1, <3>1, <3>3, Undecided
    <3> QED
      BY <3>4 DEF Trail!Next
  <2>3. CASE Leave(t, "raised") /\ UNCHANGED journal
    BY <1>7, <2>1, <2>3
  <2> QED
    BY <1>13, <2>2, <2>3 DEF Issue
<1>14. ASSUME NEW t \in Threads, WriteAcknowledged(t) \/ WriteFailed(t)
       PROVE  [Trail!Next]_(Trail!vars)
  <2>1. /\ pc[t] = "writing" /\ pc[t] \in Inside /\ pc[t] \in Issued
        /\ pc'[t] \in Issued
        /\ UNCHANGED <<command, journal>>
        /\ UNCHANGED moves \/ Move(t)
    BY <1>14 DEF WriteAcknowledged, WriteFailed, InGate, Goto, Inside, Issued, Protocol, TypeOK
  <2>2. Open = command[t] /\ UNCHANGED Open
    BY <1>5, <2>1, OpenNext
  <2>3. CASE UNCHANGED moves
    BY <1>1, <1>2, <1>3, <2>1, <2>2, <2>3 DEF Kept
  <2>4. CASE Move(t)
    <3>1. command[t] \notin Movers
      BY <2>1 DEF Motion, LastMove, Movers
    <3>2. Movers' = Movers \cup {command[t]}
      BY <2>4, Moved
    <3>3. PICK c \in Commands : c = command[t]
      BY <1>5, <2>1
    <3>4. UNCHANGED <<Intents, Fates>>
      BY <1>2, <2>1
    <3>5. Trail!Operate(c)
      BY <1>0, <2>2, <3>1, <3>2, <3>3, <3>4
    <3> QED
      BY <3>5 DEF Trail!Next
  <2> QED
    BY <2>1, <2>3, <2>4
<1>15. ASSUME NEW t \in Threads, WriteEscapes(t) PROVE [Trail!Next]_(Trail!vars)
  BY <1>7, <1>15 DEF WriteEscapes, InGate, Inside, history
<1>16. ASSUME NEW t \in Threads, RecordApplied(t) \/ RecordFailed(t)
       PROVE  [Trail!Next]_(Trail!vars)
  BY <1>9, <1>16 DEF RecordApplied, RecordFailed, InGate, history, APPLIED, FAILED
<1>17. CASE Crash
  <2>1. Open' = NoCommand
    BY <1>17, OpenNext DEF Crash, Issued
  <2>2. UNCHANGED <<Intents, Movers, Fates>>
    BY <1>2, <1>3, <1>17 DEF Crash, history
  <2>3. CASE Open = NoCommand
    BY <1>1, <2>1, <2>2, <2>3 DEF Kept
  <2>4. CASE Open # NoCommand
    <3>1. Trail!Abandon
      BY <1>0, <2>1, <2>2, <2>4
    <3> QED
      BY <3>1 DEF Trail!Next
  <2> QED
    BY <2>3, <2>4
<1>18. CASE Boot \/ Tick \/ SetClock \/ UNCHANGED vars
  BY <1>4, <1>18 DEF Boot, Tick, SetClock, vars, memory, history
<1> QED
  BY <1>10, <1>11, <1>12, <1>13, <1>14, <1>15, <1>16, <1>17, <1>18 DEF Next, Proceed

\* The guard implements the trail it promises: one command open at a time, announced
\* before it moves anything, moved at most once, concluded at most once, and "applied"
\* only if the relay was operated (ControlService._execute).
THEOREM ContractKept == Spec => Contract
<1>1. Spec => []Operated
  BY OperatedInit, OperatedStep, Protocols, PTL DEF Spec
<1>2. Spec => []Motion
  BY MotionInit, MotionStep, Protocols, Ledgers, Spacings, PTL DEF Spec
<1> QED
  BY <1>1, <1>2, TrailInit, TrailStep, Protocols, Ledgers, PTL DEF Spec, Contract, Trail!Spec
=============================================================================
