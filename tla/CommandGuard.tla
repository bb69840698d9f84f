---------------------------- MODULE CommandGuard ----------------------------
(***************************************************************************)
(* The command guard (ControlService, backend/src/geopilot/control.py) as  *)
(* the control surface runs it: one request thread per connection, one     *)
(* durable journal, relays on a serial bus, and a service manager that     *)
(* restarts the process.  A relay's position is not part of the state: the *)
(* guard never looks at it.  What matters is when its coil was written.    *)
(***************************************************************************)
EXTENDS CommandJournal

CONSTANTS
    Threads,          \* request threads of the surface
    Commands,         \* command ids, each drawn fresh for one request
    Targets,          \* whitelisted relays
    Requested,        \* target ids that callers name, whitelisted or not
    MinimumInterval,  \* seconds a relay must rest between two operations
    Setups,           \* configurations the process may be started with
    Faults,           \* which of the faults below may happen
    Horizon,          \* the wall clock stays within 0..Horizon
    NoThread, NoCommand

(***************************************************************************)
(* "crash"   the process ends at any point (fault, signal, power loss)     *)
(* "append"  the journal cannot take a record and raises                   *)
(* "read"    the journal cannot answer last_applied_at                     *)
(* "echo"    the device obeys and its echo is lost or damaged              *)
(* "open"    the serial port cannot be opened for the write                *)
(* "clock"   the host's wall clock is set, forwards or backwards           *)
(***************************************************************************)
AllFaults == {"crash", "append", "read", "echo", "open", "clock"}

ASSUME GuardAssumption ==
    /\ MinimumInterval \in [Targets -> Nat]
    /\ Setups \subseteq [enabled: BOOLEAN, transport: BOOLEAN]
    /\ Setups # {}
    /\ Faults \subseteq AllFaults
    /\ Horizon \in Nat
    /\ NoThread \notin Threads
    /\ NoCommand \notin Commands

VARIABLES
    up,          \* the surface process runs
    setup,       \* policy.enabled and "a transport is configured", as started
    gate,        \* holder of ControlService._gate, or NoThread
    pc,          \* control point of each request thread
    command,     \* the command a thread carries, or NoCommand
    now,         \* the clock reading each thread took on entering the gate
    cache,       \* ControlService._last_applied, Never for an absent key
    journal,     \* the rows on disk
    wall,        \* the host's wall clock
    aim,         \* the target each command names
    answer,      \* what the caller of each command has been told
    moves,       \* history: coil writes the device obeyed, in order
    unanswered,  \* history: targets decided on without an answer of the journal
    stepped      \* history: the wall clock has been set

memory  == <<up, setup, gate, pc, command, now, cache>>
history == <<moves, unanswered, stepped>>
vars    == <<memory, journal, wall, aim, answer, history>>

Controls == {"idle", "queued", "deciding", "writing", "applied", "failed"}
Answers  == {"unsent", "pending", "raised", "lost", APPLIED, REFUSED, FAILED}

-----------------------------------------------------------------------------
Init ==
    /\ up = TRUE
    /\ setup \in Setups
    /\ gate = NoThread
    /\ pc = [t \in Threads |-> "idle"]
    /\ command = [t \in Threads |-> NoCommand]
    /\ now = [t \in Threads |-> 0]
    /\ cache = [g \in Targets |-> Never]
    /\ journal = <<>>
    /\ wall = 0
    /\ aim \in [Commands -> Requested]
    /\ answer = [c \in Commands |-> "unsent"]
    /\ moves = <<>>
    /\ unanswered = {}
    /\ stepped = FALSE

Row(t, status) == [command_id |-> command[t], target_id  |-> aim[command[t]],
                   status     |-> status,     decided_at |-> now[t]]

\* Only the gate keeps a second thread out: past it, a thread runs without looking.
InGate(t, control) == up /\ pc[t] = control

Goto(t, control) == pc' = [pc EXCEPT ![t] = control]

\* The thread leaves execute(), by return or by exception, and its caller learns
\* `said`: "raised" is a dropped connection, there being no handler for it.
Leave(t, said) ==
    /\ Goto(t, "idle")
    /\ gate' = NoThread
    /\ answer' = [answer EXCEPT ![command[t]] = said]
    /\ command' = [command EXCEPT ![t] = NoCommand]
    /\ now' = [now EXCEPT ![t] = 0]

\* _record: the caller gets the record only if the journal took it.
Record(t, status) ==
    \/ /\ journal' = Store(journal, Row(t, status))
       /\ Leave(t, status)
    \/ /\ "append" \in Faults
       /\ UNCHANGED journal
       /\ Leave(t, "raised")

-----------------------------------------------------------------------------
\* ControlSurface.command: a well-formed body becomes a command with a new id.
Submit(t, c) ==
    /\ up
    /\ pc[t] = "idle"
    /\ answer[c] = "unsent"
    /\ command' = [command EXCEPT ![t] = c]
    /\ answer' = [answer EXCEPT ![c] = "pending"]
    /\ Goto(t, "queued")
    /\ UNCHANGED <<up, setup, gate, now, cache, journal, wall, aim, history>>

\* Mutant: the gate is not taken.
EnterUngated(t) ==
    /\ up
    /\ pc[t] = "queued"
    /\ gate' = t
    /\ now' = [now EXCEPT ![t] = wall]
    /\ Goto(t, "deciding")
    /\ UNCHANGED <<up, setup, command, cache, journal, wall, aim, answer, history>>

\* Mutant: the reading is backdated.
EnterBackdated(t) ==
    /\ up
    /\ pc[t] = "queued"
    /\ gate = NoThread
    /\ gate' = t
    /\ now' = [now EXCEPT ![t] = wall - 1]
    /\ Goto(t, "deciding")
    /\ UNCHANGED <<up, setup, command, cache, journal, wall, aim, answer, history>>

\* `with self._gate:` and the one clock reading the whole decision uses.
Enter(t) ==
    /\ up
    /\ pc[t] = "queued"
    /\ gate = NoThread
    /\ gate' = t
    /\ now' = [now EXCEPT ![t] = wall]
    /\ Goto(t, "deciding")
    /\ UNCHANGED <<up, setup, command, cache, journal, wall, aim, answer, history>>

Permitted(t) == setup.enabled /\ aim[command[t]] \in Targets

\* control_disabled, unknown_target
RefuseUnpermitted(t) ==
    /\ InGate(t, "deciding")
    /\ ~Permitted(t)
    /\ Record(t, REFUSED)
    /\ UNCHANGED <<up, setup, cache, wall, aim, history>>

FailUnwired(t) ==
    /\ InGate(t, "deciding")
    /\ Permitted(t)
    /\ ~setup.transport
    /\ Record(t, FAILED)
    /\ UNCHANGED <<up, setup, cache, wall, aim, history>>

\* Mutant: the interval lives in memory alone.
RememberedInMemory(g, readable) == cache[g]

\* _remember: the process's own memory first, the journal only when it is empty.
Remembered(g, readable) ==
    IF cache[g] # Never THEN cache[g]
    ELSE IF readable THEN LastAppliedAt(journal, g) ELSE Never

\* Mutant: a clock that went back frees the relay.
RateLimitedForward(g, at, previous) ==
    previous # Never /\ at - previous \in 0..(MinimumInterval[g] - 1)

\* An elapsed time that is negative, the clock having gone back, is too short too.
RateLimited(g, at, previous) ==
    previous # Never /\ at - previous < MinimumInterval[g]

\* What both branches of the rate limit do first: _remember, and its caching.
Recall(g, readable) ==
    /\ readable \/ "read" \in Faults
    /\ cache' = [cache EXCEPT ![g] = Remembered(g, readable)]
    /\ unanswered' = IF cache[g] = Never /\ ~readable
                     THEN unanswered \cup {g} ELSE unanswered

RefuseTooSoon(t) ==
    LET g == aim[command[t]] IN
    /\ InGate(t, "deciding")
    /\ Permitted(t)
    /\ setup.transport
    /\ \E readable \in BOOLEAN :
          /\ Recall(g, readable)
          /\ RateLimited(g, now[t], Remembered(g, readable))
    /\ Record(t, REFUSED)
    /\ UNCHANGED <<up, setup, wall, aim, moves, stepped>>

\* Mutant: a journal that cannot take the intent does not stop the command.
IssueAnyway(t) ==
    LET g == aim[command[t]] IN
    /\ InGate(t, "deciding")
    /\ Permitted(t)
    /\ setup.transport
    /\ \E readable \in BOOLEAN :
          /\ Recall(g, readable)
          /\ ~RateLimited(g, now[t], Remembered(g, readable))
    /\ \/ journal' = Store(journal, Row(t, ISSUED))
       \/ "append" \in Faults /\ UNCHANGED journal
    /\ Goto(t, "writing")
    /\ UNCHANGED <<up, setup, gate, command, now, wall, aim, answer, moves, stepped>>

\* The intent goes to disk, or the command ends before any hardware moves.
Issue(t) ==
    LET g == aim[command[t]] IN
    /\ InGate(t, "deciding")
    /\ Permitted(t)
    /\ setup.transport
    /\ \E readable \in BOOLEAN :
          /\ Recall(g, readable)
          /\ ~RateLimited(g, now[t], Remembered(g, readable))
    /\ \/ /\ journal' = Store(journal, Row(t, ISSUED))
          /\ Goto(t, "writing")
          /\ UNCHANGED <<gate, command, now, answer>>
       \/ /\ "append" \in Faults
          /\ Leave(t, "raised")
          /\ UNCHANGED journal
    /\ UNCHANGED <<up, setup, wall, aim, moves, stepped>>

\* The device adopts the state in the frame.
Move(t) == moves' = Append(moves, [command_id |-> command[t], at |-> wall])

\* Mutant: whatever comes back counts as the echo.
WriteAssumed(t) ==
    /\ InGate(t, "writing")
    /\ UNCHANGED moves \/ Move(t)
    /\ Goto(t, "applied")
    /\ UNCHANGED <<up, setup, gate, command, now, cache, journal, wall, aim, answer,
                   unanswered, stepped>>

WriteAcknowledged(t) ==
    /\ InGate(t, "writing")
    /\ Move(t)
    /\ Goto(t, "applied")
    /\ UNCHANGED <<up, setup, gate, command, now, cache, journal, wall, aim, answer,
                   unanswered, stepped>>

\* ModbusWriteError.  Either nothing moved (the port lock stayed busy, the frame
\* was not sent whole, the device answered with an exception), or the device
\* obeyed and only its echo is missing: the guard cannot tell which.
WriteFailed(t) ==
    /\ InGate(t, "writing")
    /\ \/ UNCHANGED moves
       \/ "echo" \in Faults /\ Move(t)
    /\ Goto(t, "failed")
    /\ UNCHANGED <<up, setup, gate, command, now, cache, journal, wall, aim, answer,
                   unanswered, stepped>>

\* Mutant: the gate is acquired and released by hand, not by `with`.
EscapeLocked(t) ==
    /\ InGate(t, "writing")
    /\ "open" \in Faults
    /\ Goto(t, "idle")
    /\ answer' = [answer EXCEPT ![command[t]] = "raised"]
    /\ command' = [command EXCEPT ![t] = NoCommand]
    /\ now' = [now EXCEPT ![t] = 0]
    /\ UNCHANGED <<up, setup, gate, cache, journal, wall, aim, history>>

\* SerialBus.write_coil opens the port itself, and open_serial_port raises
\* ModbusTransportError, which `except ModbusWriteError` does not catch.
WriteEscapes(t) ==
    /\ InGate(t, "writing")
    /\ "open" \in Faults
    /\ Leave(t, "raised")
    /\ UNCHANGED <<up, setup, cache, journal, wall, aim, history>>

\* The memory of the operation first, then its record.
RecordApplied(t) ==
    /\ InGate(t, "applied")
    /\ cache' = [cache EXCEPT ![aim[command[t]]] = now[t]]
    /\ Record(t, APPLIED)
    /\ UNCHANGED <<up, setup, wall, aim, history>>

\* A failed write leaves the window alone.
RecordFailed(t) ==
    /\ InGate(t, "failed")
    /\ Record(t, FAILED)
    /\ UNCHANGED <<up, setup, cache, wall, aim, history>>

-----------------------------------------------------------------------------
\* Everything in memory is gone; callers still waiting lose their connection.
Crash ==
    /\ "crash" \in Faults
    /\ up
    /\ up' = FALSE
    /\ gate' = NoThread
    /\ pc' = [t \in Threads |-> "idle"]
    /\ command' = [t \in Threads |-> NoCommand]
    /\ now' = [t \in Threads |-> 0]
    /\ cache' = [g \in Targets |-> Never]
    /\ answer' = [c \in Commands |->
                    IF answer[c] = "pending" THEN "lost" ELSE answer[c]]
    /\ UNCHANGED <<setup, journal, wall, aim, history>>

\* Restart=on-failure; the configuration may have been edited in between.
Boot ==
    /\ ~up
    /\ up' = TRUE
    /\ setup' \in Setups
    /\ UNCHANGED <<gate, pc, command, now, cache, journal, wall, aim, answer, history>>

Tick ==
    /\ wall < Horizon
    /\ wall' = wall + 1
    /\ UNCHANGED <<memory, journal, aim, answer, history>>

SetClock ==
    /\ "clock" \in Faults
    /\ wall' \in 0..Horizon
    /\ stepped' = TRUE
    /\ UNCHANGED <<memory, journal, aim, answer, moves, unanswered>>

-----------------------------------------------------------------------------
\* What a thread inside the gate does next.
Proceed(t) ==
    \/ RefuseUnpermitted(t)
    \/ FailUnwired(t)
    \/ RefuseTooSoon(t)
    \/ Issue(t)
    \/ WriteAcknowledged(t)
    \/ WriteFailed(t)
    \/ WriteEscapes(t)
    \/ RecordApplied(t)
    \/ RecordFailed(t)

Next ==
    \/ \E t \in Threads, c \in Commands : Submit(t, c)
    \/ \E t \in Threads : Enter(t) \/ Proceed(t)
    \/ Crash
    \/ Boot
    \/ Tick
    \/ SetClock

Spec == Init /\ [][Next]_vars

\* Every started thread keeps running, and each step of it ends: the lock wait,
\* the port wait and the serial read all have timeouts.  Nothing is assumed of
\* callers, the clock, crashes or restarts.
Fairness == \A t \in Threads : WF_vars(Enter(t)) /\ WF_vars(Proceed(t))

FairSpec == Spec /\ Fairness

-----------------------------------------------------------------------------
(* Properties. *)

\* Every variable holds a value the program could give it.
TypeOK ==
    /\ up \in BOOLEAN
    /\ setup \in Setups
    /\ gate \in Threads \cup {NoThread}
    /\ pc \in [Threads -> Controls]
    /\ command \in [Threads -> Commands \cup {NoCommand}]
    /\ now \in [Threads -> Nat]
    /\ cache \in [Targets -> Nat \cup {Never}]
    /\ journal \in Seq(CommandRecord(Commands, Requested))
    /\ wall \in 0..Horizon
    /\ aim \in [Commands -> Requested]
    /\ answer \in [Commands -> Answers]
    /\ moves \in Seq([command_id: Commands, at: Nat])
    /\ unanswered \in SUBSET Targets
    /\ stepped \in BOOLEAN

\* No relay ever moves without a trace: whatever crashes, and whatever the journal
\* refuses, the intent of each coil write the device obeyed is already on disk.
WriteAhead ==
    \A i \in DOMAIN moves : HasStatus(journal, moves[i].command_id, ISSUED)

\* The decisions recorded as applied to a relay lie at least its interval apart, in
\* the order they were written: across threads, restarts, lost outcome records and a
\* wall clock set in either direction.  The one exception is the documented one, a
\* journal that could not answer when the guard asked it.
AppliedSpaced ==
    \A g \in Targets \ unanswered : \A i, k \in AppliedRows(journal, g) :
        i < k => journal[k].decided_at - journal[i].decided_at >= MinimumInterval[g]

\* As long as the clock only ticks, an operation on record protects its relay: the
\* coil is not written again until the interval has passed since that decision,
\* even by a process that was restarted in between.
RecordedMoveRests ==
    ~stepped =>
        \A i, k \in DOMAIN moves : \A n \in DOMAIN journal :
            LET g == aim[moves[i].command_id] IN
            (/\ i < k
             /\ aim[moves[k].command_id] = g
             /\ g \notin unanswered
             /\ journal[n].command_id = moves[i].command_id
             /\ journal[n].status = APPLIED)
            => moves[k].at - journal[n].decided_at >= MinimumInterval[g]

\* A caller is never told an outcome the journal does not hold: "what did it say
\* to me" and "what does the audit say" cannot differ.
AnswerOnDisk ==
    \A c \in Commands : answer[c] \in {APPLIED, REFUSED, FAILED}
                           => HasStatus(journal, c, answer[c])

\* The trail can be read pair by pair: the outcome of an issued command is the very
\* next row, and an applied row never stands without its intent.
OutcomeFollowsIntent ==
    \A i, k \in DOMAIN journal :
        /\ (/\ journal[i].status = ISSUED
            /\ journal[k].status # ISSUED
            /\ journal[i].command_id = journal[k].command_id) => k = i + 1
        /\ journal[k].status = APPLIED =>
              k > 1 /\ RowKey(journal[k - 1]) = <<journal[k].command_id, TRUE>>

\* The guard implements the audit trail it promises (AuditTrail.tla): what is open
\* is the command of the thread between its intent and its outcome.
OutcomeOf(c) ==
    IF HasStatus(journal, c, APPLIED) THEN APPLIED
    ELSE IF HasStatus(journal, c, REFUSED) THEN REFUSED
    ELSE IF HasStatus(journal, c, FAILED) THEN FAILED ELSE "none"

OnTheBus(t) == gate = t /\ pc[t] \in {"writing", "applied", "failed"}

Trail == INSTANCE AuditTrail WITH
    announced <- {c \in Commands : HasStatus(journal, c, ISSUED)},
    moved     <- {moves[i].command_id : i \in DOMAIN moves},
    outcome   <- [c \in Commands |-> OutcomeOf(c)],
    open      <- IF \E t \in Threads : OnTheBus(t)
                 THEN command[CHOOSE t \in Threads : OnTheBus(t)] ELSE NoCommand

Contract == Trail!Spec

\* Nobody waits for ever: every caller gets an answer or loses the connection,
\* whichever step of the command fails, raises or dies while the gate is held.
EveryCallerReleased ==
    \A c \in Commands : answer[c] = "pending" ~> answer[c] # "pending"

(* What documents of the repository say of the guard, and the code does not do. *)

\* "an ISSUED with no matching outcome IS the evidence of the crash": outside the
\* gate, such a row is left only by a process that ended.
UnresolvedMeansCrash ==
    \A c \in Unresolved(journal, Commands) : answer[c] \in {"pending", "lost"}

\* "No target may be operated more often than its configured minimum interval."
NotOperatedTooOften ==
    ~stepped => \A i, k \in DOMAIN moves :
        LET g == aim[moves[i].command_id] IN
        (i < k /\ aim[moves[k].command_id] = g)
            => moves[k].at - moves[i].at >= MinimumInterval[g]
=============================================================================
