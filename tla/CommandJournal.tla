--------------------------- MODULE CommandJournal ---------------------------
(***************************************************************************)
(* The durable command journal, backend/src/geopilot/sqlite_journal.py, as *)
(* operators on a sequence of records: index i is the row whose `seq` is   *)
(* the i-th written.                                                       *)
(***************************************************************************)
EXTENDS Integers, Sequences

ISSUED  == "issued"
APPLIED == "applied"
REFUSED == "refused"
FAILED  == "failed"

CommandStatus == {ISSUED, APPLIED, REFUSED, FAILED}

\* "No previous operation is known": the None of last_applied_at and _remember.
Never == -1

CommandRecord(Ids, Names) ==
    [command_id: Ids, target_id: Names, status: CommandStatus, decided_at: Nat]

\* Mutant: the intent is stored under the command's own id.
RowKeyPlain(record) == <<record.command_id, FALSE>>

\* command_id is UNIQUE; the guard stores an intent under "<id>/issued".
RowKey(record) == <<record.command_id, record.status = ISSUED>>

Holds(journal, key) == \E i \in DOMAIN journal : RowKey(journal[i]) = key

\* INSERT OR IGNORE: a row whose key is already there is dropped in silence.
Store(journal, record) ==
    IF Holds(journal, RowKey(record)) THEN journal ELSE Append(journal, record)

HasStatus(journal, id, status) ==
    \E i \in DOMAIN journal : /\ journal[i].command_id = id
                              /\ journal[i].status = status

AppliedRows(journal, target) ==
    {i \in DOMAIN journal : /\ journal[i].target_id = target
                            /\ journal[i].status = APPLIED}

Latest(rows) == CHOOSE i \in rows : \A k \in rows : k <= i

\* WHERE target_id = ? AND status = 'applied' ORDER BY seq DESC LIMIT 1
LastAppliedAt(journal, target) ==
    LET rows == AppliedRows(journal, target)
    IN  IF rows = {} THEN Never ELSE journal[Latest(rows)].decided_at

\* The commands announced to the bus whose fate the journal does not tell.
Unresolved(journal, Ids) ==
    {id \in Ids : /\ HasStatus(journal, id, ISSUED)
                  /\ ~Holds(journal, <<id, FALSE>>)}
=============================================================================
