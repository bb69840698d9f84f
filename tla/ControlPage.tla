----------------------------- MODULE ControlPage -----------------------------
(***************************************************************************)
(* One page of the control surface in a browser, assets/control.js, and    *)
(* the service behind it: control_server.py, geopilot_control.py.  The     *)
(* service answers every request on a thread of its own; a thread reads    *)
(* the coil, then the journal, and what the page shows is that reading.    *)
(* The guard is the service of CommandGuard, seen from outside: it refuses *)
(* a command, or records the intent, operates the coil, and records the    *)
(* outcome, one command at a time.                                         *)
(***************************************************************************)
EXTENDS Integers, SequencesExt

CONSTANTS
    Hand,          \* who moves the coil besides the commands
    NoPicture,     \* nothing drawn, or a failure
    Recent         \* the records a picture holds, 20 in the code

VARIABLES
    session,    \* the process of the service, which its token stands for
    coil,       \* history of the relay: its states and who moved it, the first its present
    journal,    \* the commands on record, one entry for each row
    gate,       \* the command that holds the gate of the guard, 0 for none
    page,       \* the page: its token, whether a refresh is in flight, the picture
    requests,   \* what is between the page and the service
    left        \* the bounds: commands, moves by hand, faults, restarts, loads left

pageVars == <<session, coil, journal, gate, page, requests, left>>

Idle == [session |-> 0, load |-> 0, inFlight |-> FALSE, picture |-> NoPicture]

PageInit(budget) ==
    /\ session = 1
    /\ coil = <<[closed |-> FALSE, by |-> Hand]>>
    /\ journal = <<>>
    /\ gate = 0
    /\ page = Idle
    /\ requests = {}
    /\ left = budget

Spend(what) ==
    /\ left[what] > 0
    /\ left' = [left EXCEPT ![what] = @ - 1]

\* The state of the coil is the last of its history.
Present == coil[Len(coil)]

\* A request of the page; step is how far it has come.
StateRequest == [kind |-> "state", id |-> 0, load |-> page.load, session |-> page.session,
                 step |-> "sent", picture |-> NoPicture, closed |-> FALSE]

Replace(r, s) == requests' = (requests \ {r}) \cup {s}

-------------------------------------------------------------------------------
(***************************************************************************)
(* The page.                                                               *)
(***************************************************************************)

\* The page is loaded with the token of the running service and asks at once.
Load ==
    /\ Spend("loads")
    /\ page' = [session |-> session, load |-> page.load + 1, inFlight |-> TRUE,
                picture |-> NoPicture]
    /\ requests' = requests \cup {[StateRequest EXCEPT !.load = page.load + 1,
                                                       !.session = session]}
    /\ UNCHANGED <<session, coil, journal, gate>>

\* Mutant: without the guard, a refresh overtakes another.
RefreshAlways ==
    /\ page.load > 0
    /\ Cardinality({r \in requests : r.kind = "state"}) < 2
    /\ page' = [page EXCEPT !.inFlight = TRUE]
    /\ requests' = requests \cup {[StateRequest EXCEPT !.id = Cardinality(requests)]}
    /\ UNCHANGED <<session, coil, journal, gate, left>>

\* refresh, by the timer: nothing while another is in flight.
Refresh ==
    /\ page.load > 0
    /\ ~page.inFlight
    /\ page' = [page EXCEPT !.inFlight = TRUE]
    /\ requests' = requests \cup {StateRequest}
    /\ UNCHANGED <<session, coil, journal, gate, left>>

\* send: a button of the picture, a reason and a confirmation.
Send(closed) ==
    /\ page.picture # NoPicture
    /\ page.picture.enabled
    /\ Spend("commands")
    /\ requests' = requests \cup {[StateRequest EXCEPT !.kind = "command", !.closed = closed,
                                                       !.id = left.commands]}
    /\ UNCHANGED <<session, coil, journal, gate, page>>

\* drawTargets, with the answer of the service; a refusal is shown instead.
Draw(r) ==
    /\ r \in requests
    /\ r.kind = "state" /\ r.step = "answered"
    /\ requests' = requests \ {r}
    /\ page' = IF r.load = page.load
               THEN [page EXCEPT !.inFlight = FALSE, !.picture = r.picture]
               ELSE page
    /\ UNCHANGED <<session, coil, journal, gate, left>>

\* Mutant: the flag is cleared only behind an answer.
FetchFailsFlagged(r) ==
    /\ r \in requests
    /\ r.step = "dead"
    /\ requests' = requests \ {r}
    /\ page' = IF r.kind = "state" /\ r.load = page.load
               THEN [page EXCEPT !.picture = NoPicture]
               ELSE page
    /\ UNCHANGED <<session, coil, journal, gate, left>>

\* The fetch rejects: the picture is cleared, and finally the flag.
FetchFails(r) ==
    /\ r \in requests
    /\ r.step = "dead"
    /\ requests' = requests \ {r}
    /\ page' = IF r.kind = "state" /\ r.load = page.load
               THEN [page EXCEPT !.inFlight = FALSE, !.picture = NoPicture]
               ELSE page
    /\ UNCHANGED <<session, coil, journal, gate, left>>

\* send goes on: the answer is read out and a refresh begins, unless one is in flight.
Told(r) ==
    /\ r \in requests
    /\ r.kind = "command" /\ r.step = "answered"
    /\ IF r.load = page.load /\ ~page.inFlight
       THEN /\ page' = [page EXCEPT !.inFlight = TRUE]
            /\ requests' = (requests \ {r}) \cup {StateRequest}
       ELSE /\ page' = page
            /\ requests' = requests \ {r}
    /\ UNCHANGED <<session, coil, journal, gate, left>>

-------------------------------------------------------------------------------
(***************************************************************************)
(* The service.                                                            *)
(***************************************************************************)

\* _guard: a page of an earlier process has the wrong token.
Forbid(r) ==
    /\ r \in requests
    /\ r.step = "sent" /\ r.session # session
    /\ Replace(r, [r EXCEPT !.step = "answered"])
    /\ UNCHANGED <<session, coil, journal, gate, page, left>>

Reading(known, enabled) ==
    [known |-> known, closed |-> Present.closed, version |-> Len(coil), enabled |-> enabled,
     journal |-> <<>>, rows |-> 0]

\* state(), its targets: the coil is read, or it is unreachable.
ReadTargets(r, enabled) ==
    /\ r \in requests
    /\ r.kind = "state" /\ r.step = "sent" /\ r.session = session
    /\ \/ /\ Replace(r, [r EXCEPT !.step = "targets", !.picture = Reading(TRUE, enabled)])
          /\ left' = left
       \/ /\ Replace(r, [r EXCEPT !.step = "targets", !.picture = Reading(FALSE, enabled)])
          /\ Spend("faults")
    /\ UNCHANGED <<session, coil, journal, gate, page>>

\* recent
RecentOf(rows) ==
    SubSeq(rows, IF Len(rows) > Recent THEN Len(rows) - Recent + 1 ELSE 1, Len(rows))

\* state(), its journal, and the answer.
ReadJournal(r) ==
    /\ r \in requests
    /\ r.kind = "state" /\ r.step = "targets"
    /\ Replace(r, [r EXCEPT !.step = "answered", !.picture.journal = RecentOf(journal),
                                                 !.picture.rows = Len(journal)])
    /\ UNCHANGED <<session, coil, journal, gate, page, left>>

\* execute: a refusal is one record.
Refuse(r) ==
    /\ r \in requests
    /\ r.kind = "command" /\ r.step = "sent" /\ r.session = session
    /\ gate = 0
    /\ journal' = Append(journal, r.id)
    /\ Replace(r, [r EXCEPT !.step = "answered"])
    /\ UNCHANGED <<session, coil, gate, page, left>>

\* Mutant: the intent is left for later.
IntendSilently(r) ==
    /\ r \in requests
    /\ r.kind = "command" /\ r.step = "sent" /\ r.session = session
    /\ gate = 0
    /\ gate' = r.id
    /\ Replace(r, [r EXCEPT !.step = "intended"])
    /\ UNCHANGED <<session, coil, journal, page, left>>

\* execute: the intent, written ahead.
Intend(r) ==
    /\ r \in requests
    /\ r.kind = "command" /\ r.step = "sent" /\ r.session = session
    /\ gate = 0
    /\ gate' = r.id
    /\ journal' = Append(journal, r.id)
    /\ Replace(r, [r EXCEPT !.step = "intended"])
    /\ UNCHANGED <<session, coil, page, left>>

\* The coil write: done, or failed without a movement.
Operate(r) ==
    /\ r \in requests
    /\ r.step = "intended"
    /\ \/ coil' = Append(coil, [closed |-> r.closed, by |-> r.id]) /\ left' = left
       \/ coil' = coil /\ Spend("faults")
    /\ Replace(r, [r EXCEPT !.step = "operated"])
    /\ UNCHANGED <<session, journal, gate, page>>

\* The outcome, and the answer.
Conclude(r) ==
    /\ r \in requests
    /\ r.step = "operated"
    /\ journal' = Append(journal, r.id)
    /\ gate' = 0
    /\ Replace(r, [r EXCEPT !.step = "answered"])
    /\ UNCHANGED <<session, coil, page, left>>

\* The answer does not arrive; the thread has done its work.
Lose(r) ==
    /\ r \in requests
    /\ r.step = "answered"
    /\ Spend("faults")
    /\ Replace(r, [r EXCEPT !.step = "dead"])
    /\ UNCHANGED <<session, coil, journal, gate, page>>

\* The service is restarted: its threads end with it, and its token changes.
Restart ==
    /\ Spend("restarts")
    /\ session' = session + 1
    /\ gate' = 0
    /\ requests' = {[r EXCEPT !.step = IF @ = "answered" THEN @ ELSE "dead"] : r \in requests}
    /\ UNCHANGED <<coil, journal, page>>

\* The relay is moved at its panel.
ByHand(closed) ==
    /\ Spend("hands")
    /\ coil' = Append(coil, [closed |-> closed, by |-> Hand])
    /\ UNCHANGED <<session, journal, gate, page, requests>>

Serve(r, enabled) ==
    Forbid(r) \/ ReadTargets(r, enabled) \/ ReadJournal(r) \/ Refuse(r) \/ Intend(r)
    \/ Operate(r) \/ Conclude(r)

Receive(r) == Draw(r) \/ FetchFails(r) \/ Told(r)

PageNext(enabled) ==
    \/ Load \/ Refresh \/ \E closed \in BOOLEAN : Send(closed) \/ ByHand(closed)
    \/ \E r \in requests : Serve(r, enabled) \/ Receive(r) \/ Lose(r)
===============================================================================
