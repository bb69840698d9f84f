----------------------------- MODULE AuditTrail -----------------------------
(***************************************************************************)
(* What the command guard promises whoever reads the journal afterwards,   *)
(* with no threads, clock, storage or bus in it: one command is open at a  *)
(* time, it is announced before anything moves, it moves a relay at most   *)
(* once, its outcome is written at most once and only while it is open,    *)
(* and an outcome of "applied" means that the relay was operated.          *)
(***************************************************************************)
CONSTANTS Commands, NoCommand

VARIABLES announced,  \* commands whose intent is on disk
          moved,      \* commands whose coil write the device obeyed
          outcome,    \* the outcome on disk of each command, "none" without one
          open        \* the command between its intent and its outcome

vars == <<announced, moved, outcome, open>>

Outcomes == {"applied", "refused", "failed"}

Init ==
    /\ announced = {}
    /\ moved = {}
    /\ outcome = [c \in Commands |-> "none"]
    /\ open = NoCommand

\* Decided without reaching any hardware.
Decline(c) ==
    /\ open = NoCommand
    /\ c \notin announced
    /\ outcome[c] = "none"
    /\ \E said \in {"refused", "failed"} :
          outcome' = [outcome EXCEPT ![c] = said]
    /\ UNCHANGED <<announced, moved, open>>

Announce(c) ==
    /\ open = NoCommand
    /\ c \notin announced
    /\ outcome[c] = "none"
    /\ announced' = announced \cup {c}
    /\ open' = c
    /\ UNCHANGED <<moved, outcome>>

Operate(c) ==
    /\ open = c
    /\ c \notin moved
    /\ moved' = moved \cup {c}
    /\ UNCHANGED <<announced, outcome, open>>

Conclude(c) ==
    /\ open = c
    /\ \E said \in {"applied", "failed"} :
          /\ said = "applied" => c \in moved
          /\ outcome' = [outcome EXCEPT ![c] = said]
    /\ open' = NoCommand
    /\ UNCHANGED <<announced, moved>>

\* The command never gets an outcome: the evidence that something cut it short.
Abandon ==
    /\ open # NoCommand
    /\ open' = NoCommand
    /\ UNCHANGED <<announced, moved, outcome>>

Next == Abandon \/ \E c \in Commands :
            Decline(c) \/ Announce(c) \/ Operate(c) \/ Conclude(c)

Spec == Init /\ [][Next]_vars
=============================================================================
