--------------------------- MODULE MCCommandGuard ---------------------------
(* Small instances of CommandGuard for TLC. *)
EXTENDS CommandGuard, TLC

CONSTANTS t1, t2, c1, c2, c3, damper, pump

MCInterval == [g \in Targets |-> IF g = damper THEN 2 ELSE 1]

\* Off, on, and on in a build that has no write transport.
MCSetups == {[enabled |-> FALSE, transport |-> TRUE],
             [enabled |-> TRUE,  transport |-> TRUE],
             [enabled |-> TRUE,  transport |-> FALSE]}

MCOn == {[enabled |-> TRUE, transport |-> TRUE]}

MCSymmetry == Permutations(Threads) \cup Permutations(Commands)
=============================================================================
