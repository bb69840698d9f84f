------------------------------ MODULE MCRecorder ------------------------------
(***************************************************************************)
(* Small instances of Recorder for TLC: the recorder of the timer and one  *)
(* run by hand, two sensors, and a configuration that may be edited.       *)
(***************************************************************************)
EXTENDS Recorder, TLC

CONSTANTS timer, hand, before, after

MCPlan == <<1, 2>>

\* The timer runs --once, the person --interval with --cycles.
MCCycles == [r \in Recorders |-> IF r = timer THEN 1 ELSE 2]

Symmetry == Permutations(Configs)
===============================================================================
