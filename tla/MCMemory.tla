------------------------------- MODULE MCMemory -------------------------------
(* Three turns, the middle one longer than the others, so that its line crosses chunks *)
(* and a watermark left over from another log can fall inside a line.                  *)
EXTENDS Memory, TLC

MCTurns == 1..3
MCSize == <<1, 2, 1>>

Symmetry == Permutations(Workers)
=============================================================================
