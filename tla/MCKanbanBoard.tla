--------------------------- MODULE MCKanbanBoard ---------------------------
(* KanbanBoard with ranks of two digits instead of twelve and a gap of two  *)
(* instead of 65536, so that a few moves use up the gap between two cards.  *)
(* The stages are interchangeable.                                          *)
EXTENDS KanbanBoard, TLC

Symmetry == Permutations(Stages)
=============================================================================
