--------------------------- MODULE MCDraftEvents ---------------------------
(***************************************************************************)
(* Small instances of the draft's event path for TLC.                      *)
(***************************************************************************)
EXTENDS DraftEvents, TLC

\* The goroutines that serve requests are interchangeable.
MCSymmetry == Permutations(Handlers)
=============================================================================
