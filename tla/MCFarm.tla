------------------------------- MODULE MCFarm -------------------------------
(* Instance of FrameAcceptanceReporting for TLC. *)
EXTENDS FrameAcceptanceReporting

\* Numbers that hit every event: expected, inside the window of width 2,
\* beyond it, behind V(R), and the far end of the number space.
MCSeqNumbers == {0, 1, 2, 3, 255}
=============================================================================
