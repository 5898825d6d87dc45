-------------------------------- MODULE MCFop --------------------------------
(* Instance of FrameOperationProcedure for TLC. *)
EXTENDS FrameOperationProcedure, TLC

\* The slots are alike: nothing but the frames they hold tells them apart.
SlotSymmetry == Permutations(Slots)
=============================================================================
