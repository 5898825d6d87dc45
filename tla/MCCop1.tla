------------------------------- MODULE MCCop1 -------------------------------
(* Instance of Cop1 for TLC, with a bound on how often the user interferes. *)
EXTENDS Cop1, TLC

CONSTANT MaxInterventions   \* bound on the steps that are Intervenes

VARIABLE interventions

\* The user does more than start and end the service and have frames sent.
Intervenes ==
  \/ limit' # limit \/ width' # width \/ vouched' # vouched
  \/ Fop!InitiateAdUnlock \/ Fop!ResumeAdService

MCInit == CopInit /\ interventions = 0

MCNext ==
  /\ CopNext
  /\ interventions' = IF Intervenes THEN interventions + 1 ELSE interventions
  /\ interventions' <= MaxInterventions

MCSpec == MCInit /\ [][MCNext]_<<copVars, interventions>>

\* The slots are alike: nothing but the frames they hold tells them apart.
SlotSymmetry == Permutations(Slots)
=============================================================================
