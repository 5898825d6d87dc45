--------------------------- MODULE MCTransmission ---------------------------
(***************************************************************************)
(* Instance of the sending side for TLC: a service channel sends TM frames *)
(* on board and TC frames on the ground, each with a pool of its own.      *)
(***************************************************************************)
EXTENDS TmTransmission, TcTransmission

VARIABLE link   \* what this end sends

mcVars == <<link, tmVars, tcVars>>

MCInit ==
  /\ link \in {"TC", "TM"}
  /\ TmInit
  /\ TcInit

MCNext ==
  /\ \/ link = "TM" /\ TmNext /\ UNCHANGED tcVars
     \/ link = "TC" /\ TcNext /\ UNCHANGED tmVars
  /\ UNCHANGED link

\* The fairness is that of the services of TmTransmission.
MCSpec == MCInit /\ [][MCNext]_mcVars /\ TmFairness
=============================================================================
