---------------------------- MODULE MCReception ----------------------------
(***************************************************************************)
(* Instance of the receiving side for TLC: a service channel receives TC   *)
(* frames on board and TM frames on the ground.                            *)
(***************************************************************************)
EXTENDS TcReception, TmReception

MCSeqNumbers == {0, 1, 2, 255}

VARIABLE link   \* what this end receives

mcVars == <<link, rxVars, tmRxVars>>

MCInit ==
  /\ link \in {"TC", "TM"}
  /\ RxInit
  /\ TmRxInit

MCNext ==
  /\ \/ link = "TC" /\ RxNext /\ UNCHANGED tmRxVars
     \/ link = "TM" /\ TmRxNext /\ UNCHANGED rxVars
  /\ UNCHANGED link

\* The fairness is that of the services of TcReception; TM reception needs none.
MCSpec == MCInit /\ [][MCNext]_mcVars /\ RxFairness
=============================================================================
