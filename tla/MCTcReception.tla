---------------------------- MODULE MCTcReception ----------------------------
(* Instance of TcReception for TLC: two MAP channels, lists of length 1 or 2. *)
EXTENDS TcReception

MCSeqNumbers == {0, 1, 2, 255}
=============================================================================
