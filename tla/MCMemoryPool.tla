----------------------------- MODULE MCMemoryPool -----------------------------
(* Instance of MemoryPool for TLC. *)
EXTENDS MemoryPool
=============================================================================
