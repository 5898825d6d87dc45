-------------------------------- MODULE CLCW --------------------------------
(***************************************************************************)
(* The Communications Link Control Word (inc/CLCW.hpp): the report a FARM  *)
(* sends back to the FOP.  The constructor ORs its arguments into one      *)
(* 32-bit word and the getters cut the fields out again, so an argument    *)
(* wider than its field shows up in the neighbouring fields.  Only the     *)
(* fields FOP and FARM exchange are kept: lockout (bit 13), wait (12),     *)
(* retransmit (11), the two bits of the FARM-B counter (9, 10) and the     *)
(* report value (0..7).                                                    *)
(***************************************************************************)
EXTENDS Integers

\* The words as the getters of CLCW show them.
ClcwSet(Reports) ==
  [lockout : BOOLEAN, wait : BOOLEAN, retransmit : BOOLEAN,
   farmB : 0..3, report : Reports]

\* The binary digit of weight w of the natural number n.
Digit(n, w) == (n \div w) % 2 = 1

(***************************************************************************)
(* What the getters return for a word built by the 14-argument             *)
(* constructor.  farmBCounter is a uint8_t shifted left by 9 without a     *)
(* mask: its digits of weight 4, 8 and 16 land on the retransmit, wait and *)
(* lockout flags.                                                          *)
(***************************************************************************)
NewClcw(lockout, wait, retransmit, farmBCounter, reportValue) ==
  LET b == farmBCounter % 256
  IN  [lockout    |-> lockout \/ Digit(b, 16),
       wait       |-> wait \/ Digit(b, 8),
       retransmit |-> retransmit \/ Digit(b, 4),
       farmB      |-> b % 4,
       report     |-> reportValue % 256]
=============================================================================
