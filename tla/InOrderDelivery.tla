--------------------------- MODULE InOrderDelivery ---------------------------
(***************************************************************************)
(* What the sequence-controlled service promises its user: the frames that *)
(* were handed over arrive in the order in which they were handed over,    *)
(* each at most once and none left out between two that arrive, and only a *)
(* frame that has arrived is confirmed.  The user may vouch for the arrival*)
(* of a frame he handed over, which then counts as his word alone.         *)
(***************************************************************************)
EXTENDS Naturals, Sequences

CONSTANT Payloads   \* what the frames carry

VARIABLES
  handed,     \* the frames handed over, in this order
  delivered,  \* the frames that arrived, in this order
  confirmed,  \* the frames the sender has been told have arrived
  vouched     \* the frames the user says have arrived

deliveryVars == <<handed, delivered, confirmed, vouched>>

DeliveryInit ==
  handed = <<>> /\ delivered = <<>> /\ confirmed = {} /\ vouched = {}

Hand(p) ==
  /\ handed' = Append(handed, p)
  /\ UNCHANGED <<delivered, confirmed, vouched>>

Deliver ==
  /\ Len(delivered) < Len(handed)
  /\ delivered' = Append(delivered, handed[Len(delivered) + 1])
  /\ UNCHANGED <<handed, confirmed, vouched>>

\* A report confirms frames and may make room for the next one.
Confirm ==
  /\ \E more \in SUBSET {delivered[i] : i \in DOMAIN delivered} :
       confirmed' = confirmed \cup more
  /\ handed' = handed \/ \E p \in Payloads : handed' = Append(handed, p)
  /\ UNCHANGED <<delivered, vouched>>

Vouch ==
  /\ \E more \in SUBSET {handed[i] : i \in DOMAIN handed} : vouched' = vouched \cup more
  /\ UNCHANGED <<handed, delivered, confirmed>>

DeliveryNext == (\E p \in Payloads : Hand(p)) \/ Deliver \/ Confirm \/ Vouch

DeliverySpec == DeliveryInit /\ [][DeliveryNext]_deliveryVars
=============================================================================
