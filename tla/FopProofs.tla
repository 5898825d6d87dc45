------------------------------ MODULE FopProofs ------------------------------
(***************************************************************************)
(* Theorems about FrameOperationProcedure for every modulus, every         *)
(* capacity of the lists and all sets of limits, widths and numbers.       *)
(* First what holds whatever a CLCW carries and wherever the frames are:   *)
(* the limit of retransmissions, how the AD service starts, and what it    *)
(* sends while the receiver waits.  Then the types of FOP's state, the     *)
(* numbers in the sent queue, and the order in which reports acknowledge   *)
(* them.                                                                   *)
(***************************************************************************)
EXTENDS FrameOperationProcedure, SequenceTheorems, TLAPS

Fields == {"state", "vs", "nnr", "count", "wait", "sent", "out", "master", "frames"}

\* A record of FOP, whatever its fields hold.
IsFop(q) == q = [h \in Fields |-> q[h]]

\* r differs from q at most in fields that the theorems below do not speak of.
Alike(q, r) ==
  /\ IsFop(r)
  /\ r.state = q.state /\ r.count = q.count /\ r.wait = q.wait /\ r.sent = q.sent

----------------------------------------------------------------------------
(* What the procedures of FOP-1 leave alone.                               *)

\* storeOut touches the outgoing list alone.
LEMMA StoreOutAlike ==
  ASSUME NEW q, IsFop(q), NEW f
  PROVE  Alike(q, StoreOut(q, f))
BY DEF IsFop, Alike, StoreOut, Fields

\* Acknowledging marks frames.
LEMMA AcknowledgeAlike ==
  ASSUME NEW q, IsFop(q), NEW ns
  PROVE  Alike(q, Acknowledge(q, ns))
BY DEF IsFop, Alike, Acknowledge, Fields

LEMMA AcknowledgePreviousAlike ==
  ASSUME NEW q, IsFop(q), NEW report
  PROVE  Alike(q, AcknowledgePreviousFrames(q, report))
<1> DEFINE r == Acknowledge(q, {n \in SeqNumbers : n < report \/ n > q.vs})
<1>1. Alike(q, r)
  BY AcknowledgeAlike
<1>2. AcknowledgePreviousFrames(q, report) = [r EXCEPT !.nnr = report]
  BY DEF AcknowledgePreviousFrames
<1> HIDE DEF r
<1>3. QED
  BY <1>1, <1>2 DEF IsFop, Alike, Fields

\* A new frame changes the master copies alone.
LEMMA NewFrameAlike ==
  ASSUME NEW q, IsFop(q), NEW type, NEW f
  PROVE  Alike(q, NewFrame(q, type, f))
BY DEF IsFop, Alike, NewFrame, Fields

\* Acknowledged frames go and the count is reset.
LEMMA RemoveCounts ==
  ASSUME NEW q, IsFop(q)
  PROVE  LET r == RemoveAcknowledgedFrames(q)
         IN  /\ IsFop(r) /\ r.count = 1
             /\ r.state = q.state /\ r.wait = q.wait /\ r.sent = q.sent
BY DEF IsFop, RemoveAcknowledgedFrames, Fields

\* The frames of the sent queue are marked and the retransmission is counted.
LEMMA RetransmissionCounts ==
  ASSUME NEW q, IsFop(q)
  PROVE  LET r == InitiateAdRetransmission(q)
         IN  /\ IsFop(r) /\ r.count = IF q.count = 255 THEN 0 ELSE q.count + 1
             /\ r.state = q.state /\ r.wait = q.wait /\ r.sent = q.sent
BY DEF IsFop, InitiateAdRetransmission, Fields

\* A change of state is nothing else.
LEMMA ToState ==
  ASSUME NEW q, IsFop(q), NEW s
  PROVE  /\ IsFop(To(q, s)) /\ To(q, s).state = s /\ To(q, s).count = q.count
         /\ To(q, s).wait = q.wait /\ To(q, s).sent = q.sent
BY DEF IsFop, To, Fields

\* alert ends in INITIAL and leaves the count.
LEMMA AlertEnds ==
  ASSUME NEW q, IsFop(q)
  PROVE  IsFop(Alert(q)) /\ Alert(q).state = "INITIAL" /\ Alert(q).count = q.count
BY DEF IsFop, Alert, PurgeQueues, Fields

\* initialize empties the queues and resets the count.
LEMMA InitializeStarts ==
  ASSUME NEW q, IsFop(q), NEW next
  PROVE  LET r == Initialize(q, next)
         IN  IsFop(r) /\ r.count = 1 /\ r.wait = <<>> /\ r.sent = <<>>
BY DEF IsFop, Initialize, PurgeQueues, Fields

\* transmitAdFrame resets the count or leaves it.
LEMMA TransmitCounts ==
  ASSUME NEW q, IsFop(q)
  PROVE  LET r == TransmitAdFrame(q)
         IN  IsFop(r) /\ r.state = q.state /\ r.count \in {q.count, 1}
<1> DEFINE counted == IF q.sent = <<>> THEN [q EXCEPT !.count = 1] ELSE q
           f == Head(q.wait)
           next(vs) == IF q.frames[f].retx THEN vs ELSE (vs + 1) % Modulus
           moved == [counted EXCEPT
                  !.frames[f].ns = q.vs,
                  !.frames[f].retx = FALSE,
                  !.vs = next(@),
                  !.sent = Append(@, f),
                  !.wait = Tail(@)]
<1>1. IsFop(counted) /\ counted.state = q.state /\ counted.count \in {q.count, 1}
  BY DEF IsFop, Fields
<1>2. TransmitAdFrame(q) \in {q, counted, StoreOut(moved, f)}
  BY DEF TransmitAdFrame
<1> HIDE DEF counted, next
<1>3. IsFop(moved) /\ moved.state = counted.state /\ moved.count = counted.count
  BY <1>1 DEF IsFop, Fields
<1> HIDE DEF moved
<1>4. Alike(moved, StoreOut(moved, f))
  BY <1>3, StoreOutAlike
<1>5. QED
  BY <1>1, <1>2, <1>3, <1>4 DEF Alike

LEMMA LookForFduCounts ==
  ASSUME NEW q, IsFop(q)
  PROVE  LET r == LookForFdu(q)
         IN  IsFop(r) /\ r.state = q.state /\ r.count \in {q.count, 1}
BY TransmitCounts DEF LookForFdu

\* transferFdu keeps the state and resets the count or leaves it; while the receiver
\* waits, no frame goes to the sent queue.
LEMMA TransferFduCounts ==
  ASSUME NEW q, IsFop(q), NEW f
  PROVE  LET r == TransferFdu(q, f)
         IN  /\ IsFop(r) /\ r.state = q.state /\ r.count \in {q.count, 1}
             /\ q.state = "RETRANSMIT_WITH_WAIT" => r.sent = q.sent
<1> DEFINE queued == [q EXCEPT !.wait = Append(@, f)]
           reset == [q EXCEPT !.frames[f].retx = FALSE, !.count = 1]
<1>1. IsFop(queued) /\ queued.state = q.state /\ queued.count = q.count /\ queued.sent = q.sent
  BY DEF IsFop, Fields
<1>2. IsFop(reset) /\ reset.state = q.state /\ reset.count = 1 /\ reset.sent = q.sent
  BY DEF IsFop, Fields
<1>3. \/ TransferFdu(q, f) \in {q, queued, StoreOut(reset, f), StoreOut(q, f)}
      \/ TransferFdu(q, f) = LookForFdu(queued) /\ q.state # "RETRANSMIT_WITH_WAIT"
  BY DEF TransferFdu
<1> HIDE DEF queued, reset
<1>4. Alike(reset, StoreOut(reset, f)) /\ Alike(q, StoreOut(q, f))
  BY <1>2, StoreOutAlike
<1>5. /\ IsFop(LookForFdu(queued)) /\ LookForFdu(queued).state = queued.state
      /\ LookForFdu(queued).count \in {queued.count, 1}
  BY <1>1, LookForFduCounts
<1>6. QED
  BY <1>1, <1>2, <1>3, <1>4, <1>5 DEF Alike

----------------------------------------------------------------------------
(* Reports.                                                                *)

\* React handles the event where the state is one of S and acknowledges after it.
LEMMA ReactAlike ==
  ASSUME NEW c, NEW S, NEW q, React(c, S, q), IsFop(fop), IsFop(q)
  PROVE  Alike(IF fop.state \in S THEN q ELSE fop, fop')
BY AcknowledgePreviousAlike DEF React, Call

\* The invariant: the count is at least 1, so that a reset to 1 never raises it, and
\* the limit is an octet, so that the count stays one.
FopInv == IsFop(fop) /\ fop.count \in 1..255 /\ limit \in Limits

\* A count that is reset or left alone.
NoCount == IsFop(fop') /\ fop'.count \in {fop.count, 1}

\* A retransmission that is counted within the limit.
Counted == IsFop(fop') /\ fop'.count = fop.count + 1 /\ fop.count < limit

\* A report resets the count, leaves it, or counts one retransmission within the
\* limit.  (only E8 and E10 count; before E8 the count is reset)
LEMMA ClcwCounts ==
  ASSUME FopInv, NEW c, ClcwArrives(c)
  PROVE  NoCount \/ Counted \/ (IsFop(fop') /\ fop'.count = 2 /\ 2 <= limit)
<1> USE DEF FopInv
<1> DEFINE removed == RemoveAcknowledgedFrames(fop)
           marked == InitiateAdRetransmission(fop)
           renewed == InitiateAdRetransmission(removed)
<1>1. IsFop(Alert(fop)) /\ Alert(fop).count = fop.count
  BY AlertEnds
<1>2. \A s : IsFop(To(fop, s)) /\ To(fop, s).count = fop.count
  BY ToState
<1>3. IsFop(removed) /\ removed.count = 1
  BY RemoveCounts
<1>4. IsFop(renewed) /\ renewed.count = 2
  BY <1>3, RetransmissionCounts
<1>5. IsFop(marked) /\ marked.count = IF fop.count = 255 THEN 0 ELSE fop.count + 1
  BY RetransmissionCounts
<1> HIDE DEF removed, marked, renewed
<1>6. IsFop(LookForFdu(removed)) /\ LookForFdu(removed).count = 1
  BY <1>3, LookForFduCounts
<1>7. \A s : IsFop(To(LookForFdu(removed), s)) /\ To(LookForFdu(removed), s).count = 1
  BY <1>6, ToState
<1>8. \A s : IsFop(To(removed, s)) /\ To(removed, s).count = 1
  BY <1>3, ToState
<1>9. IsFop(Alert(removed)) /\ Alert(removed).count = 1
  BY <1>3, AlertEnds
<1>10. IsFop(LookForFdu(renewed)) /\ LookForFdu(renewed).count \in {2, 1}
  BY <1>4, LookForFduCounts
<1>11. \A s : IsFop(To(LookForFdu(renewed), s)) /\ To(LookForFdu(renewed), s).count \in {2, 1}
  BY <1>10, ToState
<1>12. IsFop(LookForFdu(marked)) /\ LookForFdu(marked).count \in {marked.count, 1}
  BY <1>5, LookForFduCounts
<1>13. \A s : /\ IsFop(To(LookForFdu(marked), s))
              /\ To(LookForFdu(marked), s).count \in {marked.count, 1}
  BY <1>12, ToState
<1>14. limit \in 0..255
  BY FopAssumption
<1>15. CASE E1(c)
  BY <1>1, <1>2, <1>15, ReactAlike DEF E1, NoCount, Alike
<1>16. CASE E2(c) \/ E6(c)
  BY <1>7, <1>16, ReactAlike DEF E2, E6, NoCount, Alike, removed
<1>17. CASE E3(c) \/ E4(c) \/ E5(c) \/ E7(c) \/ E102(c) \/ E13(c) \/ E14(c)
  BY <1>1, <1>17, ReactAlike DEF E3, E4, E5, E7, E102, E13, E14, NoCount, Alike
<1>18. CASE E101(c)
  BY <1>9, <1>18, ReactAlike DEF E101, NoCount, Alike, removed
<1>19. CASE E8(c)
  <2>1. 2 <= limit
    BY <1>14, <1>19 DEF E8
  <2>2. Alike(IF fop.state \in Running THEN To(LookForFdu(renewed), "RETRANSMIT_WITHOUT_WAIT")
              ELSE fop, fop')
    BY <1>11, <1>19, ReactAlike DEF E8, renewed, removed
  <2>3. QED
    BY <1>11, <2>1, <2>2 DEF NoCount, Alike
<1>20. CASE E9(c)
  BY <1>8, <1>20, ReactAlike DEF E9, NoCount, Alike, removed
<1>21. CASE E10(c)
  <2>1. fop.count < limit /\ fop.count # 255
    BY <1>14, <1>21 DEF E10
  <2>2. PICK S : Alike(IF fop.state \in S THEN To(LookForFdu(marked), "RETRANSMIT_WITHOUT_WAIT")
                       ELSE fop, fop')
    BY <1>13, <1>21, ReactAlike DEF E10, marked
  <2>3. marked.count = fop.count + 1
    BY <1>5, <2>1
  <2>4. QED
    BY <1>13, <2>1, <2>2, <2>3 DEF NoCount, Counted, Alike
<1>22. CASE E11(c) \/ E12(c) \/ LimitZero(c)
  BY <1>2, <1>22, ReactAlike DEF E11, E12, LimitZero, NoCount, Alike
<1>23. QED
  BY <1>15, <1>16, <1>17, <1>18, <1>19, <1>20, <1>21, <1>22 DEF ClcwArrives, AtVs, BeforeVs

\* A report does not start the service, and while FOP waits for the receiver it
\* leaves the sent queue or ends the wait.
LEMMA ClcwStates ==
  ASSUME IsFop(fop), NEW c, ClcwArrives(c)
  PROVE  /\ fop.state = "INITIAL" => fop'.state = "INITIAL"
         /\ fop.state = "RETRANSMIT_WITH_WAIT" =>
              fop'.state # "RETRANSMIT_WITH_WAIT" \/ fop'.sent = fop.sent
<1> DEFINE removed == RemoveAcknowledgedFrames(fop)
<1>1. IsFop(Alert(fop)) /\ Alert(fop).state = "INITIAL"
  BY AlertEnds
<1>2. \A s : IsFop(To(fop, s)) /\ To(fop, s).state = s /\ To(fop, s).sent = fop.sent
  BY ToState
<1>3. IsFop(removed) /\ removed.sent = fop.sent
  BY RemoveCounts
<1>4. IsFop(InitiateAdRetransmission(fop)) /\ IsFop(InitiateAdRetransmission(removed))
  BY <1>3, RetransmissionCounts
<1> HIDE DEF removed
<1>5. Alert(removed).state = "INITIAL"
  BY <1>3, AlertEnds
<1>6. \A s : To(LookForFdu(removed), s).state = s
  BY <1>3, LookForFduCounts, ToState
<1>7. \A s : IsFop(To(removed, s)) /\ To(removed, s).sent = fop.sent
  BY <1>3, ToState
<1>8. /\ \A s : To(LookForFdu(InitiateAdRetransmission(fop)), s).state = s
      /\ \A s : To(LookForFdu(InitiateAdRetransmission(removed)), s).state = s
  BY <1>4, LookForFduCounts, ToState
<1>9. ASSUME NEW S, NEW q, React(c, S, q), IsFop(q)
      PROVE  LET r == IF fop.state \in S THEN q ELSE fop
             IN  fop'.state = r.state /\ fop'.sent = r.sent
  BY <1>9, ReactAlike DEF Alike
<1>10. IsFop(Alert(removed)) /\ \A s : IsFop(To(LookForFdu(removed), s))
  BY <1>3, AlertEnds, LookForFduCounts, ToState
<1>11. /\ \A s : IsFop(To(LookForFdu(InitiateAdRetransmission(fop)), s))
       /\ \A s : IsFop(To(LookForFdu(InitiateAdRetransmission(removed)), s))
  BY <1>4, LookForFduCounts, ToState
<1>12. CASE E1(c)
  BY <1>1, <1>2, <1>9, <1>12 DEF E1, Running, Initializing
<1>13. CASE E2(c) \/ E6(c)
  BY <1>6, <1>9, <1>10, <1>13 DEF E2, E6, Running, removed
<1>14. CASE E3(c) \/ E4(c) \/ E5(c) \/ E7(c) \/ E102(c) \/ E13(c) \/ E14(c)
  BY <1>1, <1>9, <1>14 DEF E3, E4, E5, E7, E102, E13, E14, Running
<1>15. CASE E101(c)
  BY <1>5, <1>9, <1>10, <1>15 DEF E101, Running, removed
<1>16. CASE E8(c)
  BY <1>8, <1>9, <1>11, <1>16 DEF E8, Running, removed
<1>17. CASE E9(c)
  BY <1>7, <1>9, <1>17 DEF E9, Running, removed
<1>18. CASE E10(c)
  BY <1>8, <1>9, <1>11, <1>18 DEF E10
<1>19. CASE E11(c) \/ E12(c) \/ LimitZero(c)
  BY <1>2, <1>9, <1>19 DEF E11, E12, LimitZero
<1>20. QED
  BY <1>12, <1>13, <1>14, <1>15, <1>16, <1>17, <1>18, <1>19 DEF ClcwArrives, AtVs, BeforeVs

----------------------------------------------------------------------------
(* The steps.                                                              *)

\* What the three action properties ask of a step.
WithinLimit == fop'.count > fop.count => fop'.count <= limit
Starts ==
  fop.state = "INITIAL" /\ fop'.state # "INITIAL" => fop'.wait = <<>> /\ fop'.sent = <<>>
Waits ==
  fop.state = "RETRANSMIT_WITH_WAIT" /\ fop'.state = "RETRANSMIT_WITH_WAIT"
    => fop'.sent = fop.sent \/ TransmitAdFrameRequest

Steps == FopInv' /\ WithinLimit /\ Starts /\ Waits

\* A call that neither counts nor changes the state, and leaves the sent queue to
\* transmitAdFrame alone.
LEMMA QuietSteps ==
  ASSUME FopInv, limit' = limit, NoCount, fop'.state = fop.state,
         fop'.sent = fop.sent \/ TransmitAdFrameRequest \/ fop.state # "RETRANSMIT_WITH_WAIT"
  PROVE  Steps
<1>1. FopInv'
  BY DEF FopInv, NoCount
<1>2. WithinLimit
  BY DEF FopInv, NoCount, WithinLimit
<1>3. Starts
  BY DEF Starts
<1>4. Waits
  BY Zenon DEF Waits
<1>5. QED
  BY <1>1, <1>2, <1>3, <1>4 DEF Steps

\* A step that does not call transmitAdFrame directly.
LEMMA OtherSteps ==
  ASSUME FopInv', WithinLimit, Starts,
         fop.state # "RETRANSMIT_WITH_WAIT" \/ fop'.state # "RETRANSMIT_WITH_WAIT"
           \/ fop'.sent = fop.sent
  PROVE  Steps
BY Zenon DEF Steps, Waits

LEMMA GenerationSteps ==
  ASSUME FopInv, VcGenerationRequestTxTC
  PROVE  Steps
<1> DEFINE f == Head(unprocessed)
           q == TransferFdu(fop, f)
<1>1. /\ IsFop(q) /\ q.state = fop.state /\ q.count \in {fop.count, 1}
      /\ fop.state = "RETRANSMIT_WITH_WAIT" => q.sent = fop.sent
  BY TransferFduCounts DEF FopInv
<1>2. fop' = StoreOut(q, f) /\ limit' = limit
  BY DEF VcGenerationRequestTxTC
<1> HIDE DEF q
<1>3. Alike(q, fop')
  BY <1>1, <1>2, StoreOutAlike
<1>4. QED
  BY <1>1, <1>2, <1>3, QuietSteps DEF Alike, NoCount

LEMMA DirectiveSteps ==
  ASSUME FopInv, Directive
  PROVE  Steps
<1>1. IsFop(fop)
  BY DEF FopInv
<1>2. ASSUME fop'.count \in {fop.count, 1} PROVE WithinLimit
  BY <1>2 DEF FopInv, WithinLimit
<1>3. CASE InitiateAd \/ InitiateAdUnlock
  <2>1. PICK next : fop' = Initialize(fop, next) /\ limit' = limit /\ fop.state = "INITIAL"
    BY <1>3 DEF InitiateAd, InitiateAdUnlock, Call
  <2>2. FopInv'
    BY <1>1, <2>1, InitializeStarts DEF FopInv
  <2>3. fop'.count \in {fop.count, 1}
    BY <1>1, <2>1, InitializeStarts
  <2>4. Starts
    BY <1>1, <2>1, InitializeStarts DEF Starts
  <2>5. fop.state # "RETRANSMIT_WITH_WAIT" \/ fop'.state # "RETRANSMIT_WITH_WAIT"
    BY <1>1, <2>1, InitializeStarts
  <2>6. QED
    BY <2>2, <2>3, <2>5, <2>4, <1>2, OtherSteps
<1>4. CASE \E v \in Numbers : InitiateAdVr(v)
  <2>1. PICK v \in Numbers : InitiateAdVr(v)
    BY <1>4
  <2> DEFINE q == Initialize(fop, "INITIALIZING_WITH_BC_FRAME")
  <2>2. IsFop(q) /\ q.count = 1 /\ q.wait = <<>> /\ q.sent = <<>>
    BY <1>1, InitializeStarts
  <2>3. fop' = [q EXCEPT !.vs = v, !.nnr = v] /\ limit' = limit /\ fop.state = "INITIAL"
    BY <2>1 DEF InitiateAdVr, Call
  <2> HIDE DEF q
  <2>4. IsFop(fop') /\ fop'.count = 1 /\ fop'.wait = <<>> /\ fop'.sent = <<>>
    BY <2>2, <2>3 DEF IsFop, Fields
  <2>5. FopInv'
    BY <2>3, <2>4 DEF FopInv
  <2>6. fop'.count \in {fop.count, 1}
    BY <2>3, <2>4
  <2>7. Starts
    BY <2>3, <2>4 DEF Starts
  <2>8. fop.state # "RETRANSMIT_WITH_WAIT" \/ fop'.state # "RETRANSMIT_WITH_WAIT"
    BY <2>3, <2>4
  <2>9. QED
    BY <2>5, <2>6, <2>8, <2>7, <1>2, OtherSteps
<1>5. CASE \E v \in Numbers : SetVs(v)
  <2>1. PICK v \in Numbers : fop' = [fop EXCEPT !.vs = v, !.nnr = v] /\ limit' = limit
    BY <1>5 DEF SetVs, Call
  <2>2. Alike(fop, fop')
    BY <1>1, <2>1 DEF IsFop, Alike, Fields
  <2>3. QED
    BY <2>1, <2>2, QuietSteps DEF Alike, NoCount
<1>6. CASE TerminateAdService
  <2>1. fop' = Alert(fop) /\ limit' = limit /\ fop.state # "INITIAL"
    BY <1>6 DEF TerminateAdService, Call
  <2>2. FopInv'
    BY <1>1, <2>1, AlertEnds DEF FopInv
  <2>3. fop'.count \in {fop.count, 1}
    BY <1>1, <2>1, AlertEnds
  <2>4. Starts
    BY <1>1, <2>1, AlertEnds DEF Starts
  <2>5. fop.state # "RETRANSMIT_WITH_WAIT" \/ fop'.state # "RETRANSMIT_WITH_WAIT"
    BY <1>1, <2>1, AlertEnds
  <2>6. QED
    BY <2>2, <2>3, <2>5, <2>4, <1>2, OtherSteps
<1>7. CASE ResumeAdService
  <2>1. fop' = To(fop, "INITIAL") /\ limit' = limit /\ fop.state # "INITIAL"
    BY <1>7 DEF ResumeAdService, Call
  <2>2. FopInv'
    BY <1>1, <2>1, ToState DEF FopInv
  <2>3. fop'.count \in {fop.count, 1}
    BY <1>1, <2>1, ToState
  <2>4. Starts
    BY <1>1, <2>1, ToState DEF Starts
  <2>5. fop.state # "RETRANSMIT_WITH_WAIT" \/ fop'.state # "RETRANSMIT_WITH_WAIT"
    BY <1>1, <2>1, ToState
  <2>6. QED
    BY <2>2, <2>3, <2>5, <2>4, <1>2, OtherSteps
<1>8. CASE SetFopWidth
  BY <1>1, <1>8, QuietSteps DEF SetFopWidth, NoCount
<1>9. CASE SetTransmissionLimit
  <2>1. FopInv'
    BY <1>9 DEF SetTransmissionLimit, FopInv
  <2>2. fop'.count \in {fop.count, 1}
    BY <1>9 DEF SetTransmissionLimit
  <2>3. Starts
    BY <1>9 DEF SetTransmissionLimit, Starts
  <2>4. fop'.sent = fop.sent
    BY <1>9 DEF SetTransmissionLimit
  <2>5. QED
    BY <2>1, <2>2, <2>4, <2>3, <1>2, OtherSteps
<1>10. QED
  BY <1>3, <1>4, <1>5, <1>6, <1>7, <1>8, <1>9 DEF Directive

LEMMA HandleSteps ==
  ASSUME FopInv, Handle
  PROVE  Steps
<1>1. IsFop(fop)
  BY DEF FopInv
<1>2. CASE VcGenerationRequestTxTC
  BY <1>2, GenerationSteps
<1>3. CASE AllFramesGenerationRequestTxTC
  <2>1. Alike(fop, fop') /\ limit' = limit
    BY <1>1, <1>3 DEF AllFramesGenerationRequestTxTC, IsFop, Alike, Fields
  <2>2. QED
    BY <2>1, QuietSteps DEF Alike, NoCount
<1>4. CASE TransmitAdFrameRequest
  <2>1. fop' = TransmitAdFrame(fop) /\ limit' = limit
    BY <1>4 DEF TransmitAdFrameRequest, Call
  <2>2. QED
    BY <1>1, <1>4, <2>1, TransmitCounts, QuietSteps DEF NoCount
<1>5. CASE PushSentQueue
  <2>1. Alike(fop, fop') /\ limit' = limit
    BY <1>1, <1>5, StoreOutAlike DEF PushSentQueue, Call
  <2>2. QED
    BY <2>1, QuietSteps DEF Alike, NoCount
<1>6. CASE ClearAcknowledgedFrames
  <2>1. fop' = RemoveAcknowledgedFrames(fop) /\ limit' = limit
    BY <1>6 DEF ClearAcknowledgedFrames, Call
  <2>2. QED
    BY <1>1, <2>1, RemoveCounts, QuietSteps DEF NoCount
<1>7. CASE ValidClcwArrival
  <2>1. PICK c \in Clcws : ClcwArrives(c)
    BY <1>7 DEF ValidClcwArrival
  <2>2. NoCount \/ Counted \/ (IsFop(fop') /\ fop'.count = 2 /\ 2 <= limit)
    BY <2>1, ClcwCounts
  <2>3. Starts /\ Waits
    BY <1>1, <2>1, ClcwStates DEF Starts, Waits
  <2>4. limit' = limit
    BY <2>1 DEF ClcwArrives, AtVs, BeforeVs, E1, E2, E3, E4, E5, E6, E7, E101, E102, E8, E9, E10, E11, E12,
                LimitZero, E13, E14, React, Call
  <2>5. limit \in 0..255
    BY FopAssumption DEF FopInv
  <2>6. FopInv' /\ WithinLimit
    BY <2>2, <2>4, <2>5 DEF NoCount, Counted, FopInv, WithinLimit
  <2>7. QED
    BY <2>3, <2>6, Zenon DEF Steps
<1>8. CASE Directive
  BY <1>8, DirectiveSteps
<1>9. QED
  BY <1>2, <1>3, <1>4, <1>5, <1>6, <1>7, <1>8 DEF Handle

LEMMA NextSteps ==
  ASSUME FopInv, Next
  PROVE  Steps
<1>1. IsFop(fop)
  BY DEF FopInv
<1>2. CASE Handle
  BY <1>2, HandleSteps
<1>3. CASE \E type \in Services, f \in Slots : MappRequestTxTC(type, f)
  <2>1. Alike(fop, fop') /\ limit' = limit
    BY <1>1, <1>3, NewFrameAlike DEF MappRequestTxTC
  <2>2. QED
    BY <2>1, QuietSteps DEF Alike, NoCount
<1>4. CASE \E n \in SeqNumbers : AcknowledgeFrameRequest(n)
  <2>1. Alike(fop, fop') /\ limit' = limit
    BY <1>1, <1>4, AcknowledgeAlike DEF AcknowledgeFrameRequest, Call
  <2>2. QED
    BY <2>1, QuietSteps DEF Alike, NoCount
<1>5. QED
  BY <1>2, <1>3, <1>4 DEF Next

\* The invariant, and what every step does under it.
LEMMA FopInvariant == Spec => []FopInv
<1>1. Init => FopInv
  <2> SUFFICES ASSUME Init PROVE FopInv
    OBVIOUS
  <2>1. IsFop(fop)
    BY DEF Init, IsFop, Fields
  <2>2. fop.count = 1 /\ limit \in Limits
    BY DEF Init
  <2>3. QED
    BY <2>1, <2>2 DEF FopInv
<1>2. FopInv /\ [Next]_vars => FopInv'
  <2> SUFFICES ASSUME FopInv, [Next]_vars PROVE FopInv'
    OBVIOUS
  <2>1. CASE Next
    BY <2>1, NextSteps DEF Steps
  <2>2. CASE UNCHANGED vars
    BY <2>2 DEF FopInv, IsFop, Fields, vars
  <2>3. QED
    BY <2>1, <2>2
<1>3. QED
  BY <1>1, <1>2, PTL DEF Spec

----------------------------------------------------------------------------
(* Theorems.                                                               *)

\* FOP never counts a retransmission beyond the transmission limit in force,
\* whatever the CLCWs carry and however directives change the limit between them.
THEOREM FopRetransmitsWithinLimit == Spec => RetransmitsWithinLimit
<1>1. FopInv /\ [Next]_vars => [WithinLimit]_vars
  BY NextSteps DEF Steps
<1>2. QED
  BY <1>1, FopInvariant, PTL DEF Spec, RetransmitsWithinLimit, WithinLimit

\* Whatever resume or an alert left behind, the AD service starts with empty queues.
THEOREM FopStartsEmpty == Spec => StartsEmpty
<1>1. FopInv /\ [Next]_vars => [Starts]_vars
  BY NextSteps DEF Steps
<1>2. QED
  BY <1>1, FopInvariant, PTL DEF Spec, StartsEmpty, Starts

\* While the receiver has no room FOP sends nothing new.
THEOREM FopWaitSendsNothing == Spec => WaitSendsNothing
<1>1. FopInv /\ [Next]_vars => [Waits]_vars
  BY NextSteps DEF Steps
<1>2. QED
  BY <1>1, FopInvariant, PTL DEF Spec, WaitSendsNothing, Waits

----------------------------------------------------------------------------
(* Types.                                                                  *)

\* A record of FOP whose lists keep within their capacities.
Typed(q) ==
  /\ q \in FopRecord
  /\ Len(q.wait) <= WaitQueueCap /\ Len(q.sent) <= SentQueueCap /\ Len(q.out) <= OutCap

Octets == 0..255

\* What the fields of a typed record hold.
LEMMA FieldTypes ==
  ASSUME NEW q, Typed(q)
  PROVE  /\ q.state \in FOPState /\ q.vs \in SeqNumbers /\ q.nnr \in SeqNumbers
         /\ q.count \in 0..255
         /\ q.wait \in Seq(Slots) /\ q.sent \in Seq(Slots) /\ q.out \in Seq(Slots)
         /\ q.master \in SUBSET Slots /\ q.frames \in [Slots -> Frames]
         /\ Len(q.wait) <= WaitQueueCap /\ Len(q.sent) <= SentQueueCap /\ Len(q.out) <= OutCap
BY DEF Typed, FopRecord

\* A list may be replaced by one that keeps within the capacity.
LEMMA Updates ==
  ASSUME NEW q, Typed(q)
  PROVE  /\ \A l \in Seq(Slots) : Len(l) <= OutCap => Typed([q EXCEPT !.out = l])
         /\ \A l \in Seq(Slots) : Len(l) <= WaitQueueCap => Typed([q EXCEPT !.wait = l])
         /\ \A l \in Seq(Slots) : Len(l) <= SentQueueCap => Typed([q EXCEPT !.sent = l])
         /\ \A n \in Octets : Typed([q EXCEPT !.count = n])
         /\ \A n \in SeqNumbers : Typed([q EXCEPT !.vs = n]) /\ Typed([q EXCEPT !.nnr = n])
         /\ \A s \in FOPState : Typed([q EXCEPT !.state = s])
         /\ \A fs \in [Slots -> Frames] : Typed([q EXCEPT !.frames = fs])
         /\ \A m \in SUBSET Slots : Typed([q EXCEPT !.master = m])
<1>1. \A l \in Seq(Slots) : Len(l) <= OutCap => Typed([q EXCEPT !.out = l])
  BY DEF Typed, FopRecord
<1>2. \A l \in Seq(Slots) : Len(l) <= WaitQueueCap => Typed([q EXCEPT !.wait = l])
  BY DEF Typed, FopRecord
<1>3. \A l \in Seq(Slots) : Len(l) <= SentQueueCap => Typed([q EXCEPT !.sent = l])
  BY DEF Typed, FopRecord
<1>4. \A n \in Octets : Typed([q EXCEPT !.count = n])
  BY DEF Typed, FopRecord, Octets
<1>5. \A n \in SeqNumbers : Typed([q EXCEPT !.vs = n]) /\ Typed([q EXCEPT !.nnr = n])
  BY DEF Typed, FopRecord
<1>6. \A s \in FOPState : Typed([q EXCEPT !.state = s])
  BY DEF Typed, FopRecord
<1>7. \A fs \in [Slots -> Frames] : Typed([q EXCEPT !.frames = fs])
  BY DEF Typed, FopRecord
<1>8. \A m \in SUBSET Slots : Typed([q EXCEPT !.master = m])
  BY DEF Typed, FopRecord
<1>9. QED
  BY <1>1, <1>2, <1>3, <1>4, <1>5, <1>6, <1>7, <1>8

\* The two values that the code resets the count and the queues to.
LEMMA Resets ==
  ASSUME NEW q, Typed(q)
  PROVE  /\ Typed([q EXCEPT !.count = 1])
         /\ Typed([q EXCEPT !.wait = <<>>]) /\ Typed([q EXCEPT !.sent = <<>>])
<1>1. Typed([q EXCEPT !.count = 1])
  <2>1. 1 \in Octets
    BY DEF Octets
  <2>2. QED
    BY <2>1, Updates
<1>2. <<>> \in Seq(Slots) /\ Len(<<>>) <= WaitQueueCap /\ Len(<<>>) <= SentQueueCap
  BY FopAssumption
<1>3. Typed([q EXCEPT !.wait = <<>>]) /\ Typed([q EXCEPT !.sent = <<>>])
  BY <1>2, Updates
<1>4. QED
  BY <1>1, <1>3

LEMMA StoreOutTyped ==
  ASSUME NEW q, Typed(q), NEW f \in Slots
  PROVE  Typed(StoreOut(q, f))
<1>1. CASE Len(q.out) < OutCap
  <2>1. Append(q.out, f) \in Seq(Slots) /\ Len(Append(q.out, f)) <= OutCap
    BY <1>1, FopAssumption DEF Typed, FopRecord
  <2>2. Typed([q EXCEPT !.out = Append(q.out, f)])
    BY <2>1, Updates
  <2>3. QED
    BY <1>1, <2>2 DEF StoreOut
<1>2. QED
  BY <1>1 DEF StoreOut

LEMMA PurgeTyped ==
  ASSUME NEW q, Typed(q), NEW s \in FOPState
  PROVE  Typed(Alert(q)) /\ Typed(Initialize(q, s)) /\ Typed(To(q, s))
<1>1. Typed([q EXCEPT !.sent = <<>>])
  BY Resets
<1>2. Typed(PurgeQueues(q))
  <2>1. PurgeQueues(q) = [[q EXCEPT !.sent = <<>>] EXCEPT !.wait = <<>>]
    BY DEF PurgeQueues, Typed, FopRecord
  <2>2. QED
    BY <1>1, <2>1, Resets
<1>3. Typed(Alert(q))
  BY <1>2, Updates DEF Alert, FOPState
<1>4. Typed(Initialize(q, s))
  <2> DEFINE p == PurgeQueues(q)
             r == [p EXCEPT !.count = 1]
  <2>1. Typed(r)
    BY <1>2, Resets
  <2>2. Initialize(q, s) = [r EXCEPT !.state = s]
    BY <1>2 DEF Initialize, Typed, FopRecord
  <2> HIDE DEF p, r
  <2>3. QED
    BY <2>1, <2>2, Updates
<1>5. Typed(To(q, s))
  BY Updates DEF To
<1>6. QED
  BY <1>3, <1>4, <1>5

LEMMA NextNumber ==
  ASSUME NEW n \in SeqNumbers
  PROVE  (n + 1) % Modulus \in SeqNumbers
BY FopAssumption DEF SeqNumbers

LEMMA TransmitTyped ==
  ASSUME NEW q, Typed(q)
  PROVE  Typed(TransmitAdFrame(q))
<1> DEFINE counted == IF q.sent = <<>> THEN [q EXCEPT !.count = 1] ELSE q
           f == Head(q.wait)
           numbered == [q.frames EXCEPT ![f].ns = q.vs, ![f].retx = FALSE]
           next == IF q.frames[f].retx THEN q.vs ELSE (q.vs + 1) % Modulus
           moved == [counted EXCEPT !.frames = numbered, !.vs = next,
                                    !.sent = Append(q.sent, f), !.wait = Tail(q.wait)]
<1>1. Typed(counted)
  BY Resets
<1>2. CASE q.wait = <<>> \/ Len(q.sent) = SentQueueCap
  BY <1>1, <1>2 DEF TransmitAdFrame
<1>3. CASE q.wait # <<>> /\ Len(q.sent) # SentQueueCap
  <2>1. f \in Slots /\ Tail(q.wait) \in Seq(Slots) /\ Len(Tail(q.wait)) <= WaitQueueCap
    BY <1>3, FopAssumption DEF Typed, FopRecord
  <2>2. numbered \in [Slots -> Frames]
    <3>1. q.frames \in [Slots -> Frames] /\ q.vs \in SeqNumbers
      BY FieldTypes
    <3>2. [q.frames[f] EXCEPT !.ns = q.vs, !.retx = FALSE] \in Frames
      BY <2>1, <3>1 DEF Frames
    <3>3. numbered = [q.frames EXCEPT ![f] = [q.frames[f] EXCEPT !.ns = q.vs, !.retx = FALSE]]
      BY <2>1, <3>1 DEF Frames
    <3>4. QED
      BY <2>1, <3>1, <3>2, <3>3
  <2>3. next \in SeqNumbers
    BY NextNumber DEF Typed, FopRecord
  <2>4. /\ Append(q.sent, f) \in Seq(Slots)
        /\ Len(Append(q.sent, f)) <= SentQueueCap
    BY <1>3, <2>1, FopAssumption DEF Typed, FopRecord
  <2>5. Typed(moved)
    BY <1>1, <2>1, <2>2, <2>3, <2>4 DEF Typed, FopRecord
  <2>6. TransmitAdFrame(q) = StoreOut(moved, f)
    <3>1. [counted EXCEPT !.frames[f].ns = q.vs, !.frames[f].retx = FALSE,
             !.vs = IF q.frames[f].retx THEN @ ELSE (@ + 1) % Modulus,
             !.sent = Append(@, f), !.wait = Tail(@)] = moved
      <4>1. /\ counted.frames = q.frames /\ counted.vs = q.vs
            /\ counted.sent = q.sent /\ counted.wait = q.wait
        BY DEF Typed, FopRecord
      <4> HIDE DEF counted
      <4>2. QED
        BY <1>1, <2>1, <4>1 DEF Typed, FopRecord
    <3>2. QED
      BY <1>3, <3>1 DEF TransmitAdFrame
  <2>7. QED
    BY <2>1, <2>5, <2>6, StoreOutTyped
<1>4. QED
  BY <1>2, <1>3

LEMMA LookTyped ==
  ASSUME NEW q, Typed(q)
  PROVE  Typed(LookForFdu(q))
BY TransmitTyped DEF LookForFdu

\* Marks: of every frame only the flag changes.
LEMMA RetransmissionTyped ==
  ASSUME NEW q, Typed(q)
  PROVE  Typed(InitiateAdRetransmission(q))
<1> DEFINE r == InitiateAdRetransmission(q)
           marks == [f \in Slots |->
              [q.frames[f] EXCEPT
                 !.retx = @ \/ (f \in ToSet(q.sent) /\ q.frames[f].type = "AD")]]
           count == IF q.count = 255 THEN 0 ELSE q.count + 1
<1>1. marks \in [Slots -> Frames]
  <2> SUFFICES ASSUME NEW f \in Slots
               PROVE  [q.frames[f] EXCEPT
                         !.retx = @ \/ (f \in ToSet(q.sent) /\ q.frames[f].type = "AD")]
                        \in Frames
    OBVIOUS
  <2>1. (q.frames[f].retx \/ (f \in ToSet(q.sent) /\ q.frames[f].type = "AD")) \in BOOLEAN
    OBVIOUS
  <2>2. q.frames[f] \in Frames
    BY DEF Typed, FopRecord
  <2>3. QED
    BY <2>1, <2>2 DEF Frames
<1>2. count \in 0..255
  <2>1. q.count \in 0..255
    BY FieldTypes
  <2>2. QED
    BY <2>1
<1>3. r = [q EXCEPT !.count = count, !.frames = marks]
  BY DEF InitiateAdRetransmission, Typed, FopRecord
<1> HIDE DEF marks, count
<1>4. QED
  BY <1>1, <1>2, <1>3 DEF Typed, FopRecord

LEMMA RemoveTyped ==
  ASSUME NEW q, Typed(q)
  PROVE  Typed(RemoveAcknowledgedFrames(q))
<1> DEFINE left == {f \in q.master : ~q.frames[f].ack}
<1>1. Typed([q EXCEPT !.master = left])
  BY FieldTypes, Updates
<1>2. RemoveAcknowledgedFrames(q) = [[q EXCEPT !.master = left] EXCEPT !.count = 1]
  BY DEF RemoveAcknowledgedFrames, Typed, FopRecord
<1> HIDE DEF left
<1>3. QED
  BY <1>1, <1>2, Resets

LEMMA AcknowledgeTyped ==
  ASSUME NEW q, Typed(q), NEW ns
  PROVE  Typed(Acknowledge(q, ns))
<1> DEFINE marks == [f \in Slots |->
              [q.frames[f] EXCEPT
                 !.ack = @ \/ (f \in ToSet(q.sent) /\ q.frames[f].ns \in ns)]]
<1>1. marks \in [Slots -> Frames]
  <2> SUFFICES ASSUME NEW f \in Slots
               PROVE  [q.frames[f] EXCEPT
                         !.ack = @ \/ (f \in ToSet(q.sent) /\ q.frames[f].ns \in ns)] \in Frames
    OBVIOUS
  <2>1. (q.frames[f].ack \/ (f \in ToSet(q.sent) /\ q.frames[f].ns \in ns)) \in BOOLEAN
    OBVIOUS
  <2>2. q.frames[f] \in Frames
    BY DEF Typed, FopRecord
  <2>3. QED
    BY <2>1, <2>2 DEF Frames
<1>2. Acknowledge(q, ns) = [q EXCEPT !.frames = marks]
  BY DEF Acknowledge
<1> HIDE DEF marks
<1>3. QED
  BY <1>1, <1>2 DEF Typed, FopRecord

LEMMA ReportTyped ==
  ASSUME NEW q, Typed(q), NEW report \in SeqNumbers
  PROVE  Typed(AcknowledgePreviousFrames(q, report))
<1> DEFINE r == Acknowledge(q, {n \in SeqNumbers : n < report \/ n > q.vs})
<1>1. Typed(r)
  BY AcknowledgeTyped
<1>2. AcknowledgePreviousFrames(q, report) = [r EXCEPT !.nnr = report]
  BY DEF AcknowledgePreviousFrames
<1> HIDE DEF r
<1>3. QED
  BY <1>1, <1>2 DEF Typed, FopRecord

LEMMA TransferTyped ==
  ASSUME NEW q, Typed(q), NEW f \in Slots
  PROVE  Typed(TransferFdu(q, f))
<1> DEFINE queued == [q EXCEPT !.wait = Append(@, f)]
           reset == [q EXCEPT !.frames = [@ EXCEPT ![f].retx = FALSE], !.count = 1]
<1>1. Len(q.wait) # WaitQueueCap => Typed(queued)
  <2> SUFFICES ASSUME Len(q.wait) # WaitQueueCap PROVE Typed(queued)
    OBVIOUS
  <2>1. Append(q.wait, f) \in Seq(Slots) /\ Len(Append(q.wait, f)) <= WaitQueueCap
    BY FopAssumption, FieldTypes
  <2>2. QED
    BY <2>1, Updates
<1>2. Typed(reset)
  <2>1. [q.frames EXCEPT ![f].retx = FALSE] \in [Slots -> Frames]
    <3>1. q.frames \in [Slots -> Frames]
      BY FieldTypes
    <3>2. [q.frames[f] EXCEPT !.retx = FALSE] \in Frames
      BY <3>1 DEF Frames
    <3>3. QED
      BY <3>1, <3>2
  <2>2. Typed([q EXCEPT !.frames = [@ EXCEPT ![f].retx = FALSE]])
    BY <2>1, Updates
  <2>3. reset = [[q EXCEPT !.frames = [@ EXCEPT ![f].retx = FALSE]] EXCEPT !.count = 1]
    BY DEF Typed, FopRecord
  <2>4. QED
    BY <2>2, <2>3, Resets
<1>3. \/ TransferFdu(q, f) \in {q, StoreOut(reset, f), StoreOut(q, f)}
      \/ TransferFdu(q, f) \in {queued, LookForFdu(queued)} /\ Len(q.wait) # WaitQueueCap
  BY DEF TransferFdu
<1> HIDE DEF queued, reset
<1>4. QED
  BY <1>1, <1>2, <1>3, LookTyped, StoreOutTyped

LEMMA NewFrameTyped ==
  ASSUME NEW q, Typed(q), NEW f \in Slots, NEW type \in Services
  PROVE  Typed(NewFrame(q, type, f))
<1>1. [type |-> type, ns |-> 0, ack |-> FALSE, retx |-> FALSE] \in Frames
  BY FopAssumption DEF Frames, SeqNumbers
<1>2. QED
  BY <1>1 DEF NewFrame, Typed, FopRecord

\* Every event hands React a record with its types.
LEMMA ClcwTyped ==
  ASSUME Typed(fop), NEW c \in Clcws, ClcwArrives(c)
  PROVE  Typed(fop') /\ UNCHANGED <<unprocessed, limit, width>>
<1> DEFINE removed == RemoveAcknowledgedFrames(fop)
           marked == InitiateAdRetransmission(fop)
           renewed == InitiateAdRetransmission(removed)
<1>1. ASSUME NEW S, NEW q, Typed(q), React(c, S, q)
      PROVE  Typed(fop') /\ UNCHANGED <<unprocessed, limit, width>>
  <2>1. c.report \in SeqNumbers
    BY DEF Clcws
  <2>2. QED
    BY <1>1, <2>1, ReportTyped DEF React, Call
<1>2. Typed(removed) /\ Typed(marked)
  BY RemoveTyped, RetransmissionTyped
<1>3. Typed(renewed)
  BY <1>2, RetransmissionTyped
<1>4. /\ Typed(LookForFdu(removed)) /\ Typed(LookForFdu(marked))
      /\ Typed(LookForFdu(renewed))
  BY <1>2, <1>3, LookTyped
<1> HIDE DEF removed, marked, renewed
<1>5. \A q : Typed(q) => Typed(Alert(q)) /\ \A s \in FOPState : Typed(To(q, s))
  BY PurgeTyped DEF FOPState
<1>6. {"ACTIVE", "RETRANSMIT_WITHOUT_WAIT", "RETRANSMIT_WITH_WAIT"} \subseteq FOPState
  BY DEF FOPState
<1>7. CASE E1(c) \/ E3(c) \/ E4(c) \/ E5(c) \/ E7(c) \/ E102(c) \/ E13(c) \/ E14(c)
  BY <1>1, <1>5, <1>6, <1>7 DEF E1, E3, E4, E5, E7, E102, E13, E14
<1>8. CASE E2(c) \/ E6(c) \/ E101(c) \/ E9(c)
  BY <1>1, <1>2, <1>4, <1>5, <1>6, <1>8 DEF E2, E6, E101, E9, removed
<1>9. CASE E8(c) \/ E10(c)
  BY <1>1, <1>4, <1>5, <1>6, <1>9 DEF E8, E10, renewed, marked, removed
<1>10. CASE E11(c) \/ E12(c) \/ LimitZero(c)
  BY <1>1, <1>5, <1>6, <1>10 DEF E11, E12, LimitZero
<1>11. QED
  BY <1>7, <1>8, <1>9, <1>10 DEF ClcwArrives, AtVs, BeforeVs

\* The variables but intact.
Types ==
  /\ Typed(fop)
  /\ unprocessed \in Seq(Slots) /\ Len(unprocessed) <= UnprocessedCap
  /\ limit \in Limits
  /\ width \in SeqNumbers

LEMMA DirectiveTypes ==
  ASSUME Types, Directive
  PROVE  Types'
<1>1. CASE InitiateAd \/ InitiateAdUnlock \/ TerminateAdService \/ ResumeAdService
  BY <1>1, PurgeTyped DEF InitiateAd, InitiateAdUnlock, TerminateAdService,
     ResumeAdService, Call, Types, FOPState
<1>2. CASE \E v \in Numbers : InitiateAdVr(v) \/ SetVs(v)
  <2>1. PICK v \in Numbers : InitiateAdVr(v) \/ SetVs(v)
    BY <1>2
  <2>2. v \in SeqNumbers
    BY FopAssumption DEF SeqNumbers
  <2> DEFINE q == Initialize(fop, "INITIALIZING_WITH_BC_FRAME")
  <2>3. Typed(q)
    BY PurgeTyped DEF Types, FOPState
  <2>4. \/ fop' = [q EXCEPT !.vs = v, !.nnr = v]
        \/ fop' = [fop EXCEPT !.vs = v, !.nnr = v]
    BY <2>1 DEF InitiateAdVr, SetVs, Call
  <2> HIDE DEF q
  <2>5. Typed(fop')
    <3>1. \A p : Typed(p) => Typed([p EXCEPT !.vs = v, !.nnr = v])
      <4> SUFFICES ASSUME NEW p, Typed(p) PROVE Typed([p EXCEPT !.vs = v, !.nnr = v])
        OBVIOUS
      <4>1. Typed([p EXCEPT !.vs = v])
        BY <2>2, Updates
      <4>2. [p EXCEPT !.vs = v, !.nnr = v] = [[p EXCEPT !.vs = v] EXCEPT !.nnr = v]
        BY DEF Typed, FopRecord
      <4>3. QED
        BY <2>2, <4>1, <4>2, Updates
    <3>2. QED
      BY <2>3, <2>4, <3>1 DEF Types
  <2>6. UNCHANGED <<unprocessed, limit, width>>
    BY <2>1 DEF InitiateAdVr, SetVs, Call
  <2>7. QED
    BY <2>5, <2>6 DEF Types
<1>3. CASE SetFopWidth \/ SetTransmissionLimit
  BY <1>3, FopAssumption DEF SetFopWidth, SetTransmissionLimit, Types, SeqNumbers
<1>4. QED
  BY <1>1, <1>2, <1>3 DEF Directive

LEMMA NextTypes ==
  ASSUME Types, Next
  PROVE  Types'
<1>1. CASE \E type \in Services, f \in Slots : MappRequestTxTC(type, f)
  <2>1. PICK type \in Services, f \in Slots : MappRequestTxTC(type, f)
    BY <1>1
  <2>2. Typed(fop')
    BY <2>1, NewFrameTyped DEF MappRequestTxTC, Types
  <2>3. unprocessed' \in Seq(Slots) /\ Len(unprocessed') <= UnprocessedCap
    BY <2>1, FopAssumption DEF MappRequestTxTC, Types
  <2>4. QED
    BY <2>1, <2>2, <2>3 DEF MappRequestTxTC, Types
<1>2. CASE VcGenerationRequestTxTC
  <2> DEFINE f == Head(unprocessed)
             q == TransferFdu(fop, f)
  <2>1. f \in Slots /\ Tail(unprocessed) \in Seq(Slots) /\ Len(Tail(unprocessed)) <= UnprocessedCap
    BY <1>2, FopAssumption DEF VcGenerationRequestTxTC, Types
  <2>2. Typed(q)
    BY <2>1, TransferTyped DEF Types
  <2>3. fop' = StoreOut(q, f) /\ unprocessed' \in {unprocessed, Tail(unprocessed)}
    BY <1>2 DEF VcGenerationRequestTxTC
  <2> HIDE DEF q, f
  <2>4. Typed(fop')
    BY <2>1, <2>2, <2>3, StoreOutTyped
  <2>5. QED
    BY <1>2, <2>1, <2>3, <2>4 DEF VcGenerationRequestTxTC, Types
<1>3. CASE AllFramesGenerationRequestTxTC
  <2>1. Typed(fop')
    <3>1. Typed(fop) /\ fop.out # <<>> /\ fop' = [fop EXCEPT !.out = Tail(@)]
      BY <1>3 DEF AllFramesGenerationRequestTxTC, Types
    <3>2. Tail(fop.out) \in Seq(Slots) /\ Len(Tail(fop.out)) <= OutCap
      BY <3>1, FopAssumption, FieldTypes
    <3>3. QED
      BY <3>1, <3>2, Updates
  <2>2. QED
    BY <1>3, <2>1 DEF AllFramesGenerationRequestTxTC, Types
<1>4. CASE TransmitAdFrameRequest \/ ClearAcknowledgedFrames
           \/ \E n \in SeqNumbers : AcknowledgeFrameRequest(n)
  BY <1>4, TransmitTyped, RemoveTyped, AcknowledgeTyped
     DEF TransmitAdFrameRequest, ClearAcknowledgedFrames, AcknowledgeFrameRequest, Call, Types
<1>5. CASE PushSentQueue
  <2>1. Head(fop.sent) \in Slots
    BY <1>5 DEF PushSentQueue, Types, Typed, FopRecord
  <2>2. QED
    BY <1>5, <2>1, StoreOutTyped DEF PushSentQueue, Call, Types
<1>6. CASE ValidClcwArrival
  BY <1>6, ClcwTyped DEF ValidClcwArrival, Types
<1>7. CASE Directive
  BY <1>7, DirectiveTypes
<1>8. QED
  BY <1>1, <1>2, <1>3, <1>4, <1>5, <1>6, <1>7 DEF Next, Handle

LEMMA InitTypes == Init => Types
<1> SUFFICES ASSUME Init PROVE Types
  OBVIOUS
<1>1. [f \in Slots |-> [type |-> "AD", ns |-> 0, ack |-> FALSE, retx |-> FALSE]]
        \in [Slots -> Frames]
  BY FopAssumption DEF Frames, SeqNumbers
<1>2. Typed(fop)
  BY <1>1, FopAssumption DEF Init, Typed, FopRecord, FOPState, SeqNumbers
<1>3. QED
  BY <1>2, FopAssumption DEF Init, Types, SeqNumbers

\* No list of FOP outgrows its capacity and every number stays in its range,
\* whatever the user calls and the CLCWs carry.
THEOREM FopTypeCorrect == Spec => []TypeOK
<1> DEFINE IInv == Types /\ intact \in BOOLEAN
<1>1. Init => IInv
  BY InitTypes DEF Init
<1>2. IInv /\ [Next]_vars => IInv'
  <2> SUFFICES ASSUME IInv, [Next]_vars PROVE IInv'
    OBVIOUS
  <2>1. CASE Next
    <3>1. intact' \in BOOLEAN
      BY <2>1 DEF Next, Observe
    <3>2. QED
      BY <2>1, <3>1, NextTypes
  <2>2. CASE UNCHANGED vars
    BY <2>2 DEF vars, Types
  <2>3. QED
    BY <2>1, <2>2
<1>3. IInv => TypeOK
  BY DEF Types, Typed, TypeOK
<1> HIDE DEF IInv
<1>4. QED
  BY <1>1, <1>2, <1>3, PTL DEF Spec

----------------------------------------------------------------------------
(* The numbers and acknowledgements of the sent queue.                     *)

\* The numbers end just below V(S).
Numbered(q) ==
  \A i \in DOMAIN q.sent :
     q.frames[q.sent[i]].ns = (q.vs - (Len(q.sent) + 1 - i)) % Modulus

\* Behind an unacknowledged frame there is no acknowledged one.
Ordered(q) ==
  \A i, j \in DOMAIN q.sent :
     i < j /\ q.frames[q.sent[j]].ack => q.frames[q.sent[i]].ack

\* A frame that has not been sent.
New(q, f) == ~q.frames[f].ack /\ ~q.frames[f].retx

\* The waiting frames are new, each once in the wait queue and not in the sent queue.
Waiting(q) ==
  \A i \in DOMAIN q.wait :
     /\ New(q, q.wait[i])
     /\ \A j \in DOMAIN q.wait : q.wait[i] = q.wait[j] => i = j
     /\ \A j \in DOMAIN q.sent : q.wait[i] # q.sent[j]

\* The frames of U are new and not in FOP.
Aside(q, U) ==
  \A f \in U :
     /\ f \in Slots /\ New(q, f)
     /\ \A j \in DOMAIN q.wait : f # q.wait[j]
     /\ \A j \in DOMAIN q.sent : f # q.sent[j]

Ready(q, U) == Typed(q) /\ Numbered(q) /\ Ordered(q) /\ Waiting(q) /\ Aside(q, U)

\* r differs from q in what Ready does not speak of.
Like(q, r) ==
  Typed(r) /\ r.vs = q.vs /\ r.wait = q.wait /\ r.sent = q.sent /\ r.frames = q.frames

LEMMA LikeReady ==
  ASSUME NEW q, NEW r, NEW U, Ready(q, U), Like(q, r)
  PROVE  Ready(r, U)
<1>1. Numbered(r)
  BY DEF Like, Ready, Numbered
<1>2. Ordered(r)
  BY DEF Like, Ready, Ordered
<1>3. Waiting(r)
  BY DEF Like, Ready, Waiting, New
<1>4. Aside(r, U)
  BY DEF Like, Ready, Aside, New
<1>5. QED
  BY <1>1, <1>2, <1>3, <1>4 DEF Like, Ready

LEMMA StoreOutLike ==
  ASSUME NEW q, Typed(q), NEW f \in Slots
  PROVE  Like(q, StoreOut(q, f))
<1>1. Typed(StoreOut(q, f))
  BY StoreOutTyped
<1>2. QED
  BY <1>1 DEF Like, StoreOut, Typed, FopRecord

LEMMA ToLike ==
  ASSUME NEW q, Typed(q), NEW s \in FOPState
  PROVE  Like(q, To(q, s))
<1>1. Typed(To(q, s))
  BY PurgeTyped
<1>2. QED
  BY <1>1 DEF Like, To, Typed, FopRecord

LEMMA RemoveLike ==
  ASSUME NEW q, Typed(q)
  PROVE  Like(q, RemoveAcknowledgedFrames(q))
<1>1. Typed(RemoveAcknowledgedFrames(q))
  BY RemoveTyped
<1>2. QED
  BY <1>1 DEF Like, RemoveAcknowledgedFrames, Typed, FopRecord

\* With empty queues only the frames outside matter.
LEMMA EmptyReady ==
  ASSUME NEW q, NEW r, NEW U, Ready(q, U), Typed(r), r.frames = q.frames,
         r.wait = <<>>, r.sent = <<>>
  PROVE  Ready(r, U)
<1>1. DOMAIN r.wait = {} /\ DOMAIN r.sent = {}
  OBVIOUS
<1>2. Numbered(r) /\ Ordered(r) /\ Waiting(r)
  BY <1>1 DEF Numbered, Ordered, Waiting
<1>3. Aside(r, U)
  BY <1>1 DEF Ready, Aside, New
<1>4. QED
  BY <1>2, <1>3 DEF Ready

LEMMA PurgeReady ==
  ASSUME NEW q, NEW U, Ready(q, U), NEW s \in FOPState
  PROVE  Ready(Alert(q), U) /\ Ready(Initialize(q, s), U)
<1>1. Typed(Alert(q)) /\ Typed(Initialize(q, s))
  BY PurgeTyped DEF Ready
<1>2. /\ Alert(q).frames = q.frames /\ Alert(q).wait = <<>> /\ Alert(q).sent = <<>>
      /\ Initialize(q, s).frames = q.frames
      /\ Initialize(q, s).wait = <<>> /\ Initialize(q, s).sent = <<>>
  BY DEF Ready, Typed, FopRecord, Alert, Initialize, PurgeQueues
<1>3. QED
  BY <1>1, <1>2, EmptyReady

\* One step back from the number after n, two steps back from it, ...
LEMMA StepsBack ==
  ASSUME NEW n \in SeqNumbers, NEW d \in 1..Modulus - 1
  PROVE  /\ (((n + 1) % Modulus) - (d + 1)) % Modulus = (n - d) % Modulus
         /\ (((n + 1) % Modulus) - 1) % Modulus = n
         /\ (n - d) % Modulus = IF d <= n THEN n - d ELSE n - d + Modulus
BY FopAssumption DEF SeqNumbers

\* transmitAdFrame gives the first waiting frame a number and moves it to the sent queue.
Sends(q, r) ==
  LET f == Head(q.wait)
  IN  /\ Typed(r) /\ Len(q.sent) < SentQueueCap
      /\ f \in Slots /\ f = q.wait[1] /\ 1 \in DOMAIN q.wait
      /\ r.vs = IF q.frames[f].retx THEN q.vs ELSE (q.vs + 1) % Modulus
      /\ r.nnr = q.nnr
      /\ r.frames[f].ns = q.vs /\ r.frames[f].ack = q.frames[f].ack
      /\ r.frames[f].type = q.frames[f].type /\ r.frames[f].retx = FALSE
      /\ \A g \in Slots \ {f} : r.frames[g] = q.frames[g]
      /\ DOMAIN q.sent = 1..Len(q.sent) /\ Len(q.sent) \in Nat
      /\ DOMAIN r.sent = 1..Len(q.sent) + 1 /\ Len(r.sent) = Len(q.sent) + 1
      /\ \A i \in 1..Len(q.sent) : r.sent[i] = q.sent[i]
      /\ r.sent[Len(q.sent) + 1] = f
      /\ DOMAIN q.wait = 1..Len(q.wait) /\ Len(q.wait) \in Nat
      /\ DOMAIN r.wait = 1..Len(q.wait) - 1 /\ Len(r.wait) = Len(q.wait) - 1
      /\ \A i \in 1..Len(q.wait) - 1 : r.wait[i] = q.wait[i + 1]

LEMMA TransmitEffect ==
  ASSUME NEW q, Typed(q)
  PROVE  LET r == TransmitAdFrame(q)
         IN  (Like(q, r) /\ r.nnr = q.nnr) \/ Sends(q, r)
<1> DEFINE counted == IF q.sent = <<>> THEN [q EXCEPT !.count = 1] ELSE q
           f == Head(q.wait)
           moved == [counted EXCEPT
                  !.frames[f].ns = q.vs,
                  !.frames[f].retx = FALSE,
                  !.vs = IF q.frames[f].retx THEN @ ELSE (@ + 1) % Modulus,
                  !.sent = Append(@, f),
                  !.wait = Tail(@)]
           r == StoreOut(moved, f)
<1>1. Typed(TransmitAdFrame(q))
  BY TransmitTyped
<1>2. Typed(counted)
  BY Resets
<1>3. /\ counted.frames = q.frames /\ counted.vs = q.vs /\ counted.nnr = q.nnr
      /\ counted.sent = q.sent /\ counted.wait = q.wait
  BY DEF Typed, FopRecord
<1>4. CASE Len(q.sent) = SentQueueCap \/ q.wait = <<>>
  <2>1. TransmitAdFrame(q) \in {q, counted}
    BY <1>4 DEF TransmitAdFrame
  <2> HIDE DEF counted
  <2>2. QED
    BY <1>2, <1>3, <2>1 DEF Like
<1>5. CASE Len(q.sent) # SentQueueCap /\ q.wait # <<>>
  <2>1. TransmitAdFrame(q) = r
    BY <1>5 DEF TransmitAdFrame
  <2>2. /\ q.sent \in Seq(Slots) /\ q.wait \in Seq(Slots) /\ q.frames \in [Slots -> Frames]
        /\ q.vs \in SeqNumbers /\ Len(q.sent) <= SentQueueCap
    BY FieldTypes
  <2> HIDE DEF counted
  <2>3. f = q.wait[1] /\ 1 \in DOMAIN q.wait /\ f \in Slots
    BY <1>5, <2>2
  <2>4. /\ moved.vs = IF q.frames[f].retx THEN q.vs ELSE (q.vs + 1) % Modulus
        /\ moved.nnr = q.nnr
        /\ moved.sent = Append(q.sent, f) /\ moved.wait = Tail(q.wait)
        /\ moved.frames = [q.frames EXCEPT ![f].ns = q.vs, ![f].retx = FALSE]
    BY <1>2, <1>3, <2>3 DEF Typed, FopRecord
  <2> HIDE DEF moved
  <2>5. /\ r.vs = moved.vs /\ r.nnr = moved.nnr
        /\ r.sent = moved.sent /\ r.wait = moved.wait /\ r.frames = moved.frames
    BY <1>1, <2>1 DEF StoreOut, Typed, FopRecord
  <2> HIDE DEF r, f
  <2>6. /\ r.frames[f].ns = q.vs /\ r.frames[f].ack = q.frames[f].ack
        /\ r.frames[f].type = q.frames[f].type /\ r.frames[f].retx = FALSE
        /\ \A g \in Slots \ {f} : r.frames[g] = q.frames[g]
    <3>1. r.frames = [q.frames EXCEPT ![f].ns = q.vs, ![f].retx = FALSE]
      BY <2>4, <2>5
    <3>2. q.frames \in [Slots -> Frames] /\ f \in Slots
      BY <2>2, <2>3
    <3>3. QED
      BY ONLY <3>1, <3>2 DEF Frames
  <2>7. /\ Len(r.sent) = Len(q.sent) + 1 /\ DOMAIN r.sent = 1..Len(q.sent) + 1
        /\ \A i \in 1..Len(q.sent) : r.sent[i] = q.sent[i]
        /\ r.sent[Len(q.sent) + 1] = f
    BY <2>2, <2>3, <2>4, <2>5, AppendProperties
  <2>8. /\ Len(q.wait) \in Nat /\ DOMAIN r.wait = 1..Len(q.wait) - 1
        /\ Len(r.wait) = Len(q.wait) - 1
        /\ \A i \in 1..Len(q.wait) - 1 : r.wait[i] = q.wait[i + 1]
    BY <1>5, <2>2, <2>4, <2>5
  <2>9. Len(q.sent) < SentQueueCap /\ Len(q.sent) \in Nat
    BY <1>5, <2>2, FopAssumption
  <2>10. DOMAIN q.sent = 1..Len(q.sent) /\ DOMAIN q.wait = 1..Len(q.wait)
    BY <2>2
  <2>11. Sends(q, r)
    BY <1>1, <2>1, <2>3, <2>4, <2>5, <2>6, <2>7, <2>8, <2>9, <2>10 DEF Sends, f
  <2>12. QED
    BY <2>1, <2>11
<1>6. QED
  BY <1>4, <1>5

\* The frame is new, so it takes V(S) and V(S) moves on.
LEMMA TransmitReady ==
  ASSUME NEW q, NEW U, Ready(q, U)
  PROVE  Ready(TransmitAdFrame(q), U)
<1> DEFINE f == Head(q.wait)
           r == TransmitAdFrame(q)
<1>1. Typed(q) /\ Typed(r)
  BY TransmitTyped DEF Ready
<1>2. CASE Like(q, r)
  BY <1>2, LikeReady
<1>3. CASE Sends(q, r)
  <2> HIDE DEF r
  <2>1. /\ q.sent \in Seq(Slots) /\ q.wait \in Seq(Slots) /\ q.frames \in [Slots -> Frames]
        /\ q.vs \in SeqNumbers /\ Len(q.sent) <= SentQueueCap
    BY <1>1, FieldTypes
  <2>2. f = q.wait[1] /\ 1 \in DOMAIN q.wait
    BY <1>3 DEF Sends
  <2>3. f \in Slots /\ New(q, f)
    BY <1>3, <2>2 DEF Ready, Waiting, Sends
  <2>4. r.vs = (q.vs + 1) % Modulus
    BY <1>3, <2>3 DEF Sends, New
  <2>5. /\ r.frames[f].ns = q.vs /\ ~r.frames[f].ack /\ ~r.frames[f].retx
        /\ \A g \in Slots \ {f} : r.frames[g] = q.frames[g]
    BY <1>3, <2>3 DEF Sends, New
  <2> HIDE DEF f
  <2>6. /\ Len(r.sent) = Len(q.sent) + 1 /\ DOMAIN r.sent = 1..Len(q.sent) + 1
        /\ \A i \in 1..Len(q.sent) : r.sent[i] = q.sent[i]
        /\ r.sent[Len(q.sent) + 1] = f
    BY <1>3 DEF Sends, f
  <2>7. /\ Len(q.wait) \in Nat /\ DOMAIN r.wait = 1..Len(q.wait) - 1
         /\ \A i \in 1..Len(q.wait) - 1 : r.wait[i] = q.wait[i + 1]
    BY <1>3 DEF Sends
  <2>8. \A i \in 1..Len(q.sent) : q.sent[i] \in Slots \ {f} /\ i \in DOMAIN q.sent
    BY <2>1, <2>2 DEF Ready, Waiting
  <2>9. Len(q.sent) \in Nat /\ Len(q.sent) + 1 <= Modulus - 1
    BY <1>3, FopAssumption DEF Sends
  <2>10. Numbered(r)
    <3> SUFFICES ASSUME NEW i \in 1..Len(q.sent) + 1
                 PROVE  r.frames[r.sent[i]].ns = (r.vs - (Len(r.sent) + 1 - i)) % Modulus
      BY <2>6 DEF Numbered
    <3>1. Len(r.sent) + 1 - i = Len(q.sent) + 2 - i
      BY <2>6, <2>9
    <3>2. CASE i = Len(q.sent) + 1
      <4>1. Len(r.sent) + 1 - i = 1 /\ r.frames[r.sent[i]].ns = q.vs
        BY <2>5, <2>6, <2>9, <3>1, <3>2
      <4>2. 1 \in 1..Modulus - 1
        BY FopAssumption
      <4>3. (r.vs - 1) % Modulus = q.vs
        BY <2>1, <2>4, <4>2, StepsBack
      <4>4. QED
        BY <4>1, <4>3
    <3>3. CASE i \in 1..Len(q.sent)
      <4> DEFINE d == Len(q.sent) + 1 - i
      <4>1. d \in 1..Modulus - 1
        BY <2>9, <3>3, FopAssumption
      <4>2. r.frames[r.sent[i]].ns = (q.vs - d) % Modulus
        BY <2>5, <2>6, <2>8, <3>3 DEF Ready, Numbered
      <4>3. Len(q.sent) + 2 - i = d + 1
        BY <2>9, <3>3
      <4> HIDE DEF d
      <4>4. QED
        <5>1. (r.vs - (d + 1)) % Modulus = (q.vs - d) % Modulus
          BY <2>1, <2>4, <4>1, StepsBack
        <5>2. QED
          BY <3>1, <4>2, <4>3, <5>1
    <3>4. QED
      BY <2>9, <3>2, <3>3
  <2>11. Ordered(r)
    <3> SUFFICES ASSUME NEW i \in 1..Len(q.sent) + 1, NEW j \in 1..Len(q.sent) + 1,
                        i < j, r.frames[r.sent[j]].ack
                 PROVE  r.frames[r.sent[i]].ack
      BY <2>6 DEF Ordered
    <3>1. j # Len(q.sent) + 1
      BY <2>5, <2>6
    <3>2. i \in 1..Len(q.sent) /\ j \in 1..Len(q.sent)
      BY <2>9, <3>1
    <3>3. /\ r.frames[r.sent[i]] = q.frames[q.sent[i]]
          /\ r.frames[r.sent[j]] = q.frames[q.sent[j]]
      BY <2>5, <2>6, <2>8, <3>2
    <3>4. QED
      BY <2>8, <3>2, <3>3 DEF Ready, Ordered
  <2>12. Waiting(r)
    <3> SUFFICES ASSUME NEW i \in 1..Len(q.wait) - 1
                 PROVE  /\ New(r, r.wait[i])
                        /\ \A j \in 1..Len(q.wait) - 1 : r.wait[i] = r.wait[j] => i = j
                        /\ \A j \in 1..Len(q.sent) + 1 : r.wait[i] # r.sent[j]
      BY <2>6, <2>7 DEF Waiting
    <3>1. i + 1 \in DOMAIN q.wait /\ i + 1 # 1 /\ DOMAIN q.wait = 1..Len(q.wait)
      BY <2>1, <2>7
    <3>2. q.wait[i + 1] \in Slots \ {f}
      BY <2>1, <2>2, <3>1 DEF Ready, Waiting
    <3>3. New(r, r.wait[i])
      BY <2>5, <2>7, <3>1, <3>2 DEF Ready, Waiting, New
    <3>4. ASSUME NEW j \in 1..Len(q.wait) - 1, r.wait[i] = r.wait[j] PROVE i = j
      <4>1. q.wait[i + 1] = q.wait[j + 1] /\ j + 1 \in DOMAIN q.wait
        BY <2>7, <3>1, <3>4
      <4>2. i + 1 = j + 1
        BY <3>1, <4>1 DEF Ready, Waiting
      <4>3. QED
        BY <4>2
    <3>5. ASSUME NEW j \in 1..Len(q.sent) + 1 PROVE r.wait[i] # r.sent[j]
      <4>1. CASE j = Len(q.sent) + 1
        BY <2>6, <2>7, <3>2, <4>1
      <4>2. CASE j \in 1..Len(q.sent)
        <5>1. j \in DOMAIN q.sent /\ r.sent[j] = q.sent[j] /\ r.wait[i] = q.wait[i + 1]
          BY <2>6, <2>7, <2>8, <4>2
        <5>2. q.wait[i + 1] # q.sent[j]
          BY <3>1, <5>1 DEF Ready, Waiting
        <5>3. QED
          BY <5>1, <5>2
      <4>3. QED
        BY <2>9, <4>1, <4>2
    <3>6. QED
      BY <3>3, <3>4, <3>5
  <2>13. Aside(r, U)
    <3> SUFFICES ASSUME NEW g \in U
                 PROVE  /\ g \in Slots /\ New(r, g)
                        /\ \A j \in 1..Len(q.wait) - 1 : g # r.wait[j]
                        /\ \A j \in 1..Len(q.sent) + 1 : g # r.sent[j]
      BY <2>6, <2>7 DEF Aside
    <3>1. g # f
      BY <2>2 DEF Ready, Aside
    <3>2. r.frames[g] = q.frames[g]
      BY <2>5, <3>1 DEF Ready, Aside
    <3>3. ASSUME NEW j \in 1..Len(q.wait) - 1 PROVE g # r.wait[j]
      <4>1. j + 1 \in DOMAIN q.wait
        BY <2>1, <2>7
      <4>2. QED
        BY <2>7, <4>1 DEF Ready, Aside
    <3>4. ASSUME NEW j \in 1..Len(q.sent) + 1 PROVE g # r.sent[j]
      BY <2>6, <2>8, <2>9, <3>1 DEF Ready, Aside
    <3>5. QED
      BY <3>2, <3>3, <3>4 DEF Ready, Aside, New
  <2>14. QED
    BY <1>1, <2>10, <2>11, <2>12, <2>13 DEF Ready, r
<1>4. QED
  BY <1>2, <1>3, TransmitEffect DEF Ready

LEMMA LookReady ==
  ASSUME NEW q, NEW U, Ready(q, U)
  PROVE  Ready(LookForFdu(q), U)
BY TransmitReady DEF LookForFdu

\* initiateAdRetransmission counts and marks, and no more.
LEMMA RetransmissionEffect ==
  ASSUME NEW q, Typed(q)
  PROVE  LET r == InitiateAdRetransmission(q)
         IN  /\ r.vs = q.vs /\ r.nnr = q.nnr /\ r.wait = q.wait /\ r.sent = q.sent
             /\ \A f \in Slots : /\ r.frames[f].ns = q.frames[f].ns
                                 /\ r.frames[f].type = q.frames[f].type
                                 /\ r.frames[f].ack = q.frames[f].ack
                                 /\ f \in ToSet(q.sent) \/ r.frames[f].retx = q.frames[f].retx
<1> DEFINE marks == [f \in Slots |->
              [q.frames[f] EXCEPT
                 !.retx = @ \/ (f \in ToSet(q.sent) /\ q.frames[f].type = "AD")]]
           count == IF q.count = 255 THEN 0 ELSE q.count + 1
           r == InitiateAdRetransmission(q)
<1>1. r = [q EXCEPT !.count = count, !.frames = marks]
  BY DEF InitiateAdRetransmission, Typed, FopRecord
<1> HIDE DEF marks, count, r
<1>2. /\ r.vs = q.vs /\ r.nnr = q.nnr /\ r.wait = q.wait /\ r.sent = q.sent
      /\ r.frames = marks
  BY <1>1 DEF Typed, FopRecord
<1>3. \A f \in Slots : q.frames[f] \in Frames
  BY FieldTypes
<1>4. ASSUME NEW f \in Slots
      PROVE  /\ marks[f].ns = q.frames[f].ns /\ marks[f].type = q.frames[f].type
             /\ marks[f].ack = q.frames[f].ack
             /\ f \in ToSet(q.sent) \/ marks[f].retx = q.frames[f].retx
  BY <1>3 DEF marks, Frames
<1>5. QED
  BY <1>2, <1>4 DEF r

\* Marking sent frames for retransmission changes neither numbers nor acknowledgements,
\* and no frame that is not sent.
LEMMA RetransmissionReady ==
  ASSUME NEW q, NEW U, Ready(q, U)
  PROVE  Ready(InitiateAdRetransmission(q), U)
<1> DEFINE r == InitiateAdRetransmission(q)
<1>1. Typed(q) /\ Typed(r)
  BY RetransmissionTyped DEF Ready
<1>2. /\ r.vs = q.vs /\ r.wait = q.wait /\ r.sent = q.sent
      /\ \A f \in Slots : /\ r.frames[f].ns = q.frames[f].ns
                          /\ r.frames[f].ack = q.frames[f].ack
                          /\ f \in ToSet(q.sent) \/ r.frames[f].retx = q.frames[f].retx
  BY <1>1, RetransmissionEffect
<1> HIDE DEF r
<1>3. /\ \A i \in DOMAIN q.sent : q.sent[i] \in Slots
      /\ \A i \in DOMAIN q.wait : q.wait[i] \in Slots
  BY <1>1, FieldTypes
<1>4. Numbered(r)
  BY <1>2, <1>3 DEF Ready, Numbered
<1>5. Ordered(r)
  BY <1>2, <1>3 DEF Ready, Ordered
<1>6. \A i \in DOMAIN q.wait : New(r, q.wait[i])
  BY <1>2, <1>3 DEF Ready, Waiting, New, ToSet
<1>7. Waiting(r)
  BY <1>2, <1>6 DEF Ready, Waiting
<1>8. \A f \in U : New(r, f)
  BY <1>2, <1>3 DEF Ready, Aside, New, ToSet
<1>9. Aside(r, U)
  BY <1>2, <1>8 DEF Ready, Aside
<1>10. QED
  BY <1>1, <1>4, <1>5, <1>7, <1>9 DEF Ready, r

\* In a sent queue with consecutive numbers, those below a report and those above V(S)
\* are at its front.
LEMMA ReportReady ==
  ASSUME NEW q, NEW U, Ready(q, U), NEW report \in SeqNumbers
  PROVE  Ready(AcknowledgePreviousFrames(q, report), U)
<1> DEFINE ns == {n \in SeqNumbers : n < report \/ n > q.vs}
           a == Acknowledge(q, ns)
           r == AcknowledgePreviousFrames(q, report)
<1>1. Typed(q) /\ Typed(a) /\ Typed(r)
  BY AcknowledgeTyped, ReportTyped DEF Ready
<1>2. r = [a EXCEPT !.nnr = report]
  BY DEF AcknowledgePreviousFrames
<1>3. /\ a.vs = q.vs /\ a.wait = q.wait /\ a.sent = q.sent
      /\ a.frames = [f \in Slots |->
           [q.frames[f] EXCEPT !.ack = @ \/ (f \in ToSet(q.sent) /\ q.frames[f].ns \in ns)]]
  BY <1>1 DEF Acknowledge, Typed, FopRecord
<1> HIDE DEF ns, a, r
<1>4. r.vs = q.vs /\ r.wait = q.wait /\ r.sent = q.sent /\ r.frames = a.frames
  BY <1>1, <1>2, <1>3 DEF Typed, FopRecord
<1>5. \A f \in Slots : q.frames[f] \in Frames
  BY <1>1, FieldTypes
<1>6. \A f \in Slots : /\ r.frames[f].ns = q.frames[f].ns
                       /\ r.frames[f].retx = q.frames[f].retx
                       /\ r.frames[f].ack <=>
                            q.frames[f].ack \/ (f \in ToSet(q.sent) /\ q.frames[f].ns \in ns)
  <2> SUFFICES ASSUME NEW f \in Slots
               PROVE  /\ r.frames[f].ns = q.frames[f].ns
                      /\ r.frames[f].retx = q.frames[f].retx
                      /\ r.frames[f].ack <=>
                           q.frames[f].ack \/ (f \in ToSet(q.sent) /\ q.frames[f].ns \in ns)
    OBVIOUS
  <2> DEFINE marked == f \in ToSet(q.sent) /\ q.frames[f].ns \in ns
  <2>1. r.frames[f] = [q.frames[f] EXCEPT !.ack = q.frames[f].ack \/ marked]
    BY <1>3, <1>4
  <2>2. q.frames[f] \in Frames
    BY <1>5
  <2> HIDE DEF marked
  <2>3. /\ r.frames[f].ns = q.frames[f].ns /\ r.frames[f].retx = q.frames[f].retx
        /\ r.frames[f].ack = (q.frames[f].ack \/ marked)
    BY <2>1, <2>2 DEF Frames
  <2>4. QED
    BY <2>3 DEF marked
<1>7. /\ \A i \in DOMAIN q.sent : q.sent[i] \in Slots /\ q.sent[i] \in ToSet(q.sent)
      /\ \A i \in DOMAIN q.wait : q.wait[i] \in Slots
  BY <1>1, FieldTypes DEF ToSet
<1>8. Numbered(r)
  BY <1>4, <1>6, <1>7 DEF Ready, Numbered
<1>9. Ordered(r)
  <2> SUFFICES ASSUME NEW i \in DOMAIN q.sent, NEW j \in DOMAIN q.sent, i < j,
                      r.frames[q.sent[j]].ack
               PROVE  r.frames[q.sent[i]].ack
    BY <1>4 DEF Ordered
  <2>1. CASE q.frames[q.sent[j]].ack
    <3>1. q.frames[q.sent[i]].ack
      BY <2>1 DEF Ready, Ordered
    <3>2. QED
      BY <1>6, <1>7, <3>1
  <2>2. CASE q.frames[q.sent[j]].ns \in ns
    <3> DEFINE back(k) == Len(q.sent) + 1 - k
               n(k) == q.frames[q.sent[k]].ns
    <3>1. /\ q.sent \in Seq(Slots) /\ Len(q.sent) <= SentQueueCap /\ q.vs \in SeqNumbers
          /\ n(i) \in SeqNumbers
      BY <1>1, <1>5, <1>7, FieldTypes DEF Frames
    <3>2. /\ back(i) \in 1..Modulus - 1 /\ back(j) \in 1..Modulus - 1 /\ back(j) < back(i)
      BY <3>1, FopAssumption
    <3>3. /\ n(i) = (q.vs - back(i)) % Modulus
          /\ n(j) = (q.vs - back(j)) % Modulus
      BY DEF Ready, Numbered
    <3> HIDE DEF back, n
    <3>4. /\ n(i) = IF back(i) <= q.vs THEN q.vs - back(i) ELSE q.vs - back(i) + Modulus
          /\ n(j) = IF back(j) <= q.vs THEN q.vs - back(j) ELSE q.vs - back(j) + Modulus
      BY <3>1, <3>2, <3>3, StepsBack
    <3>5. n(j) < report \/ n(j) > q.vs
      BY <2>2 DEF ns, n
    <3>6. n(i) < report \/ n(i) > q.vs
      BY <3>1, <3>2, <3>4, <3>5, FopAssumption DEF SeqNumbers
    <3>7. n(i) \in ns
      BY <3>1, <3>6 DEF ns
    <3>8. QED
      BY <1>6, <1>7, <3>7 DEF n
  <2>3. QED
    BY <1>6, <1>7, <2>1, <2>2
<1>10. \A i \in DOMAIN q.wait : New(r, q.wait[i])
  BY <1>6, <1>7 DEF Ready, Waiting, New, ToSet
<1>11. Waiting(r)
  BY <1>4, <1>10 DEF Ready, Waiting
<1>12. \A f \in U : New(r, f)
  BY <1>6, <1>7 DEF Ready, Aside, New, ToSet
<1>13. Aside(r, U)
  BY <1>4, <1>12 DEF Ready, Aside
<1>14. QED
  BY <1>1, <1>8, <1>9, <1>11, <1>13 DEF Ready, r

LEMMA ClcwReady ==
  ASSUME NEW U, Ready(fop, U), NEW c \in Clcws, ClcwArrives(c)
  PROVE  Ready(fop', U)
<1> DEFINE removed == RemoveAcknowledgedFrames(fop)
           marked == InitiateAdRetransmission(fop)
           renewed == InitiateAdRetransmission(removed)
<1>1. ASSUME NEW S, NEW q, Ready(q, U), React(c, S, q)
      PROVE  Ready(fop', U)
  <2>1. c.report \in SeqNumbers
    BY DEF Clcws
  <2>2. QED
    BY <1>1, <2>1, ReportReady DEF React, Call
<1>2. Typed(fop)
  BY DEF Ready
<1>3. Ready(removed, U) /\ Ready(marked, U)
  BY <1>2, RemoveLike, LikeReady, RetransmissionReady
<1>4. Ready(renewed, U)
  BY <1>3, RetransmissionReady
<1>5. /\ Ready(LookForFdu(removed), U) /\ Ready(LookForFdu(marked), U)
      /\ Ready(LookForFdu(renewed), U)
  BY <1>3, <1>4, LookReady
<1> HIDE DEF removed, marked, renewed
<1>6. \A q : Ready(q, U) => Ready(Alert(q), U) /\ \A s \in FOPState : Ready(To(q, s), U)
  <2> SUFFICES ASSUME NEW q, Ready(q, U)
               PROVE  Ready(Alert(q), U) /\ \A s \in FOPState : Ready(To(q, s), U)
    OBVIOUS
  <2>1. "INITIAL" \in FOPState /\ Typed(q)
    BY DEF FOPState, Ready
  <2>2. QED
    BY <2>1, PurgeReady, ToLike, LikeReady
<1>7. {"ACTIVE", "RETRANSMIT_WITHOUT_WAIT", "RETRANSMIT_WITH_WAIT"} \subseteq FOPState
  BY DEF FOPState
<1>8. CASE E1(c) \/ E3(c) \/ E4(c) \/ E5(c) \/ E7(c) \/ E102(c) \/ E13(c) \/ E14(c)
  BY <1>1, <1>6, <1>7, <1>8 DEF E1, E3, E4, E5, E7, E102, E13, E14
<1>9. CASE E2(c) \/ E6(c) \/ E101(c) \/ E9(c)
  BY <1>1, <1>3, <1>5, <1>6, <1>7, <1>9 DEF E2, E6, E101, E9, removed
<1>10. CASE E8(c) \/ E10(c)
  BY <1>1, <1>5, <1>6, <1>7, <1>10 DEF E8, E10, renewed, marked, removed
<1>11. CASE E11(c) \/ E12(c) \/ LimitZero(c)
  BY <1>1, <1>6, <1>7, <1>11 DEF E11, E12, LimitZero
<1>12. QED
  BY <1>8, <1>9, <1>10, <1>11 DEF ClcwArrives, AtVs, BeforeVs

\* transmitAdFrame acknowledges nothing and marks nothing for retransmission.
LEMMA TransmitKeepsNew ==
  ASSUME NEW q, Typed(q), NEW g \in Slots, New(q, g)
  PROVE  New(TransmitAdFrame(q), g)
<1> DEFINE r == TransmitAdFrame(q)
<1>1. CASE Like(q, r)
  BY <1>1 DEF Like, New
<1>2. CASE Sends(q, r)
  BY <1>2 DEF Sends, New
<1>3. QED
  BY <1>1, <1>2, TransmitEffect

LEMMA TransferReady ==
  ASSUME NEW q, NEW U, Ready(q, U), NEW f \in U
  PROVE  /\ Ready(TransferFdu(q, f), {})
         /\ \A g \in U : New(TransferFdu(q, f), g)
<1> DEFINE queued == [q EXCEPT !.wait = Append(@, f)]
           reset == [q EXCEPT !.frames = [@ EXCEPT ![f].retx = FALSE], !.count = 1]
<1>1. Typed(q) /\ f \in Slots /\ New(q, f) /\ \A g \in U : g \in Slots /\ New(q, g)
  BY DEF Ready, Aside
<1>2. Ready(q, {})
  BY DEF Ready, Aside
<1>3. Like(q, reset)
  <2>1. [q.frames EXCEPT ![f].retx = FALSE] = q.frames
    <3>1. q.frames \in [Slots -> Frames] /\ q.frames[f].retx = FALSE
      BY <1>1, FieldTypes DEF New, Frames
    <3>2. [q.frames[f] EXCEPT !.retx = FALSE] = q.frames[f]
      BY <1>1, <3>1 DEF Frames
    <3>3. QED
      BY <1>1, <3>1, <3>2
  <2>2. Typed([q EXCEPT !.count = 1])
    BY <1>1, Resets
  <2>3. reset = [q EXCEPT !.count = 1]
    BY <1>1, <2>1 DEF Typed, FopRecord
  <2>4. QED
    BY <1>1, <2>2, <2>3 DEF Like, Typed, FopRecord
<1>4. CASE TransferFdu(q, f) \in {q, StoreOut(reset, f), StoreOut(q, f)}
  <2> HIDE DEF reset
  <2>1. \A r : Like(q, r) => Ready(r, {}) /\ \A g \in U : New(r, g)
    BY <1>1, <1>2, LikeReady DEF Like, New
  <2>2. Like(q, q) /\ Like(q, StoreOut(q, f)) /\ Like(reset, StoreOut(reset, f))
    BY <1>1, <1>3, StoreOutLike DEF Like
  <2>3. Like(q, StoreOut(reset, f))
    BY <1>3, <2>2 DEF Like
  <2>4. QED
    BY <1>4, <2>1, <2>2, <2>3
<1>5. CASE TransferFdu(q, f) \in {queued, LookForFdu(queued)} /\ Len(q.wait) # WaitQueueCap
  <2>1. /\ q.wait \in Seq(Slots) /\ q.sent \in Seq(Slots) /\ Len(q.wait) <= WaitQueueCap
    BY <1>1, FieldTypes
  <2>2. Append(q.wait, f) \in Seq(Slots) /\ Len(Append(q.wait, f)) <= WaitQueueCap
    BY <1>1, <1>5, <2>1, FopAssumption
  <2>3. Typed(queued)
    BY <1>1, <2>2, Updates
  <2>4. /\ queued.vs = q.vs /\ queued.sent = q.sent /\ queued.frames = q.frames
        /\ queued.wait = Append(q.wait, f)
    BY <1>1 DEF Typed, FopRecord
  <2> HIDE DEF queued
  <2>5. /\ DOMAIN queued.wait = 1..Len(q.wait) + 1 /\ queued.wait[Len(q.wait) + 1] = f
        /\ DOMAIN q.wait = 1..Len(q.wait) /\ Len(q.wait) \in Nat
        /\ \A i \in 1..Len(q.wait) : queued.wait[i] = q.wait[i]
    BY <1>1, <2>1, <2>4
  <2>6. Numbered(queued) /\ Ordered(queued)
    BY <2>4 DEF Ready, Numbered, Ordered
  <2>7. Waiting(queued)
    <3>1. \A i \in 1..Len(q.wait) : q.wait[i] # f
      BY <2>5 DEF Ready, Aside
    <3>2. ASSUME NEW i \in 1..Len(q.wait) + 1 PROVE New(queued, queued.wait[i])
      BY <1>1, <2>4, <2>5 DEF Ready, Waiting, New
    <3>3. ASSUME NEW i \in 1..Len(q.wait) + 1, NEW j \in 1..Len(q.wait) + 1,
                 queued.wait[i] = queued.wait[j]
          PROVE  i = j
      BY <2>5, <3>1, <3>3 DEF Ready, Waiting
    <3>4. ASSUME NEW i \in 1..Len(q.wait) + 1, NEW j \in DOMAIN q.sent
          PROVE  queued.wait[i] # queued.sent[j]
      BY <2>4, <2>5 DEF Ready, Waiting, Aside
    <3>5. QED
      BY <2>4, <2>5, <3>2, <3>3, <3>4 DEF Waiting
  <2>8. Ready(queued, {})
    BY <2>3, <2>6, <2>7 DEF Ready, Aside
  <2>9. Ready(LookForFdu(queued), {})
    BY <2>8, LookReady
  <2>10. \A g \in U : New(queued, g) /\ New(LookForFdu(queued), g)
    BY <1>1, <2>3, <2>4, TransmitKeepsNew DEF New, LookForFdu
  <2>11. QED
    BY <1>5, <2>8, <2>9, <2>10 DEF queued
<1>6. QED
  BY <1>4, <1>5 DEF TransferFdu

\* What Placed says of the single lists.
LEMMA PlacedApart ==
  ASSUME NEW q, Typed(q), NEW u \in Seq(Slots), Placed(q, u)
  PROVE  /\ \A i \in DOMAIN u, j \in DOMAIN q.wait : u[i] # q.wait[j]
         /\ \A i \in DOMAIN u, j \in DOMAIN q.sent : u[i] # q.sent[j]
         /\ \A i \in DOMAIN q.wait, j \in DOMAIN q.sent : q.wait[i] # q.sent[j]
         /\ \A i, j \in DOMAIN q.wait : q.wait[i] = q.wait[j] => i = j
         /\ \A i \in DOMAIN u : u[i] \in q.master
         /\ \A i \in DOMAIN q.wait : q.wait[i] \in q.master
         /\ \A i \in DOMAIN q.sent : q.sent[i] \in q.master
<1> DEFINE front == u \o q.wait
           all == front \o q.sent
           n == Len(u)
           m == Len(q.wait)
           k == Len(q.sent)
<1>1. q.wait \in Seq(Slots) /\ q.sent \in Seq(Slots)
  BY FieldTypes
<1>2. n \in Nat /\ m \in Nat /\ k \in Nat
  BY <1>1
<1>3. /\ DOMAIN u = 1..n /\ DOMAIN q.wait = 1..m /\ DOMAIN q.sent = 1..k
  BY <1>1
<1>4. /\ front \in Seq(Slots) /\ Len(front) = n + m
      /\ \A i \in 1..n + m : front[i] = IF i <= n THEN u[i] ELSE q.wait[i - n]
  BY <1>1, ConcatProperties
<1> HIDE DEF front, n, m
<1>5. /\ all \in Seq(Slots) /\ Len(all) = n + m + k
      /\ \A i \in 1..n + m + k :
            all[i] = IF i <= n + m THEN front[i] ELSE q.sent[i - (n + m)]
  <2>1. /\ all \in Seq(Slots) /\ Len(all) = Len(front) + Len(q.sent)
        /\ \A i \in 1..Len(front) + Len(q.sent) :
              all[i] = IF i <= Len(front) THEN front[i] ELSE q.sent[i - Len(front)]
    BY <1>1, <1>4, ConcatProperties
  <2>2. QED
    BY <1>4, <2>1, Zenon DEF k
<1>6. /\ \A i \in DOMAIN all : all[i] \in q.master
      /\ \A i, j \in DOMAIN all : all[i] = all[j] => i = j
  BY DEF Placed, ToSet, front
<1>7. DOMAIN all = 1..n + m + k
  BY <1>5, LenProperties
<1> HIDE DEF all, n, m, k
<1>8. \A i \in 1..n : i \in DOMAIN all /\ u[i] = all[i]
  BY <1>2, <1>4, <1>5, <1>7
<1>9. \A i \in 1..m : n + i \in DOMAIN all /\ q.wait[i] = all[n + i]
  <2> SUFFICES ASSUME NEW i \in 1..m
               PROVE  n + i \in DOMAIN all /\ q.wait[i] = all[n + i]
    OBVIOUS
  <2>1. n + i \in 1..n + m /\ ~(n + i <= n) /\ n + i - n = i /\ n + i \in 1..n + m + k
    BY <1>2
  <2>2. QED
    BY <1>4, <1>5, <1>7, <2>1, <1>2
<1>10. \A i \in 1..k : n + m + i \in DOMAIN all /\ q.sent[i] = all[n + m + i]
  <2> SUFFICES ASSUME NEW i \in 1..k
               PROVE  n + m + i \in DOMAIN all /\ q.sent[i] = all[n + m + i]
    OBVIOUS
  <2>1. /\ n + m + i \in 1..n + m + k /\ ~(n + m + i <= n + m)
        /\ n + m + i - (n + m) = i
    BY <1>2
  <2>2. QED
    BY <1>2, <1>5, <1>7, <2>1
<1>11. \A i \in 1..n, j \in 1..m : u[i] # q.wait[j]
  BY <1>2, <1>6, <1>8, <1>9
<1>12. \A i \in 1..n, j \in 1..k : u[i] # q.sent[j]
  BY <1>2, <1>6, <1>8, <1>10
<1>13. \A i \in 1..m, j \in 1..k : q.wait[i] # q.sent[j]
  BY <1>2, <1>6, <1>9, <1>10
<1>14. \A i, j \in 1..m : q.wait[i] = q.wait[j] => i = j
  <2> SUFFICES ASSUME NEW i \in 1..m, NEW j \in 1..m, q.wait[i] = q.wait[j] PROVE i = j
    OBVIOUS
  <2>1. n + i = n + j
    BY <1>6, <1>9
  <2>2. QED
    BY <1>2, <2>1
<1>15. QED
  BY <1>3, <1>6, <1>8, <1>9, <1>10, <1>11, <1>12, <1>13, <1>14

\* A state whose frames are placed, whose sent queue is in order and whose unsent frames
\* are new is ready for the next step.
LEMMA PlacedReady ==
  ASSUME NEW q, Typed(q), NEW u \in Seq(Slots), Placed(q, u), Numbered(q), Ordered(q),
         \A i \in DOMAIN q.wait : New(q, q.wait[i]),
         \A f \in ToSet(u) : New(q, f)
  PROVE  Ready(q, ToSet(u))
<1>1. Waiting(q)
  BY PlacedApart DEF Waiting
<1>2. ASSUME NEW f \in ToSet(u)
      PROVE  f \in Slots /\ (\A j \in DOMAIN q.wait : f # q.wait[j])
               /\ (\A j \in DOMAIN q.sent : f # q.sent[j])
  <2>1. PICK i \in DOMAIN u : f = u[i]
    BY DEF ToSet
  <2>2. QED
    BY <2>1, PlacedApart
<1>3. Aside(q, ToSet(u))
  BY <1>2 DEF Aside
<1>4. QED
  BY <1>1, <1>3 DEF Ready

\* What holds as long as no frame is misplaced.
InOrder ==
  /\ Ready(fop, ToSet(unprocessed))
  /\ Placed(fop, unprocessed)
  /\ fop.state = "INITIAL" => fop.wait = <<>> /\ fop.sent = <<>>

OrderInv == Types /\ (intact => InOrder)

\* In terms of the next state, PlacedReady leaves four things to show of a step.
LEMMA StepInOrder ==
  ASSUME Types', intact', Observe,
         Numbered(fop'), Ordered(fop'),
         \A i \in DOMAIN fop'.wait : New(fop', fop'.wait[i]),
         \A f \in ToSet(unprocessed') : New(fop', f)
  PROVE  InOrder'
<1>1. Placed(fop', unprocessed') /\ (fop'.state = "INITIAL" => fop'.wait = <<>> /\ fop'.sent = <<>>)
  BY DEF Observe
<1>2. Typed(fop') /\ unprocessed' \in Seq(Slots)
  BY DEF Types
<1>3. Ready(fop', ToSet(unprocessed'))
  BY <1>1, <1>2, PlacedReady
<1>4. QED
  BY <1>1, <1>3 DEF InOrder

LEMMA ReadyInOrder ==
  ASSUME Types', intact', Observe, NEW U, Ready(fop', U), ToSet(unprocessed') \subseteq U
  PROVE  InOrder'
<1>1. Numbered(fop') /\ Ordered(fop')
  BY DEF Ready
<1>2. \A i \in DOMAIN fop'.wait : New(fop', fop'.wait[i])
  BY DEF Ready, Waiting
<1>3. \A f \in ToSet(unprocessed') : New(fop', f)
  BY DEF Ready, Aside
<1>4. QED
  BY <1>1, <1>2, <1>3, StepInOrder

LEMMA DirectiveInOrder ==
  ASSUME Types, InOrder, Types', intact', Observe, Directive
  PROVE  InOrder'
<1> DEFINE U == ToSet(unprocessed)
<1>1. Ready(fop, U) /\ Typed(fop)
  BY DEF InOrder, Types
<1>2. CASE InitiateAd \/ InitiateAdUnlock
  BY <1>1, <1>2, PurgeReady, ReadyInOrder DEF InitiateAd, InitiateAdUnlock, Call, FOPState
<1>3. CASE TerminateAdService
  <2>1. "INITIAL" \in FOPState
    BY DEF FOPState
  <2>2. Ready(fop', U) /\ unprocessed' = unprocessed
    BY <1>1, <1>3, <2>1, PurgeReady DEF TerminateAdService, Call
  <2>3. QED
    BY <2>2, ReadyInOrder
<1>4. CASE ResumeAdService
  <2>1. Like(fop, fop') /\ unprocessed' = unprocessed
    BY <1>1, <1>4, ToLike DEF ResumeAdService, Call, FOPState
  <2>2. QED
    BY <1>1, <2>1, LikeReady, ReadyInOrder
<1>5. CASE \E v \in Numbers : InitiateAdVr(v) \/ SetVs(v)
  <2>1. PICK v \in Numbers : InitiateAdVr(v) \/ SetVs(v)
    BY <1>5
  <2> DEFINE q == Initialize(fop, "INITIALIZING_WITH_BC_FRAME")
  <2>2. Ready(q, U) /\ Typed(q) /\ q.wait = <<>> /\ q.sent = <<>>
    <3>1. Ready(q, U)
      BY <1>1, PurgeReady DEF FOPState
    <3>2. Typed(q)
      BY <3>1 DEF Ready
    <3>3. q.wait = <<>> /\ q.sent = <<>>
      BY <1>1 DEF Initialize, PurgeQueues, Typed, FopRecord
    <3>4. QED
      BY <3>1, <3>2, <3>3
  <2>3. \/ fop' = [q EXCEPT !.vs = v, !.nnr = v]
        \/ fop' = [fop EXCEPT !.vs = v, !.nnr = v] /\ fop.wait = <<>> /\ fop.sent = <<>>
    BY <2>1 DEF InitiateAdVr, SetVs, Call, InOrder
  <2> HIDE DEF q
  <2>4. PICK p : /\ Ready(p, U) /\ Typed(p) /\ p.wait = <<>> /\ p.sent = <<>>
                 /\ fop' = [p EXCEPT !.vs = v, !.nnr = v]
    BY <1>1, <2>2, <2>3
  <2>5. fop'.frames = p.frames /\ fop'.wait = <<>> /\ fop'.sent = <<>>
    BY <2>4 DEF Typed, FopRecord
  <2>6. Ready(fop', U)
    BY <2>4, <2>5, EmptyReady DEF Types
  <2>7. unprocessed' = unprocessed
    BY <2>1 DEF InitiateAdVr, SetVs, Call
  <2>8. QED
    BY <2>6, <2>7, ReadyInOrder
<1>6. CASE SetFopWidth \/ SetTransmissionLimit
  BY <1>1, <1>6, ReadyInOrder DEF SetFopWidth, SetTransmissionLimit
<1>7. QED
  BY <1>2, <1>3, <1>4, <1>5, <1>6 DEF Directive

LEMMA NewFrameInOrder ==
  ASSUME Types, InOrder, Types', intact', Observe,
         NEW type \in Services, NEW f \in Slots, MappRequestTxTC(type, f)
  PROVE  InOrder'
<1> DEFINE new == [type |-> type, ns |-> 0, ack |-> FALSE, retx |-> FALSE]
<1>1. Typed(fop) /\ unprocessed \in Seq(Slots) /\ Placed(fop, unprocessed)
      /\ Ready(fop, ToSet(unprocessed))
  BY DEF Types, InOrder
<1>2. f \notin fop.master /\ fop' = NewFrame(fop, type, f) /\ unprocessed' = Append(unprocessed, f)
  BY DEF MappRequestTxTC
<1>3. /\ fop'.vs = fop.vs /\ fop'.wait = fop.wait /\ fop'.sent = fop.sent
      /\ fop'.frames = [fop.frames EXCEPT ![f] = new]
  BY <1>1, <1>2 DEF NewFrame, Typed, FopRecord
<1>4. /\ \A g \in Slots \ {f} : fop'.frames[g] = fop.frames[g]
      /\ New(fop', f)
  BY <1>1, <1>3, FieldTypes DEF New
<1>5. /\ \A i \in DOMAIN fop.wait : fop.wait[i] \in Slots \ {f}
      /\ \A i \in DOMAIN fop.sent : fop.sent[i] \in Slots \ {f}
      /\ \A g \in ToSet(unprocessed) : g \in Slots \ {f}
  BY <1>1, <1>2, PlacedApart, FieldTypes DEF ToSet
<1>6. Numbered(fop')
  BY <1>1, <1>3, <1>4, <1>5 DEF Ready, Numbered
<1>7. Ordered(fop')
  BY <1>1, <1>3, <1>4, <1>5 DEF Ready, Ordered
<1>8. \A i \in DOMAIN fop'.wait : New(fop', fop'.wait[i])
  BY <1>1, <1>3, <1>4, <1>5 DEF Ready, Waiting, New
<1>9. \A g \in ToSet(unprocessed') : New(fop', g)
  <2>1. ToSet(unprocessed') \subseteq ToSet(unprocessed) \cup {f}
    BY <1>1, <1>2, AppendProperties DEF ToSet
  <2>2. \A g \in ToSet(unprocessed) : New(fop', g)
    BY <1>1, <1>4, <1>5 DEF Ready, Aside, New
  <2>3. QED
    BY <1>4, <2>1, <2>2
<1>10. QED
  BY <1>6, <1>7, <1>8, <1>9, StepInOrder

LEMMA HandleInOrder ==
  ASSUME Types, InOrder, Types', intact', Observe, Handle
  PROVE  InOrder'
<1> DEFINE U == ToSet(unprocessed)
<1>1. Ready(fop, U) /\ Typed(fop) /\ unprocessed \in Seq(Slots)
  BY DEF InOrder, Types
<1>2. CASE VcGenerationRequestTxTC
  <2> DEFINE f == Head(unprocessed)
             q == TransferFdu(fop, f)
  <2>1. /\ fop' = StoreOut(q, f)
        /\ unprocessed' \in {unprocessed, Tail(unprocessed)} /\ unprocessed # <<>>
    BY <1>2 DEF VcGenerationRequestTxTC
  <2>2. f \in U /\ f \in Slots /\ ToSet(unprocessed') \subseteq U
    BY <1>1, <2>1 DEF ToSet
  <2>3. Ready(q, {}) /\ \A g \in U : New(q, g)
    BY <1>1, <2>2, TransferReady
  <2> HIDE DEF q, f
  <2>4. Like(q, fop')
    BY <2>1, <2>2, <2>3, StoreOutLike DEF Ready
  <2>5. Ready(fop', {}) /\ \A g \in U : New(fop', g)
    BY <2>3, <2>4, LikeReady DEF Like, New
  <2>6. Numbered(fop') /\ Ordered(fop') /\ \A i \in DOMAIN fop'.wait : New(fop', fop'.wait[i])
    BY <2>5 DEF Ready, Waiting
  <2>7. QED
    BY <2>2, <2>5, <2>6, StepInOrder
<1>3. CASE AllFramesGenerationRequestTxTC
  <2>1. fop' = [fop EXCEPT !.out = Tail(@)] /\ unprocessed' = unprocessed
    BY <1>3 DEF AllFramesGenerationRequestTxTC
  <2>2. Like(fop, fop')
    BY <1>1, <2>1 DEF Types, Like, Typed, FopRecord
  <2>3. QED
    BY <1>1, <2>1, <2>2, LikeReady, ReadyInOrder
<1>4. CASE TransmitAdFrameRequest
  BY <1>1, <1>4, TransmitReady, ReadyInOrder DEF TransmitAdFrameRequest, Call
<1>5. CASE PushSentQueue
  <2>1. Head(fop.sent) \in Slots
    BY <1>1, <1>5, FieldTypes DEF PushSentQueue
  <2>2. Like(fop, fop') /\ unprocessed' = unprocessed
    BY <1>1, <1>5, <2>1, StoreOutLike DEF PushSentQueue, Call
  <2>3. QED
    BY <1>1, <2>2, LikeReady, ReadyInOrder
<1>6. CASE ClearAcknowledgedFrames
  <2>1. Like(fop, fop') /\ unprocessed' = unprocessed
    BY <1>1, <1>6, RemoveLike DEF ClearAcknowledgedFrames, Call
  <2>2. QED
    BY <1>1, <2>1, LikeReady, ReadyInOrder
<1>7. CASE ValidClcwArrival
  <2>1. PICK c \in Clcws : ClcwArrives(c)
    BY <1>7 DEF ValidClcwArrival
  <2>2. unprocessed' = unprocessed
    BY <1>1, <2>1, ClcwTyped
  <2>3. QED
    BY <1>1, <2>1, <2>2, ClcwReady, ReadyInOrder
<1>8. CASE Directive
  BY <1>8, DirectiveInOrder
<1>9. QED
  BY <1>2, <1>3, <1>4, <1>5, <1>6, <1>7, <1>8 DEF Handle

LEMMA NextInOrder ==
  ASSUME OrderInv, Next
  PROVE  OrderInv'
<1>1. Types'
  BY NextTypes DEF OrderInv
<1>2. ASSUME intact' PROVE InOrder'
  <2>1. Observe /\ (Handle \/ \E type \in Services, f \in Slots : MappRequestTxTC(type, f))
    BY <1>2 DEF Next
  <2>2. InOrder
    BY <1>2, <2>1 DEF Observe, OrderInv
  <2>3. QED
    BY <1>1, <1>2, <2>1, <2>2, HandleInOrder, NewFrameInOrder DEF OrderInv
<1>3. QED
  BY <1>1, <1>2 DEF OrderInv

LEMMA InitInOrder == Init => OrderInv
<1> SUFFICES ASSUME Init PROVE OrderInv
  OBVIOUS
<1>1. Types
  BY InitTypes
<1>2. unprocessed = <<>> /\ fop.wait = <<>> /\ fop.sent = <<>>
  BY DEF Init
<1>3. Numbered(fop) /\ Ordered(fop) /\ Waiting(fop) /\ Aside(fop, ToSet(unprocessed))
  BY <1>2 DEF Numbered, Ordered, Waiting, Aside, ToSet
<1>4. Placed(fop, unprocessed)
  <2>1. unprocessed \o fop.wait \o fop.sent = <<>>
    BY <1>2
  <2>2. QED
    BY <2>1 DEF Placed, ToSet
<1>5. QED
  BY <1>1, <1>2, <1>3, <1>4 DEF OrderInv, InOrder, Ready, Types

LEMMA OrderInvariant == Spec => []OrderInv
<1>1. OrderInv /\ UNCHANGED vars => OrderInv'
  BY DEF OrderInv, Types, InOrder, vars
<1>2. OrderInv /\ [Next]_vars => OrderInv'
  BY <1>1, NextInOrder
<1>3. QED
  BY <1>2, InitInOrder, PTL DEF Spec

\* The frames of the sent queue carry consecutive numbers that end just below V(S), for
\* every modulus, as long as no frame is in two places or freed while it is listed.
THEOREM FopSentNumberedUpToVs == Spec => []SentNumberedUpToVs
<1>1. OrderInv => SentNumberedUpToVs
  BY DEF OrderInv, InOrder, Ready, Numbered, SentNumberedUpToVs
<1>2. QED
  BY <1>1, OrderInvariant, PTL

\* Whatever numbers the reports carry, and wherever V(S) has wrapped, frames are
\* acknowledged from the front of the sent queue.
THEOREM FopAckedFromFront == Spec => []AckedFromFront
<1>1. OrderInv => AckedFromFront
  BY DEF OrderInv, InOrder, Ready, Ordered, AckedFromFront
<1>2. QED
  BY <1>1, OrderInvariant, PTL
=============================================================================
