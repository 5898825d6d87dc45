-------------------------- MODULE FopDeliveryProofs --------------------------
(***************************************************************************)
(* What FOP does to the frames it is given, in terms of what they carry:   *)
(* each gets a number once, the numbers are those of the order in which    *)
(* the frames were handed over, and a frame that FOP takes as acknowledged *)
(* lies before the report.  Lemmas for COP-1 as a whole, see Cop1Proofs;   *)
(* all frames are of Type AD and V(S) has not wrapped.                     *)
(***************************************************************************)
EXTENDS FopProofs

CONSTANT Payloads   \* what frames can carry
VARIABLE payload    \* what the frame of each slot carries

\* No two slots hold the same payload.
Apart == \A f, g \in Slots : payload[f] \in Payloads /\ payload[f] = payload[g] => f = g

\* A frame that has not been handed over, where h are the payloads that have been.
Unhanded(q, f, h) ==
  /\ f \in Slots /\ ~q.frames[f].retx
  /\ payload[f] \in Payloads /\ payload[f] \notin ToSet(h)

\* A frame that has been handed over carries its place in h as its number.
Placement(q, f, h) ==
  q.frames[f].ns < Len(h) /\ h[q.frames[f].ns + 1] = payload[f]

\* The record q of FOP with the frames U before it, when the payloads h have been
\* handed over and k frames can have been made.
Sound(q, U, h, k) ==
  /\ Typed(q) /\ h \in Seq(Payloads) /\ q.vs = Len(h)
  /\ k \in Nat /\ k < Modulus /\ Len(h) + Len(q.wait) <= k
  /\ Apart
  /\ \A f \in Slots : q.frames[f].type = "AD"
  /\ \A f \in Slots : payload[f] \in ToSet(h) => Placement(q, f, h)
  /\ \A i \in DOMAIN q.sent : payload[q.sent[i]] \in ToSet(h)
  /\ \A i \in DOMAIN q.wait :
       /\ Unhanded(q, q.wait[i], h)
       /\ \A j \in DOMAIN q.wait : q.wait[i] = q.wait[j] => i = j
  /\ \A f \in U : Unhanded(q, f, h) /\ \A j \in DOMAIN q.wait : f # q.wait[j]

\* The payloads handed over after a step from q to r.
Result(q, r, h) == IF r.vs = q.vs THEN h ELSE Append(h, payload[r.sent[Len(r.sent)]])

\* A step that acknowledges nothing.
Advance(q, r, U, h, k) ==
  /\ Sound(r, U, Result(q, r, h), k)
  /\ r.vs = q.vs \/ (r.vs = q.vs + 1 /\ r.sent # <<>>)
  /\ r.nnr = q.nnr
  /\ \A f \in Slots : r.frames[f].ack => q.frames[f].ack

----------------------------------------------------------------------------
\* r has the queues and numbers of q, and its frames but for their marks, where only
\* sent frames are newly marked.
Similar(q, r) ==
  /\ Typed(r) /\ r.vs = q.vs /\ r.wait = q.wait /\ r.sent = q.sent
  /\ \A f \in Slots :
       /\ r.frames[f].type = q.frames[f].type /\ r.frames[f].ns = q.frames[f].ns
       /\ f \in ToSet(q.sent) \/ r.frames[f].retx = q.frames[f].retx

LEMMA SimilarSound ==
  ASSUME NEW q, NEW r, NEW U, NEW h, NEW k, Sound(q, U, h, k), Similar(q, r)
  PROVE  Sound(r, U, h, k)
<1>1. \A f \in ToSet(q.sent) : payload[f] \in ToSet(h)
  BY DEF Sound, ToSet
<1>2. \A f \in Slots : Unhanded(q, f, h) => Unhanded(r, f, h)
  BY <1>1 DEF Unhanded, Similar
<1>3. \A i \in DOMAIN r.wait :
       /\ Unhanded(r, r.wait[i], h)
       /\ \A j \in DOMAIN r.wait : r.wait[i] = r.wait[j] => i = j
  BY <1>2 DEF Sound, Similar, Unhanded
<1>4. \A f \in U : Unhanded(r, f, h) /\ \A j \in DOMAIN r.wait : f # r.wait[j]
  BY <1>2 DEF Sound, Similar, Unhanded
<1>5. \A f \in Slots : payload[f] \in ToSet(h) => Placement(r, f, h)
  BY DEF Sound, Similar, Placement
<1>6. /\ \A f \in Slots : r.frames[f].type = "AD"
      /\ \A i \in DOMAIN r.sent : payload[r.sent[i]] \in ToSet(h)
  BY DEF Sound, Similar
<1>7. /\ Typed(r) /\ h \in Seq(Payloads) /\ r.vs = Len(h)
      /\ k \in Nat /\ k < Modulus /\ Len(h) + Len(r.wait) <= k /\ Apart
  BY DEF Sound, Similar
<1>8. QED
  BY <1>3, <1>4, <1>5, <1>6, <1>7 DEF Sound

LEMMA LikeAdvance ==
  ASSUME NEW q, NEW r, NEW U, NEW h, NEW k, Sound(q, U, h, k), Like(q, r), r.nnr = q.nnr
  PROVE  Advance(q, r, U, h, k)
<1>1. Similar(q, r)
  BY DEF Like, Similar
<1>2. Sound(r, U, h, k)
  BY <1>1, SimilarSound
<1>3. QED
  BY <1>2 DEF Advance, Result, Like

\* One step after another, of which at most one hands a frame over.
LEMMA ThenAdvance ==
  ASSUME NEW q, NEW p, NEW r, NEW U, NEW h, NEW k,
         Advance(q, p, U, h, k), Like(p, r), r.nnr = p.nnr
  PROVE  Advance(q, r, U, h, k)
<1>1. Sound(p, U, Result(q, p, h), k)
  BY DEF Advance
<1>2. Similar(p, r)
  BY DEF Like, Similar
<1>3. Sound(r, U, Result(q, p, h), k)
  BY <1>1, <1>2, SimilarSound
<1>4. Result(q, r, h) = Result(q, p, h)
  BY DEF Result, Like
<1>5. QED
  BY <1>3, <1>4 DEF Advance, Like

LEMMA AfterAdvance ==
  ASSUME NEW q, NEW p, NEW r, NEW U, NEW h, NEW k,
         p.vs = q.vs, p.nnr = q.nnr, \A f \in Slots : p.frames[f].ack => q.frames[f].ack,
         Advance(p, r, U, h, k)
  PROVE  Advance(q, r, U, h, k)
BY DEF Advance, Result

\* Purged queues: the numbers go on where they were.
LEMMA PurgeAdvance ==
  ASSUME NEW q, NEW U, NEW h, NEW k, Sound(q, U, h, k), NEW s \in FOPState
  PROVE  Advance(q, Alert(q), U, h, k) /\ Advance(q, Initialize(q, s), U, h, k)
<1>1. ASSUME NEW r, Typed(r), r.vs = q.vs, r.nnr = q.nnr, r.frames = q.frames,
             r.wait = <<>>, r.sent = <<>>
      PROVE  Advance(q, r, U, h, k)
  <2>1. DOMAIN r.wait = {} /\ DOMAIN r.sent = {} /\ Len(r.wait) = 0
    BY <1>1
  <2>2. Len(q.wait) \in Nat /\ Len(h) \in Nat
    BY FieldTypes DEF Sound
  <2>3. Len(h) + Len(r.wait) <= k
    BY <2>1, <2>2 DEF Sound
  <2>4. \A f \in U : Unhanded(r, f, h)
    BY <1>1 DEF Sound, Unhanded
  <2>5. \A f \in Slots : payload[f] \in ToSet(h) => Placement(r, f, h)
    BY <1>1 DEF Sound, Placement
  <2>6. Sound(r, U, h, k)
    BY <1>1, <2>1, <2>3, <2>4, <2>5 DEF Sound
  <2>7. QED
    BY <1>1, <2>6 DEF Advance, Result
<1>2. Typed(q) /\ Typed(Alert(q)) /\ Typed(Initialize(q, s))
  BY PurgeTyped DEF Sound
<1>3. /\ Alert(q).frames = q.frames /\ Alert(q).wait = <<>> /\ Alert(q).sent = <<>>
      /\ Alert(q).vs = q.vs /\ Alert(q).nnr = q.nnr
  BY <1>2 DEF Typed, FopRecord, Alert, PurgeQueues
<1>4. /\ Initialize(q, s).frames = q.frames
      /\ Initialize(q, s).wait = <<>> /\ Initialize(q, s).sent = <<>>
      /\ Initialize(q, s).vs = q.vs /\ Initialize(q, s).nnr = q.nnr
  BY <1>2 DEF Typed, FopRecord, Initialize, PurgeQueues
<1>5. QED
  BY <1>1, <1>2, <1>3, <1>4

\* transmitAdFrame hands over the first waiting frame under the number V(S), which is
\* its place in h.
LEMMA TransmitAdvance ==
  ASSUME NEW q, NEW U, NEW h, NEW k, Sound(q, U, h, k)
  PROVE  Advance(q, TransmitAdFrame(q), U, h, k)
<1> DEFINE f == Head(q.wait)
           r == TransmitAdFrame(q)
           all == Append(h, payload[f])
<1>1. Typed(q) /\ Typed(r)
  BY TransmitTyped DEF Sound
<1>2. CASE Like(q, r) /\ r.nnr = q.nnr
  BY <1>2, LikeAdvance
<1>3. CASE Sends(q, r)
  <2> HIDE DEF r
  <2>1. /\ f = q.wait[1] /\ 1 \in DOMAIN q.wait /\ f \in Slots
    BY <1>3 DEF Sends
  <2>2. Unhanded(q, f, h) /\ \A i \in DOMAIN q.wait : q.wait[i] = f => i = 1
    BY <2>1 DEF Sound
  <2>3. q.frames[f].retx = FALSE
    BY <1>1, <2>1, <2>2, FieldTypes DEF Unhanded, Frames
  <2>4. /\ h \in Seq(Payloads) /\ q.vs = Len(h) /\ Len(h) \in Nat /\ payload[f] \in Payloads
        /\ payload[f] \notin ToSet(h)
    BY <2>2 DEF Sound, Unhanded
  <2>5. r.vs = (q.vs + 1) % Modulus
    BY <1>3, <2>3 DEF Sends
  <2> HIDE DEF f
  <2>6. /\ Len(r.sent) = Len(q.sent) + 1 /\ DOMAIN r.sent = 1..Len(q.sent) + 1
        /\ \A i \in 1..Len(q.sent) : r.sent[i] = q.sent[i]
        /\ r.sent[Len(q.sent) + 1] = f
        /\ DOMAIN q.sent = 1..Len(q.sent) /\ Len(q.sent) \in Nat
    BY <1>3 DEF Sends, f
  <2>7. /\ Len(q.wait) \in Nat /\ DOMAIN q.wait = 1..Len(q.wait)
        /\ DOMAIN r.wait = 1..Len(q.wait) - 1 /\ Len(r.wait) = Len(q.wait) - 1
        /\ \A i \in 1..Len(q.wait) - 1 : r.wait[i] = q.wait[i + 1]
    BY <1>3 DEF Sends
  <2>8. /\ r.frames[f].ns = q.vs /\ r.frames[f].ack = q.frames[f].ack
        /\ r.frames[f].type = q.frames[f].type
        /\ \A g \in Slots \ {f} : r.frames[g] = q.frames[g]
        /\ r.nnr = q.nnr
    BY <1>3 DEF Sends, f
  <2>9. /\ k \in Nat /\ k < Modulus /\ Len(h) + Len(q.wait) <= k /\ Modulus \in Nat
    BY FopAssumption DEF Sound
  <2>10. Len(h) + 1 < Modulus
    BY <2>1, <2>4, <2>7, <2>9
  <2>11. r.vs = Len(h) + 1
    BY <2>4, <2>5, <2>9, <2>10
  <2>12. /\ all \in Seq(Payloads) /\ Len(all) = Len(h) + 1
         /\ \A i \in 1..Len(h) : all[i] = h[i]
         /\ all[Len(h) + 1] = payload[f]
    BY <2>4, AppendProperties
  <2> HIDE DEF all
  <2>13. ToSet(all) = ToSet(h) \cup {payload[f]}
    <3>1. DOMAIN h = 1..Len(h) /\ DOMAIN all = 1..Len(h) + 1
      BY <2>4, <2>12, LenProperties
    <3>2. \A i \in 1..Len(h) + 1 : i \in 1..Len(h) \/ i = Len(h) + 1
      BY <2>4
    <3>3. QED
      BY <2>4, <2>12, <3>1, <3>2 DEF ToSet
  <2>14. Result(q, r, h) = all
    BY <2>4, <2>6, <2>11 DEF Result, all
  <2>15. \A g \in Slots \ {f} : Unhanded(q, g, h) => Unhanded(r, g, all)
    BY <2>1, <2>4, <2>8, <2>13 DEF Sound, Apart, Unhanded
  <2>16. ASSUME NEW i \in 1..Len(q.wait) - 1
         PROVE  /\ Unhanded(r, r.wait[i], all)
                /\ \A j \in 1..Len(q.wait) - 1 : r.wait[i] = r.wait[j] => i = j
    <3>1. i + 1 \in DOMAIN q.wait /\ i + 1 # 1 /\ r.wait[i] = q.wait[i + 1]
      BY <2>7
    <3>2. Unhanded(q, q.wait[i + 1], h) /\ q.wait[i + 1] # f
      BY <2>2, <3>1 DEF Sound
    <3>3. Unhanded(r, r.wait[i], all)
      BY <2>15, <3>1, <3>2 DEF Unhanded
    <3>4. ASSUME NEW j \in 1..Len(q.wait) - 1, r.wait[i] = r.wait[j] PROVE i = j
      <4>1. q.wait[i + 1] = q.wait[j + 1] /\ j + 1 \in DOMAIN q.wait
        BY <2>7, <3>1, <3>4
      <4>2. i + 1 = j + 1
        BY <3>1, <4>1 DEF Sound
      <4>3. QED
        BY <4>2
    <3>5. QED
      BY <3>3, <3>4
  <2>17. ASSUME NEW g \in U
         PROVE  Unhanded(r, g, all) /\ \A j \in 1..Len(q.wait) - 1 : g # r.wait[j]
    <3>1. Unhanded(q, g, h) /\ \A j \in DOMAIN q.wait : g # q.wait[j]
      BY DEF Sound
    <3>2. Unhanded(r, g, all)
      BY <2>1, <2>15, <3>1 DEF Unhanded
    <3>3. \A j \in 1..Len(q.wait) - 1 : j + 1 \in DOMAIN q.wait
      BY <2>7
    <3>4. QED
      BY <2>7, <3>1, <3>2, <3>3
  <2>18. ASSUME NEW g \in Slots, payload[g] \in ToSet(all)
         PROVE  Placement(r, g, all)
    <3>1. CASE g = f
      <4>1. r.frames[f].ns = Len(h)
        BY <2>4, <2>8
      <4>2. Len(h) < Len(all) /\ all[Len(h) + 1] = payload[f]
        BY <2>4, <2>12
      <4>3. QED
        BY <3>1, <4>1, <4>2 DEF Placement
    <3>2. CASE g # f
      <4>1. payload[g] # payload[f]
        BY <2>1, <2>4, <3>2 DEF Sound, Apart
      <4>2. Placement(q, g, h) /\ r.frames[g] = q.frames[g]
        BY <2>8, <2>13, <2>18, <3>2, <4>1 DEF Sound
      <4>3. q.frames[g].ns \in Nat
        BY <1>1, FieldTypes, FopAssumption DEF Frames, SeqNumbers
      <4>4. q.frames[g].ns + 1 \in 1..Len(h)
        BY <2>4, <4>2, <4>3 DEF Placement
      <4>5. QED
        BY <2>4, <2>12, <4>2, <4>3, <4>4 DEF Placement
    <3>3. QED
      BY <3>1, <3>2
  <2>19. \A i \in DOMAIN r.sent : payload[r.sent[i]] \in ToSet(all)
    <3>1. \A i \in DOMAIN r.sent : i \in DOMAIN q.sent \/ i = Len(q.sent) + 1
      BY <2>6
    <3>2. QED
      BY <2>6, <2>13, <3>1 DEF Sound
  <2>20. \A g \in Slots : r.frames[g].type = "AD" /\ (r.frames[g].ack => q.frames[g].ack)
    BY <2>1, <2>8 DEF Sound
  <2>21. Len(all) + Len(r.wait) <= k
    <3> DEFINE a == Len(h)
               b == Len(q.wait)
    <3>1. Len(all) = a + 1 /\ Len(r.wait) = b - 1
      BY <2>7, <2>12
    <3>2. a \in Nat /\ b \in Nat /\ a + b <= k
      BY <2>4, <2>7, <2>9
    <3> HIDE DEF a, b
    <3>3. QED
      BY <2>9, <3>1, <3>2
  <2>22. Apart
    BY DEF Sound
  <2>23. Sound(r, U, all, k)
    BY <1>1, <2>7, <2>9, <2>11, <2>12, <2>16, <2>17, <2>18, <2>19, <2>20, <2>21, <2>22 DEF Sound
  <2>24. r.sent # <<>>
    BY <2>6
  <2>25. QED
    BY <2>4, <2>8, <2>11, <2>14, <2>20, <2>23, <2>24 DEF Advance, r
<1>4. QED
  BY <1>1, <1>2, <1>3, TransmitEffect

LEMMA LookAdvance ==
  ASSUME NEW q, NEW U, NEW h, NEW k, Sound(q, U, h, k)
  PROVE  Advance(q, LookForFdu(q), U, h, k)
<1>1. Advance(q, q, U, h, k)
  BY LikeAdvance DEF Like, Sound
<1>2. QED
  BY <1>1, TransmitAdvance DEF LookForFdu

LEMMA RemoveAdvance ==
  ASSUME NEW q, NEW U, NEW h, NEW k, Sound(q, U, h, k)
  PROVE  Advance(q, RemoveAcknowledgedFrames(q), U, h, k)
<1>1. Typed(q)
  BY DEF Sound
<1>2. RemoveAcknowledgedFrames(q).nnr = q.nnr
  BY <1>1 DEF RemoveAcknowledgedFrames, Typed, FopRecord
<1>3. QED
  BY <1>1, <1>2, RemoveLike, LikeAdvance

LEMMA RetransmissionAdvance ==
  ASSUME NEW q, NEW U, NEW h, NEW k, Sound(q, U, h, k)
  PROVE  Advance(q, InitiateAdRetransmission(q), U, h, k)
<1> DEFINE r == InitiateAdRetransmission(q)
<1>1. Typed(q) /\ Typed(r)
  BY RetransmissionTyped DEF Sound
<1>2. Similar(q, r) /\ r.nnr = q.nnr /\ \A f \in Slots : r.frames[f].ack = q.frames[f].ack
  BY <1>1, RetransmissionEffect DEF Similar
<1> HIDE DEF r
<1>3. Sound(r, U, h, k) /\ Result(q, r, h) = h /\ r.vs = q.vs
  BY <1>2, SimilarSound DEF Similar, Result
<1>4. QED
  BY <1>2, <1>3 DEF Advance, r

\* FOP becomes a record that it reaches without acknowledgements, and acknowledges.
Reports(U, h, k, report) ==
  /\ \E r : Advance(fop, r, U, h, k) /\ fop' = AcknowledgePreviousFrames(r, report)
  /\ UNCHANGED unprocessed

\* Whatever a CLCW makes FOP do, it ends with acknowledgePreviousFrames.
LEMMA ClcwAdvance ==
  ASSUME NEW U, NEW h, NEW k, Sound(fop, U, h, k), NEW c, ClcwArrives(c)
  PROVE  Reports(U, h, k, c.report)
<1> DEFINE removed == RemoveAcknowledgedFrames(fop)
           marked == InitiateAdRetransmission(fop)
           renewed == InitiateAdRetransmission(removed)
<1>1. Advance(fop, fop, U, h, k)
  BY LikeAdvance DEF Like, Sound
<1>2. ASSUME NEW S, NEW q, Advance(fop, q, U, h, k), React(c, S, q)
      PROVE  Reports(U, h, k, c.report)
  BY <1>1, <1>2 DEF React, Call, Reports
<1>3. Advance(fop, removed, U, h, k) /\ Advance(fop, marked, U, h, k)
  BY RemoveAdvance, RetransmissionAdvance
<1>4. /\ removed.vs = fop.vs /\ removed.nnr = fop.nnr
      /\ marked.vs = fop.vs /\ marked.nnr = fop.nnr
  <2>1. Typed(fop)
    BY DEF Sound
  <2>2. marked.vs = fop.vs /\ marked.nnr = fop.nnr
    BY <2>1, RetransmissionEffect
  <2>3. removed.vs = fop.vs /\ removed.nnr = fop.nnr
    BY <2>1 DEF Typed, FopRecord, RemoveAcknowledgedFrames
  <2>4. QED
    BY <2>2, <2>3
<1>5. Sound(removed, U, h, k) /\ Sound(marked, U, h, k)
  BY <1>3, <1>4 DEF Advance, Result
<1>6. \A f \in Slots : /\ removed.frames[f].ack => fop.frames[f].ack
                       /\ marked.frames[f].ack => fop.frames[f].ack
  BY <1>3 DEF Advance
<1>7. Advance(removed, renewed, U, h, k) /\ renewed.vs = removed.vs /\ renewed.nnr = removed.nnr
  <2> HIDE DEF removed
  <2>1. Typed(removed)
    BY <1>5 DEF Sound
  <2>2. renewed.vs = removed.vs /\ renewed.nnr = removed.nnr
    BY <2>1, RetransmissionEffect
  <2>3. QED
    BY <1>5, <2>2, RetransmissionAdvance
<1> HIDE DEF removed, marked, renewed
<1>8. Advance(fop, renewed, U, h, k)
  BY <1>4, <1>6, <1>7, AfterAdvance
<1>9. Sound(renewed, U, h, k) /\ renewed.vs = fop.vs /\ renewed.nnr = fop.nnr
      /\ \A f \in Slots : renewed.frames[f].ack => fop.frames[f].ack
  BY <1>4, <1>7, <1>8 DEF Advance, Result
<1>10. /\ Advance(fop, LookForFdu(removed), U, h, k)
       /\ Advance(fop, LookForFdu(marked), U, h, k)
       /\ Advance(fop, LookForFdu(renewed), U, h, k)
  BY <1>4, <1>5, <1>6, <1>9, LookAdvance, AfterAdvance
<1>11. ASSUME NEW q, Advance(fop, q, U, h, k), NEW s \in FOPState
       PROVE  Advance(fop, To(q, s), U, h, k)
  <2>1. Typed(q)
    BY <1>11 DEF Advance, Sound
  <2>2. To(q, s).nnr = q.nnr
    BY <2>1 DEF To, Typed, FopRecord
  <2>3. QED
    BY <1>11, <2>1, <2>2, ToLike, ThenAdvance
<1>12. Advance(fop, Alert(fop), U, h, k)
  BY PurgeAdvance DEF FOPState
<1>13. Advance(fop, Alert(removed), U, h, k)
  <2>1. Advance(removed, Alert(removed), U, h, k)
    BY <1>5, PurgeAdvance DEF FOPState
  <2>2. QED
    BY <1>4, <1>6, <2>1, AfterAdvance
<1>14. {"ACTIVE", "RETRANSMIT_WITHOUT_WAIT", "RETRANSMIT_WITH_WAIT"} \subseteq FOPState
  BY DEF FOPState
<1>15. CASE E1(c) \/ E3(c) \/ E4(c) \/ E5(c) \/ E7(c) \/ E102(c) \/ E13(c) \/ E14(c)
  BY <1>1, <1>2, <1>11, <1>12, <1>14, <1>15 DEF E1, E3, E4, E5, E7, E102, E13, E14
<1>16. CASE E2(c) \/ E6(c) \/ E101(c) \/ E9(c)
  BY <1>2, <1>3, <1>10, <1>11, <1>13, <1>14, <1>16 DEF E2, E6, E101, E9, removed
<1>17. CASE E8(c) \/ E10(c)
  BY <1>2, <1>10, <1>11, <1>14, <1>17 DEF E8, E10, renewed, marked, removed
<1>18. CASE E11(c) \/ E12(c) \/ LimitZero(c)
  BY <1>1, <1>2, <1>11, <1>14, <1>18 DEF E11, E12, LimitZero
<1>19. QED
  BY <1>15, <1>16, <1>17, <1>18 DEF ClcwArrives, AtVs, BeforeVs

\* acknowledgeFrame marks frames of the sent queue alone, which have been handed over.
LEMMA AcknowledgeEffect ==
  ASSUME NEW q, NEW U, NEW h, NEW k, Sound(q, U, h, k), NEW ns
  PROVE  LET r == Acknowledge(q, ns)
         IN  /\ Sound(r, U, h, k)
             /\ r.vs = q.vs /\ r.wait = q.wait /\ r.sent = q.sent /\ r.nnr = q.nnr
             /\ \A f \in Slots : r.frames[f].ack /\ ~q.frames[f].ack =>
                  q.frames[f].ns \in ns /\ payload[f] \in ToSet(h) /\ Placement(q, f, h)
<1> DEFINE r == Acknowledge(q, ns)
<1>1. Typed(q) /\ Typed(r)
  BY AcknowledgeTyped DEF Sound
<1>2. /\ r.vs = q.vs /\ r.wait = q.wait /\ r.sent = q.sent
      /\ r.frames = [f \in Slots |->
           [q.frames[f] EXCEPT !.ack = @ \/ (f \in ToSet(q.sent) /\ q.frames[f].ns \in ns)]]
  BY <1>1 DEF Acknowledge, Typed, FopRecord
<1>3. r.nnr = q.nnr
  BY <1>1 DEF Acknowledge, Typed, FopRecord
<1> HIDE DEF r
<1>4. \A f \in Slots : q.frames[f] \in Frames
  BY <1>1, FieldTypes
<1>5. ASSUME NEW f \in Slots
      PROVE  /\ r.frames[f].ns = q.frames[f].ns /\ r.frames[f].type = q.frames[f].type
             /\ r.frames[f].retx = q.frames[f].retx
             /\ r.frames[f].ack /\ ~q.frames[f].ack =>
                  f \in ToSet(q.sent) /\ q.frames[f].ns \in ns
  <2> DEFINE marked == f \in ToSet(q.sent) /\ q.frames[f].ns \in ns
  <2>1. r.frames[f] = [q.frames[f] EXCEPT !.ack = q.frames[f].ack \/ marked]
    BY <1>2
  <2>2. q.frames[f] \in Frames
    BY <1>4
  <2> HIDE DEF marked
  <2>3. /\ r.frames[f].ns = q.frames[f].ns /\ r.frames[f].type = q.frames[f].type
        /\ r.frames[f].retx = q.frames[f].retx
        /\ r.frames[f].ack = (q.frames[f].ack \/ marked)
    BY <2>1, <2>2 DEF Frames
  <2>4. QED
    BY <2>3 DEF marked
<1>6. Similar(q, r)
  BY <1>1, <1>2, <1>5 DEF Similar
<1>7. Sound(r, U, h, k)
  BY <1>6, SimilarSound
<1>8. ASSUME NEW f \in Slots, r.frames[f].ack, ~q.frames[f].ack
      PROVE  q.frames[f].ns \in ns /\ payload[f] \in ToSet(h) /\ Placement(q, f, h)
  <2>1. f \in ToSet(q.sent) /\ q.frames[f].ns \in ns
    BY <1>5, <1>8
  <2>2. payload[f] \in ToSet(h) /\ Placement(q, f, h)
    BY <2>1 DEF Sound, ToSet
  <2>3. QED
    BY <2>1, <2>2
<1>9. QED
  BY <1>2, <1>3, <1>7, <1>8 DEF r

\* acknowledgePreviousFrames acknowledges frames that lie before the report: no number
\* has wrapped, so none is above V(S).
LEMMA ReportEffect ==
  ASSUME NEW q, NEW U, NEW h, NEW k, Sound(q, U, h, k), NEW report \in SeqNumbers
  PROVE  LET r == AcknowledgePreviousFrames(q, report)
         IN  /\ Sound(r, U, h, k)
             /\ r.vs = q.vs /\ r.sent = q.sent /\ r.nnr = report
             /\ \A f \in Slots : r.frames[f].ack /\ ~q.frames[f].ack =>
                  Placement(q, f, h) /\ q.frames[f].ns < report
<1> DEFINE ns == {n \in SeqNumbers : n < report \/ n > q.vs}
           a == Acknowledge(q, ns)
           r == AcknowledgePreviousFrames(q, report)
<1>1. Typed(q) /\ Typed(a) /\ Typed(r)
  BY AcknowledgeTyped, ReportTyped DEF Sound
<1>2. r = [a EXCEPT !.nnr = report]
  BY DEF AcknowledgePreviousFrames
<1>3. /\ Sound(a, U, h, k)
      /\ a.vs = q.vs /\ a.sent = q.sent
      /\ \A f \in Slots : a.frames[f].ack /\ ~q.frames[f].ack =>
           q.frames[f].ns \in ns /\ Placement(q, f, h)
  BY AcknowledgeEffect
<1> HIDE DEF ns, a, r
<1>4. r.vs = a.vs /\ r.wait = a.wait /\ r.sent = a.sent /\ r.frames = a.frames
  BY <1>1, <1>2 DEF Typed, FopRecord
<1>5. r.nnr = report
  BY <1>1, <1>2 DEF Typed, FopRecord
<1>6. Sound(r, U, h, k)
  BY <1>1, <1>3, <1>4, SimilarSound DEF Similar
<1>7. ASSUME NEW f \in Slots, r.frames[f].ack, ~q.frames[f].ack
      PROVE  Placement(q, f, h) /\ q.frames[f].ns < report
  <2>1. q.frames[f].ns \in ns /\ Placement(q, f, h)
    BY <1>3, <1>4, <1>7
  <2>2. q.frames[f].ns < q.vs /\ q.vs \in SeqNumbers /\ q.frames[f].ns \in SeqNumbers
    BY <1>1, <2>1, FieldTypes DEF Placement, Sound, ns
  <2>3. q.frames[f].ns < report \/ q.frames[f].ns > q.vs
    BY <2>1 DEF ns
  <2>4. q.frames[f].ns < report
    BY <2>2, <2>3, FopAssumption DEF SeqNumbers
  <2>5. QED
    BY <2>1, <2>4
<1>8. QED
  BY <1>3, <1>4, <1>5, <1>6, <1>7 DEF r

\* transmitAdFrame keeps the waiting frames in FOP.
LEMMA TransmitKeeps ==
  ASSUME NEW q, Typed(q), NEW i \in DOMAIN q.wait
  PROVE  LET r == TransmitAdFrame(q) IN q.wait[i] \in ToSet(r.wait) \cup ToSet(r.sent)
<1> DEFINE r == TransmitAdFrame(q)
<1>1. CASE Like(q, r)
  BY <1>1 DEF Like, ToSet
<1>2. CASE Sends(q, r)
  <2> HIDE DEF r
  <2>1. i \in 1..Len(q.wait) /\ Len(q.wait) \in Nat /\ Len(q.sent) \in Nat
    BY <1>2 DEF Sends
  <2>2. CASE i = 1
    <3>1. q.wait[i] = r.sent[Len(q.sent) + 1] /\ Len(q.sent) + 1 \in DOMAIN r.sent
      BY <1>2, <2>1, <2>2 DEF Sends
    <3>2. QED
      BY <3>1 DEF ToSet, r
  <2>3. CASE i # 1
    <3>1. i - 1 \in 1..Len(q.wait) - 1 /\ i - 1 + 1 = i
      BY <2>1, <2>3
    <3>2. i - 1 \in DOMAIN r.wait /\ r.wait[i - 1] = q.wait[i]
      BY <1>2, <3>1 DEF Sends
    <3>3. QED
      BY <3>2 DEF ToSet, r
  <2>4. QED
    BY <2>2, <2>3
<1>3. QED
  BY <1>1, <1>2, TransmitEffect

\* A frame that transferFdu accepts becomes the last one that waits.
LEMMA TransferAdvance ==
  ASSUME NEW q, NEW U, NEW h, NEW k, Sound(q, U, h, k), k + 1 < Modulus, NEW f \in U
  PROVE  LET r == TransferFdu(q, f)
         IN  \/ r = q /\ ~Accepted(q, f)
             \/ /\ Advance(q, r, U \ {f}, h, k + 1)
                /\ f \in ToSet(r.wait) \cup ToSet(r.sent)
<1> DEFINE queued == [q EXCEPT !.wait = Append(@, f)]
<1>1. Typed(q) /\ Unhanded(q, f, h) /\ f \in Slots /\ q.frames[f].type = "AD"
  BY DEF Sound, Unhanded
<1>2. CASE TransferFdu(q, f) = q /\ ~Accepted(q, f)
  BY <1>2
<1>3. CASE TransferFdu(q, f) \in {queued, LookForFdu(queued)} /\ Len(q.wait) # WaitQueueCap
  <2>1. /\ q.wait \in Seq(Slots) /\ Len(q.wait) <= WaitQueueCap
    BY <1>1, FieldTypes
  <2>2. Append(q.wait, f) \in Seq(Slots) /\ Len(Append(q.wait, f)) <= WaitQueueCap
    BY <1>1, <1>3, <2>1, FopAssumption
  <2>3. Typed(queued)
    BY <1>1, <2>2, Updates
  <2>4. /\ queued.vs = q.vs /\ queued.sent = q.sent /\ queued.frames = q.frames
        /\ queued.wait = Append(q.wait, f)
    BY <1>1 DEF Typed, FopRecord
  <2>5. queued.nnr = q.nnr
    BY <1>1 DEF Typed, FopRecord
  <2> HIDE DEF queued
  <2>6. /\ DOMAIN queued.wait = 1..Len(q.wait) + 1 /\ queued.wait[Len(q.wait) + 1] = f
        /\ Len(queued.wait) = Len(q.wait) + 1
        /\ DOMAIN q.wait = 1..Len(q.wait) /\ Len(q.wait) \in Nat
        /\ \A i \in 1..Len(q.wait) : queued.wait[i] = q.wait[i]
    BY <1>1, <2>1, <2>4
  <2>7. \A i \in 1..Len(q.wait) + 1 : i \in DOMAIN q.wait \/ i = Len(q.wait) + 1
    BY <2>6
  <2>8. \A g : Unhanded(q, g, h) => Unhanded(queued, g, h)
    BY <2>4 DEF Unhanded
  <2>9. \A i \in DOMAIN q.wait : q.wait[i] # f
    BY DEF Sound
  <2>10. ASSUME NEW i \in 1..Len(q.wait) + 1
         PROVE  /\ Unhanded(queued, queued.wait[i], h)
                /\ \A j \in 1..Len(q.wait) + 1 : queued.wait[i] = queued.wait[j] => i = j
    <3>1. Unhanded(queued, queued.wait[i], h)
      BY <1>1, <2>6, <2>7, <2>8 DEF Sound
    <3>2. \A j \in 1..Len(q.wait) + 1 : queued.wait[i] = queued.wait[j] => i = j
      BY <2>6, <2>7, <2>9 DEF Sound
    <3>3. QED
      BY <3>1, <3>2
  <2>11. ASSUME NEW g \in U \ {f}
         PROVE  Unhanded(queued, g, h) /\ \A j \in 1..Len(q.wait) + 1 : g # queued.wait[j]
    BY <2>6, <2>7, <2>8 DEF Sound
  <2>12. \A g \in Slots : payload[g] \in ToSet(h) => Placement(queued, g, h)
    BY <2>4 DEF Sound, Placement
  <2>13. /\ k + 1 \in Nat /\ Len(h) + Len(queued.wait) <= k + 1
    <3>1. k \in Nat /\ Len(h) + Len(q.wait) <= k /\ Len(h) \in Nat
      BY DEF Sound
    <3>2. QED
      BY <2>6, <3>1
  <2>14. /\ h \in Seq(Payloads) /\ queued.vs = Len(h) /\ Apart
         /\ \A g \in Slots : queued.frames[g].type = "AD"
         /\ \A i \in DOMAIN queued.sent : payload[queued.sent[i]] \in ToSet(h)
    BY <2>4 DEF Sound
  <2>15. Sound(queued, U \ {f}, h, k + 1)
    BY <2>3, <2>6, <2>10, <2>11, <2>12, <2>13, <2>14 DEF Sound
  <2>16. /\ Advance(queued, queued, U \ {f}, h, k + 1)
         /\ Advance(queued, LookForFdu(queued), U \ {f}, h, k + 1)
    BY <2>3, <2>15, LikeAdvance, LookAdvance DEF Like
  <2>17. Advance(q, TransferFdu(q, f), U \ {f}, h, k + 1)
    BY <1>3, <2>4, <2>5, <2>16, AfterAdvance DEF queued
  <2>18. Len(q.wait) + 1 \in DOMAIN queued.wait
    BY <2>6
  <2>19. /\ f \in ToSet(queued.wait) \cup ToSet(queued.sent)
         /\ LET r == LookForFdu(queued) IN f \in ToSet(r.wait) \cup ToSet(r.sent)
    BY <2>3, <2>6, <2>18, TransmitKeeps DEF ToSet, LookForFdu
  <2>20. QED
    BY <1>3, <2>17, <2>19 DEF queued
<1>4. QED
  BY <1>1, <1>2, <1>3 DEF TransferFdu, Accepted, Running

\* A new frame carries what no other frame does and is not in FOP yet.
LEMMA NewFrameSound ==
  ASSUME NEW q, NEW U, NEW h, NEW k, Sound(q, U, h, k), NEW f \in Slots \ U,
         \A i \in DOMAIN q.wait : q.wait[i] # f,
         \A i \in DOMAIN q.sent : q.sent[i] # f,
         NEW p \in Payloads, p \notin ToSet(h), \A g \in Slots : payload[g] # p,
         "AD" \in Services, payload' = [payload EXCEPT ![f] = p], DOMAIN payload = Slots,
         NEW r, r = NewFrame(q, "AD", f), NEW V, V = U \cup {f}
  PROVE  Sound(r, V, h, k)'
<1> DEFINE new == [type |-> "AD", ns |-> 0, ack |-> FALSE, retx |-> FALSE]
<1>1. Typed(q) /\ Typed(r)
  BY NewFrameTyped DEF Sound
<1>2. /\ r.vs = q.vs /\ r.wait = q.wait /\ r.sent = q.sent
      /\ r.frames = [q.frames EXCEPT ![f] = new]
  BY <1>1 DEF NewFrame, Typed, FopRecord
<1>3. /\ \A g \in Slots \ {f} : r.frames[g] = q.frames[g] /\ payload'[g] = payload[g]
      /\ r.frames[f] = new /\ payload'[f] = p
  BY <1>1, <1>2, FieldTypes
<1>4. /\ \A i \in DOMAIN q.wait : q.wait[i] \in Slots \ {f}
      /\ \A i \in DOMAIN q.sent : q.sent[i] \in Slots \ {f}
  BY <1>1, FieldTypes
<1>5. ASSUME NEW g \in Slots \ {f}, Unhanded(q, g, h)
      PROVE  Unhanded(r, g, h)'
  BY <1>3, <1>5 DEF Unhanded
<1>6. Unhanded(r, f, h)'
  BY <1>3 DEF Unhanded
<1>7. Apart'
  BY <1>3 DEF Sound, Apart
<1>8. ASSUME NEW g \in Slots, payload'[g] \in ToSet(h)
      PROVE  Placement(r, g, h)'
  <2>1. g # f
    BY <1>3, <1>8
  <2>2. QED
    BY <1>3, <1>8, <2>1 DEF Sound, Placement
<1>9. \A i \in DOMAIN r.wait :
        /\ Unhanded(r, r.wait[i], h)'
        /\ \A j \in DOMAIN r.wait : r.wait[i] = r.wait[j] => i = j
  BY <1>2, <1>4, <1>5 DEF Sound
<1>10. \A g \in U \cup {f} : Unhanded(r, g, h)' /\ \A j \in DOMAIN r.wait : g # r.wait[j]
  <2>1. \A g \in U : g \in Slots \ {f} /\ Unhanded(q, g, h)
    BY DEF Sound, Unhanded
  <2>2. QED
    BY <1>2, <1>4, <1>5, <1>6, <2>1 DEF Sound
<1>11. \A i \in DOMAIN r.sent : payload'[r.sent[i]] \in ToSet(h)
  BY <1>2, <1>3, <1>4 DEF Sound
<1>12. \A g \in Slots : r.frames[g].type = "AD"
  BY <1>3 DEF Sound
<1>13. /\ h \in Seq(Payloads) /\ r.vs = Len(h)
       /\ k \in Nat /\ k < Modulus /\ Len(h) + Len(r.wait) <= k
  BY <1>2 DEF Sound
<1>14. QED
  BY <1>1, <1>7, <1>8, <1>9, <1>10, <1>11, <1>12, <1>13 DEF Sound

\* Only payload matters of the state.
LEMMA SoundKept ==
  ASSUME NEW q, NEW U, NEW h, NEW k, Sound(q, U, h, k), UNCHANGED payload
  PROVE  Sound(q, U, h, k)'
BY DEF Sound, Apart, Unhanded, Placement
=============================================================================
