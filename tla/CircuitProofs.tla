--------------------------- MODULE CircuitProofs ---------------------------
(***************************************************************************)
(* Proofs about reliable messages, for ids that wrap anywhere, any retries *)
(* and any number of messages and pings.                                   *)
(*                                                                         *)
(* CInv is inductive.  To TypeOK and WaitsUntilReported it adds Handled:   *)
(* what the receiver remembers or acknowledges was handled, what it may    *)
(* handle was sent, and what was not sent was not reported on.  It is what *)
(* the abstract steps of Delivery ask for.                                 *)
(*                                                                         *)
(* TInv adds what TwiceOnlyIfOvertaken needs, as long as the ids in use    *)
(* lie within half of their range.  Ids are compared by Index, their place *)
(* in the order they are given out: the numbers wrap, places do not.  Of   *)
(* two copies on the way the one behind is the resend, a ping names a      *)
(* packet not younger than any that waits or follows it (OnTheWay); no id  *)
(* in use is younger than the last one given out (SenderWindow) nor one    *)
(* remembered than the highest one seen (ReceiverWindow).  So what a ping  *)
(* has the receiver forget is sent no more, or was overtaken (Forgotten).  *)
(*                                                                         *)
(* Honest follows from Delivery alone and so holds of what implements it;  *)
(* Tries counts how often a packet can still be resent or given up.        *)
(***************************************************************************)
EXTENDS Circuit, DataLemmas, TLAPS

Handled ==
    /\ Waiting \subseteq sent /\ handled \subseteq sent
    /\ \A id \in PacketIDs \ sent : report[id] = "none"
    /\ recent \subseteq handled
    /\ \A i \in 1 .. Len(mAcks) : mAcks[i] \in handled
    /\ \A ids \in back : ids \subseteq handled
    /\ \A i \in 1 .. Len(net) : IsPing(net[i]) \/ net[i].id \in sent

CInv == TypeOK /\ WaitsUntilReported /\ Handled

----------------------------------------------------------------------------
\* Packet ids.
LEMMA IDs ==
    /\ NotAPing \notin PacketIDs /\ PacketIDs \subseteq Nat /\ IsFiniteSet(PacketIDs)
    /\ 0 \in PacketIDs
    /\ \A id \in PacketIDs : (id + 1) % LL_MAX_OUT_PACKET_ID \in PacketIDs
<1>1. LL_MAX_OUT_PACKET_ID \in Nat /\ LL_MAX_OUT_PACKET_ID > 0
  BY CircuitAssumption
<1>2. PICK m \in Nat : m = LL_MAX_OUT_PACKET_ID /\ m > 0
  BY <1>1
<1>3. IsFiniteSet(0 .. m - 1)
  BY <1>2, FS_Interval
<1>4. \A id \in 0 .. m - 1 : (id + 1) % m \in 0 .. m - 1
  BY <1>2
<1> QED
  BY <1>2, <1>3, <1>4 DEF PacketIDs, NotAPing

\* The higher of two ids is one of them.
LEMMA HigherTyped ==
    ASSUME NEW a \in PacketIDs, NEW b \in PacketIDs
    PROVE  Higher(a, b) \in PacketIDs
<1>1. {a, b} \subseteq Nat
  BY IDs
<1>2. a <= b \/ b <= a
  BY IDs
<1>3. Max({a, b}) \in {a, b}
  BY <1>1, <1>2 DEF Max
<1> QED
  BY <1>3 DEF Higher

LEMMA EmptyCount ==
    ASSUME NEW S, IsFiniteSet(S)
    PROVE  Cardinality(S) = 0 <=> S = {}
BY FS_EmptySet

\* Waiting is finite, and the two lists have together as many ids as it has.
LEMMA WaitingCount ==
    ASSUME NEW A, NEW B, A \subseteq PacketIDs, B \subseteq PacketIDs, A \cap B = {}
    PROVE  /\ Cardinality(A) + Cardinality(B) = Cardinality(A \cup B)
           /\ Cardinality(A) \in Nat /\ Cardinality(B) \in Nat
           /\ Cardinality(A \cup B) \in Nat
           /\ Cardinality(A \cup B) = 0 <=> A \cup B = {}
<1>1. IsFiniteSet(A) /\ IsFiniteSet(B) /\ IsFiniteSet(A \cup B)
  BY IDs, FS_Subset
<1>2. Cardinality(A \cap B) = 0
  BY FS_EmptySet
<1>3. Cardinality(A \cup B) = Cardinality(A) + Cardinality(B) - Cardinality(A \cap B)
  BY <1>1, FS_Union
<1>4. Cardinality(A) \in Nat /\ Cardinality(B) \in Nat /\ Cardinality(A \cup B) \in Nat
  BY <1>1, FS_CardinalityType
<1>5. Cardinality(A \cup B) = 0 <=> A \cup B = {}
  BY <1>1, EmptyCount
<1>6. Cardinality(A) + Cardinality(B) = Cardinality(A \cup B)
  BY <1>2, <1>3, <1>4
<1> QED
  BY <1>4, <1>5, <1>6, Zenon

\* Taking some ids out of a set of ids.
LEMMA FewerIDs ==
    ASSUME NEW A, NEW B, A \subseteq PacketIDs, B \subseteq A
    PROVE  Cardinality(A \ B) = Cardinality(A) - Cardinality(B)
<1>1. IsFiniteSet(A)
  BY IDs, FS_Subset
<1>2. A \cap B = B
  OBVIOUS
<1> QED
  BY <1>1, <1>2, FS_Difference

LEMMA CInit == Init => CInv
<1> SUFFICES ASSUME Init PROVE CInv
  OBVIOUS
<1>1. FirstID \in PacketIDs
  BY CircuitAssumption
<1>2. DOMAIN mUnackedPackets = {} /\ Waiting = {}
  BY DEF Init, Waiting
<1>3. TypeOK
  <2>1. mAcks \in Seq(PacketIDs) /\ net \in Seq(Packets)
    BY DEF Init
  <2>2. report \in [PacketIDs -> {"none", "twice", "LL_ERR_NOERR",
                                  "LL_ERR_TCP_TIMEOUT", "LL_ERR_CIRCUIT_GONE"}]
    BY DEF Init
  <2>3. \A ids \in {sent, pings, handled, here, again, overtaken} : ids \subseteq PacketIDs
    BY DEF Init
  <2> QED
    BY <1>1, <1>2, <2>1, <2>2, <2>3 DEF Init, TypeOK
<1>4. WaitsUntilReported
  BY <1>2, FS_EmptySet DEF Init, WaitsUntilReported
<1>5. Handled
  BY <1>2 DEF Init, Handled
<1> QED
  BY <1>3, <1>4, <1>5 DEF CInv

----------------------------------------------------------------------------
Results == {"LL_ERR_NOERR", "LL_ERR_TCP_TIMEOUT", "LL_ERR_CIRCUIT_GONE"}

\* A packet that waits was not reported on before.
LEMMA ReportedOnce ==
    ASSUME CInv, NEW ids, ids \subseteq Waiting, NEW result \in Results
    PROVE  /\ Reported(ids, result) \in [PacketIDs -> Results \cup {"none", "twice"}]
           /\ \A id \in PacketIDs :
                Reported(ids, result)[id] = IF id \in ids THEN result ELSE report[id]
<1>1. \A id \in ids : id \in PacketIDs /\ report[id] = "none"
  BY DEF CInv, TypeOK, Handled, WaitsUntilReported
<1>2. report \in [PacketIDs -> Results \cup {"none", "twice"}]
  BY DEF CInv, TypeOK, Results
<1> QED
  BY <1>1, <1>2 DEF Reported

\* A step that takes ids off the two lists, counts and reports them.
LEMMA ReportKeeps ==
    ASSUME CInv, NEW ids, ids \subseteq Waiting, NEW result \in Results,
           report' = Reported(ids, result), sent' = sent,
           mUnackedPacketCount' = mUnackedPacketCount - Cardinality(ids),
           DOMAIN mUnackedPackets' \cap mFinalRetryPackets' = {},
           Waiting' = Waiting \ ids,
           alive' = alive,
           Waiting' # {} => listed'
    PROVE  /\ WaitsUntilReported'
           /\ mUnackedPacketCount' \in Nat
           /\ report' \in [PacketIDs -> Results \cup {"none", "twice"}]
           /\ \A id \in PacketIDs \ sent' : report'[id] = "none"
<1>0. \A id \in PacketIDs : report'[id] = IF id \in ids THEN result ELSE report[id]
  <2>1. \A id \in PacketIDs :
          Reported(ids, result)[id] = IF id \in ids THEN result ELSE report[id]
    BY ReportedOnce
  <2> QED
    BY <2>1
<1>1. /\ Waiting = DOMAIN mUnackedPackets \cup mFinalRetryPackets
      /\ Waiting' = DOMAIN mUnackedPackets' \cup mFinalRetryPackets'
  BY DEF Waiting
<1>2. Waiting \subseteq PacketIDs /\ Waiting \subseteq sent /\ sent \subseteq PacketIDs
  BY DEF CInv, TypeOK, Handled, Waiting
<1>3. /\ mUnackedPacketCount = Cardinality(Waiting)
  BY <1>1, <1>2, WaitingCount DEF CInv, TypeOK, WaitsUntilReported
<1>4. Cardinality(Waiting') = Cardinality(Waiting) - Cardinality(ids)
  BY <1>2, FewerIDs
<1>5. /\ Cardinality(Waiting') \in Nat
      /\ Cardinality(Waiting') = Cardinality(DOMAIN mUnackedPackets')
                                 + Cardinality(mFinalRetryPackets')
  <2> DEFINE U == DOMAIN mUnackedPackets' F == mFinalRetryPackets'
  <2>1. U \subseteq PacketIDs /\ F \subseteq PacketIDs /\ U \cap F = {}
    BY <1>1, <1>2
  <2>2. /\ Cardinality(U) + Cardinality(F) = Cardinality(U \cup F)
        /\ Cardinality(U \cup F) \in Nat
    <3> HIDE DEF U, F
    <3> QED
      BY <2>1, WaitingCount
  <2> QED
    BY <1>1, <2>2, Zenon
<1>6. /\ mUnackedPacketCount' \in Nat
      /\ mUnackedPacketCount' = Cardinality(DOMAIN mUnackedPackets')
                                + Cardinality(mFinalRetryPackets')
  BY <1>3, <1>4, <1>5
<1>7. \A id \in sent : report'[id] = "none" <=> id \in Waiting'
  BY <1>0, <1>2 DEF CInv, WaitsUntilReported, Results
<1>8. Waiting' # {} => alive' /\ listed'
  BY DEF CInv, WaitsUntilReported
<1>9. \A id \in PacketIDs \ sent' : report'[id] = "none"
  <2>1. ASSUME NEW id \in PacketIDs, id \notin sent PROVE report'[id] = "none"
    <3>1. id \notin ids /\ report[id] = "none"
      BY <1>2, <2>1 DEF CInv, Handled
    <3> QED
      BY <1>0, <2>1, <3>1
  <2> QED
    BY <2>1
<1> QED
  BY <1>6, <1>7, <1>8, <1>9, ReportedOnce DEF WaitsUntilReported

\* mUnackedPacketCount counts the packets that wait.
LEMMA CountOfWaiting ==
    ASSUME CInv
    PROVE  /\ mUnackedPacketCount = Cardinality(Waiting) /\ IsFiniteSet(Waiting)
           /\ mUnackedPacketCount = 0 <=> Waiting = {}
<1>1. Waiting \subseteq PacketIDs
  BY DEF CInv, TypeOK, Waiting
<1>2. IsFiniteSet(Waiting)
  BY <1>1, IDs, FS_Subset
<1>3. mUnackedPacketCount = Cardinality(Waiting)
  BY WaitingCount DEF CInv, TypeOK, WaitsUntilReported, Waiting
<1> QED
  BY <1>2, <1>3, EmptyCount

\* Packets that may be under way: those of messages were sent.
Good(packets) ==
    /\ packets \in Seq(Packets)
    /\ \A i \in 1 .. Len(packets) : IsPing(packets[i]) \/ packets[i].id \in sent

LEMMA GoodJoined ==
    ASSUME NEW a, NEW b, Good(a), Good(b)
    PROVE  Good(a \o b)
<1>1. a \in Seq(Packets) /\ b \in Seq(Packets)
  BY DEF Good
<1>2. /\ a \o b \in Seq(Packets)
      /\ Len(a \o b) = Len(a) + Len(b)
      /\ \A j \in 1 .. Len(a) : (a \o b)[j] = a[j]
      /\ \A j \in 1 .. Len(b) : (a \o b)[Len(a) + j] = b[j]
  BY <1>1, Joined
<1>3. ASSUME NEW i \in 1 .. Len(a \o b)
      PROVE  IsPing((a \o b)[i]) \/ (a \o b)[i].id \in sent
  <2>1. CASE i <= Len(a)
    BY <1>1, <1>2, <1>3, <2>1 DEF Good
  <2>2. CASE i > Len(a)
    <3>1. PICK j \in 1 .. Len(b) : i = Len(a) + j
      <4>1. i - Len(a) \in 1 .. Len(b) /\ i = Len(a) + (i - Len(a))
        BY <1>1, <1>2, <1>3, <2>2
      <4> QED
        BY <4>1
    <3> QED
      BY <1>2, <3>1 DEF Good
  <2> QED
    BY <1>1, <1>3, <2>1, <2>2
<1> QED
  BY <1>2, <1>3 DEF Good

----------------------------------------------------------------------------
LEMMA SendMessageKeeps ==
    ASSUME CInv, NEW retries \in Retries, SendMessage(retries)
    PROVE  CInv' /\ Promise!DeliveryNext
<1>1. /\ alive /\ NextID \notin sent
      /\ mPacketsOutID' = NextID
      /\ listed' = (listed \/ mUnackedPacketCount = 0)
      /\ mUnackedPacketCount' = mUnackedPacketCount + 1
      /\ net' = Append(net, Packet(NextID, FALSE, NotAPing))
      /\ sent' = sent \cup {NextID}
      /\ UNCHANGED <<alive, known, mHighestPacketID, recent, mAcks, back, pings,
                     report, handled, here, again, overtaken>>
  BY DEF SendMessage, Fresh, Listed, receiver
<1>2. NextID \in PacketIDs
  BY IDs DEF NextID, CInv, TypeOK
<1>3. NextID \notin Waiting
  BY <1>1 DEF CInv, Handled
<1>4. /\ DOMAIN mUnackedPackets' \cap mFinalRetryPackets' = {}
      /\ Waiting' = Waiting \cup {NextID}
      /\ mFinalRetryPackets' \subseteq PacketIDs /\ DOMAIN mUnackedPackets' \subseteq PacketIDs
      /\ \A id \in DOMAIN mUnackedPackets' : mUnackedPackets'[id] \in Nat \ {0}
  <2>1. CASE retries # 0
    <3>1. /\ mUnackedPackets' = [id \in DOMAIN mUnackedPackets \cup {NextID} |->
                IF id = NextID THEN retries ELSE mUnackedPackets[id]]
          /\ mFinalRetryPackets' = mFinalRetryPackets
      BY <2>1 DEF SendMessage
    <3>2. retries \in Nat \ {0}
      BY <2>1, CircuitAssumption
    <3>3. DOMAIN mUnackedPackets' = DOMAIN mUnackedPackets \cup {NextID}
      BY <3>1
    <3>4. \A id \in DOMAIN mUnackedPackets' : mUnackedPackets'[id] \in Nat \ {0}
      BY <3>1, <3>2, <3>3 DEF CInv, TypeOK
    <3>5. Waiting' = Waiting \cup {NextID}
      BY <3>1, <3>3 DEF Waiting
    <3>6. DOMAIN mUnackedPackets' \cap mFinalRetryPackets' = {}
      BY <1>3, <3>1, <3>3 DEF Waiting, CInv, WaitsUntilReported
    <3>7. mFinalRetryPackets' \subseteq PacketIDs /\ DOMAIN mUnackedPackets' \subseteq PacketIDs
      BY <1>2, <3>1, <3>3 DEF CInv, TypeOK
    <3> QED
      BY <3>4, <3>5, <3>6, <3>7
  <2>2. CASE retries = 0
    <3>1. /\ mFinalRetryPackets' = mFinalRetryPackets \cup {NextID}
          /\ mUnackedPackets' = mUnackedPackets
      BY <2>2 DEF SendMessage
    <3> QED
      BY <1>2, <1>3, <3>1 DEF CInv, TypeOK, Waiting, WaitsUntilReported
  <2> QED
    BY <2>1, <2>2
<1>5. /\ mUnackedPacketCount = Cardinality(Waiting) /\ IsFiniteSet(Waiting)
      /\ Cardinality(Waiting') = Cardinality(Waiting) + 1
      /\ Cardinality(Waiting') = Cardinality(DOMAIN mUnackedPackets')
                                 + Cardinality(mFinalRetryPackets')
  <2>1. mUnackedPacketCount = Cardinality(Waiting) /\ IsFiniteSet(Waiting)
    BY CountOfWaiting
  <2>2. Cardinality(Waiting') = Cardinality(Waiting) + 1
    BY <1>3, <1>4, <2>1, FS_AddElement
  <2>3. Cardinality(Waiting') = Cardinality(DOMAIN mUnackedPackets')
                                + Cardinality(mFinalRetryPackets')
    <3> DEFINE U == DOMAIN mUnackedPackets' F == mFinalRetryPackets'
    <3>1. Cardinality(U) + Cardinality(F) = Cardinality(U \cup F)
      <4> HIDE DEF U, F
      <4>1. U \subseteq PacketIDs /\ F \subseteq PacketIDs /\ U \cap F = {}
        BY <1>4 DEF U, F
      <4> QED
        BY <4>1, WaitingCount
    <3> QED
      BY <3>1 DEF Waiting
  <2> QED
    BY <2>1, <2>2, <2>3
<1>6. WaitsUntilReported'
  <2>1. report[NextID] = "none"
    BY <1>1, <1>2 DEF CInv, Handled
  <2>2. \A id \in sent' : report'[id] = "none" <=> id \in Waiting'
    BY <1>1, <1>4, <2>1 DEF CInv, WaitsUntilReported
  <2>3. alive' /\ listed'
    BY <1>1, CountOfWaiting DEF CInv, WaitsUntilReported
  <2> QED
    BY <1>1, <1>4, <1>5, <2>2, <2>3 DEF WaitsUntilReported
<1>7. Packet(NextID, FALSE, NotAPing) \in Packets
  BY <1>2 DEF Packet, Packets
<1>8. net' \in Seq(Packets) /\ \A i \in 1 .. Len(net') : IsPing(net'[i]) \/ net'[i].id \in sent'
  <2>1. net \in Seq(Packets)
    BY DEF CInv, TypeOK
  <2>2. /\ net' \in Seq(Packets) /\ Len(net') = Len(net) + 1
        /\ \A j \in 1 .. Len(net) : net'[j] = net[j]
        /\ net'[Len(net) + 1] = Packet(NextID, FALSE, NotAPing)
    <3>1. PICK p \in Packets : p = Packet(NextID, FALSE, NotAPing)
      BY <1>7
    <3>2. net' = Append(net, p)
      BY <1>1, <3>1
    <3>3. /\ Append(net, p) \in Seq(Packets) /\ Len(Append(net, p)) = Len(net) + 1
          /\ \A j \in 1 .. Len(net) : Append(net, p)[j] = net[j]
          /\ Append(net, p)[Len(net) + 1] = p
      BY <2>1, Longer
    <3> HIDE DEF Packets
    <3> QED
      BY <3>1, <3>2, <3>3
  <2>3. net'[Len(net) + 1].id \in sent'
    BY <1>1, <2>2 DEF Packet
  <2>4. \A i \in 1 .. Len(net) : IsPing(net'[i]) \/ net'[i].id \in sent'
    <3>1. \A i \in 1 .. Len(net) : IsPing(net[i]) \/ net[i].id \in sent
      BY DEF CInv, Handled
    <3>2. \A i \in 1 .. Len(net) : net'[i] = net[i]
      BY <2>2
    <3>3. sent \subseteq sent'
      BY <1>1
    <3> QED
      BY <3>1, <3>2, <3>3
  <2>5. ASSUME NEW i \in 1 .. Len(net') PROVE IsPing(net'[i]) \/ net'[i].id \in sent'
    <3>1. i \in 1 .. Len(net) \/ i = Len(net) + 1
      BY <2>1, <2>2
    <3> QED
      BY <2>3, <2>4, <3>1
  <2> QED
    BY <2>2, <2>5
<1>9. TypeOK'
  <2>1. mUnackedPacketCount' \in Nat
    <3>1. mUnackedPacketCount \in Nat
      BY DEF CInv, TypeOK
    <3> QED
      BY <1>1, <3>1
  <2>2. \A ids \in {sent', pings', handled', here', again', overtaken'} : ids \subseteq PacketIDs
    BY <1>1, <1>2 DEF CInv, TypeOK
  <2> QED
    BY <1>1, <1>2, <1>4, <1>8, <2>1, <2>2 DEF CInv, TypeOK
<1>10. Handled'
  BY <1>1, <1>4, <1>8 DEF CInv, Handled
<1>11. Promise!DeliveryNext
  <2>1. Promise!Send
    BY <1>1, <1>2 DEF Promise!Send
  <2> QED
    BY <2>1 DEF Promise!DeliveryNext
<1> QED
  BY <1>6, <1>9, <1>10, <1>11 DEF CInv

\* What a pass of resendUnackedPackets does to the two lists.
LEMMA ResendKeeps ==
    ASSUME CInv, NEW expired, NEW throttled \in Nat, NEW overflowed,
           resendUnackedPackets(expired, throttled, overflowed),
           sent' = sent, alive' = alive, listed' = listed, handled' = handled
    PROVE  /\ WaitsUntilReported' /\ mUnackedPacketCount' \in Nat
           /\ report' \in [PacketIDs -> Results \cup {"none", "twice"}]
           /\ \A id \in PacketIDs \ sent' : report'[id] = "none"
           /\ Waiting' \subseteq Waiting
           /\ \A id \in DOMAIN mUnackedPackets' : mUnackedPackets'[id] \in Nat \ {0}
           /\ Promise!Report("LL_ERR_TCP_TIMEOUT")
<1> DEFINE R == Retried(expired, throttled)
           L == LastTry(R)
           D == Dropped(expired, throttled, overflowed)
           failed == D \cup (mFinalRetryPackets \cap expired)
           U == DOMAIN mUnackedPackets
           F == mFinalRetryPackets
<1>1. /\ mUnackedPackets' = [id \in U \ (L \cup D) |->
                               mUnackedPackets[id] - (IF id \in R THEN 1 ELSE 0)]
      /\ mFinalRetryPackets' = (F \cup L) \ failed
      /\ mUnackedPacketCount' = mUnackedPacketCount - Cardinality(failed)
      /\ report' = Reported(failed, "LL_ERR_TCP_TIMEOUT")
  BY DEF resendUnackedPackets, Kept
<1>2. R \subseteq U /\ L \subseteq R /\ D \subseteq U /\ failed = D \cup (F \cap expired)
  BY DEF Retried, LastTry, Dropped
<1>3. R \cap D = {}
  <2>1. \A id \in U : id \in Nat
    BY IDs DEF CInv, TypeOK
  <2>2. \A id \in R : id < throttled
    BY DEF Retried
  <2>3. \A id \in D : id >= throttled
    BY DEF Dropped
  <2> HIDE DEF R, D, U
  <2> QED
    BY <1>2, <2>1, <2>2, <2>3
<1>4. \A id \in R \ L : mUnackedPackets[id] # 1
  BY DEF LastTry
<1>5. \A id \in U : mUnackedPackets[id] \in Nat \ {0}
  BY DEF CInv, TypeOK
<1>6. U \cap F = {} /\ Waiting = U \cup F
  BY DEF CInv, WaitsUntilReported, Waiting
<1> HIDE DEF R, L, D, failed, F
<1>7. DOMAIN mUnackedPackets' = U \ (L \cup D)
  BY <1>1
<1> HIDE DEF U
<1>8. Waiting' = Waiting \ failed /\ failed \subseteq Waiting
  <2>1. Waiting' = (U \ (L \cup D)) \cup ((F \cup L) \ failed)
    BY <1>1, <1>7 DEF Waiting
  <2> QED
    BY <1>2, <1>3, <1>6, <2>1
<1>9. DOMAIN mUnackedPackets' \cap mFinalRetryPackets' = {}
  BY <1>1, <1>2, <1>6, <1>7
<1>10. \A id \in DOMAIN mUnackedPackets' : mUnackedPackets'[id] \in Nat \ {0}
  <2>1. ASSUME NEW id \in U \ (L \cup D) PROVE mUnackedPackets'[id] \in Nat \ {0}
    <3>1. mUnackedPackets[id] \in Nat \ {0} /\ (id \in R => mUnackedPackets[id] # 1)
      BY <1>4, <1>5, <2>1
    <3>2. mUnackedPackets'[id] = mUnackedPackets[id] - (IF id \in R THEN 1 ELSE 0)
      BY <1>1, <2>1
    <3> QED
      BY <3>1, <3>2
  <2> QED
    BY <1>7, <2>1
<1>11. Waiting' # {} => listed'
  BY <1>8 DEF CInv, WaitsUntilReported
<1>12. "LL_ERR_TCP_TIMEOUT" \in Results /\ "LL_ERR_TCP_TIMEOUT" # "LL_ERR_NOERR"
  BY DEF Results
<1>13. /\ WaitsUntilReported' /\ mUnackedPacketCount' \in Nat
       /\ report' \in [PacketIDs -> Results \cup {"none", "twice"}]
       /\ \A id \in PacketIDs \ sent' : report'[id] = "none"
  BY <1>1, <1>8, <1>9, <1>11, <1>12, ReportKeeps
<1>14. Promise!Report("LL_ERR_TCP_TIMEOUT")
  <2>1. report' = [id \in PacketIDs |-> IF id \in failed THEN "LL_ERR_TCP_TIMEOUT" ELSE report[id]]
    <3>1. \A id \in PacketIDs : report'[id] = IF id \in failed THEN "LL_ERR_TCP_TIMEOUT" ELSE report[id]
      BY <1>1, <1>8, <1>12, ReportedOnce
    <3> QED
      BY <1>13, <3>1
  <2>2. failed \in SUBSET {id \in sent : report[id] = "none"}
    BY <1>8 DEF CInv, WaitsUntilReported, Handled
  <2> QED
    BY <1>12, <2>1, <2>2 DEF Promise!Report
<1> QED
  BY <1>8, <1>10, <1>13, <1>14

\* The oldest id a ping names is one that waits, or the last one used.
LEMMA OldestTyped == CInv => OldestUnacked \in PacketIDs
<1> SUFFICES ASSUME CInv PROVE OldestUnacked \in PacketIDs
  OBVIOUS
<1> DEFINE wrapped == {id \in Waiting : id > mPacketsOutID}
<1>1. Waiting \subseteq PacketIDs /\ wrapped \subseteq Waiting /\ PacketIDs \subseteq Nat
  BY IDs DEF CInv, TypeOK, Waiting
<1>2. OldestUnacked = IF Waiting = {} THEN mPacketsOutID
                      ELSE IF wrapped # {} THEN Min(wrapped) ELSE Min(Waiting)
  BY DEF OldestUnacked
<1> HIDE DEF wrapped
<1>3. wrapped # {} => Min(wrapped) \in wrapped
  BY <1>1, LeastOf
<1>4. Waiting # {} => Min(Waiting) \in Waiting
  BY <1>1, LeastOf
<1> QED
  BY <1>1, <1>2, <1>3, <1>4 DEF CInv, TypeOK

\* What is sent again are packets, whose messages were sent.
LEMMA ResendsTyped ==
    ASSUME CInv, NEW some \in SUBSET Waiting, NEW resends \in Resends(some)
    PROVE  /\ resends \in Seq(Packets)
           /\ \A i \in 1 .. Len(resends) : resends[i].id \in sent
<1>1. some \subseteq PacketIDs /\ some \subseteq sent
  BY DEF CInv, TypeOK, Handled, Waiting
<1>2. PICK n \in Nat : n = Cardinality(some)
  BY <1>1, IDs, FS_Subset, FS_CardinalityType
<1>3. resends \in [1 .. n -> {Packet(id, TRUE, NotAPing) : id \in some}]
  BY <1>2 DEF Resends
<1>4. ASSUME NEW id \in some
      PROVE  Packet(id, TRUE, NotAPing) \in Packets /\ Packet(id, TRUE, NotAPing).id \in sent
  BY <1>1 DEF Packet, Packets
<1> DEFINE S == {Packet(id, TRUE, NotAPing) : id \in some}
<1>5. resends \in [1 .. n -> S]
  BY <1>3
<1>6. S \subseteq Packets /\ \A q \in S : q.id \in sent
  BY <1>4
<1> HIDE DEF S
<1>7. resends \in Seq(S) /\ Len(resends) = n
  BY <1>5
<1>8. resends \in Seq(Packets)
  BY <1>6, <1>7
<1> QED
  BY <1>5, <1>6, <1>7, <1>8

LEMMA ProcessAcksKeeps ==
    ASSUME CInv, NEW ping \in BOOLEAN, NEW p \in Passes,
           ProcessAcks(ping, p.expired, p.throttled, p.overflowed)
    PROVE  CInv' /\ (Promise!DeliveryNext \/ UNCHANGED <<sent, handled, report>>)
<1>1. /\ UNCHANGED <<alive, listed, known, mHighestPacketID, recent, mAcks, back, sent,
                     handled, here, again, overtaken>>
  BY DEF ProcessAcks, receiver
<1>2. p.throttled \in Nat
  <2>1. p.throttled \in DOMAIN mUnackedPackets \cup {LL_MAX_OUT_PACKET_ID}
    BY DEF Passes
  <2> QED
    BY <2>1, IDs, CircuitAssumption DEF CInv, TypeOK
<1>3. NextID \in PacketIDs
  BY IDs DEF NextID, CInv, TypeOK
<1>4. /\ WaitsUntilReported' /\ mUnackedPacketCount' \in Nat
      /\ report' \in [PacketIDs -> Results \cup {"none", "twice"}]
      /\ \A id \in PacketIDs \ sent' : report'[id] = "none"
      /\ Waiting' \subseteq Waiting
      /\ \A id \in DOMAIN mUnackedPackets' : mUnackedPackets'[id] \in Nat \ {0}
      /\ Promise!Report("LL_ERR_TCP_TIMEOUT") \/ UNCHANGED <<sent, handled, report>>
  <2>1. CASE listed
    BY <1>1, <1>2, <2>1, ResendKeeps DEF ProcessAcks
  <2>2. CASE ~listed
    <3>1. UNCHANGED <<mUnackedPackets, mFinalRetryPackets, mUnackedPacketCount, report>>
      BY <2>2 DEF ProcessAcks
    <3>2. Waiting' = Waiting
      BY <3>1 DEF Waiting
    <3>3. WaitsUntilReported'
      BY <1>1, <3>1, <3>2 DEF CInv, WaitsUntilReported
    <3> QED
      BY <1>1, <3>1, <3>2, <3>3 DEF CInv, TypeOK, Handled, Results
  <2> QED
    BY <2>1, <2>2
<1>5. mPacketsOutID' \in PacketIDs /\ pings' \subseteq PacketIDs
  BY <1>3 DEF ProcessAcks, CInv, TypeOK
<1>6. /\ net' \in Seq(Packets)
      /\ \A i \in 1 .. Len(net') : IsPing(net'[i]) \/ net'[i].id \in sent
  <2> DEFINE some == IF listed THEN Retried(p.expired, p.throttled) ELSE {}
  <2>1. some \in SUBSET Waiting
    BY DEF Retried, Waiting
  <2>2. PICK resends \in Resends(some) :
          net' = net \o (IF ping THEN <<Packet(NextID, FALSE, OldestUnacked)>> ELSE <<>>)
                     \o resends
    BY DEF ProcessAcks
  <2> HIDE DEF some
  <2>3. resends \in Seq(Packets) /\ \A i \in 1 .. Len(resends) : resends[i].id \in sent
    BY <2>1, ResendsTyped
  <2>4. Good(<<Packet(NextID, FALSE, OldestUnacked)>>)
    <3>1. PICK q : q = Packet(NextID, FALSE, OldestUnacked)
      OBVIOUS
    <3>2. q \in Packets /\ IsPing(q)
      BY <1>3, <3>1, OldestTyped, IDs DEF IsPing, Packet, Packets
    <3> HIDE DEF Packets
    <3>3. <<q>> \in Seq(Packets) /\ Len(<<q>>) = 1 /\ <<q>>[1] = q
      BY <3>2
    <3>4. Good(<<q>>)
      BY <3>2, <3>3 DEF Good
    <3> QED
      BY <3>1, <3>4
  <2>5. Good(<<>>)
    BY DEF Good
  <2>6. PICK q : q = (IF ping THEN <<Packet(NextID, FALSE, OldestUnacked)>> ELSE <<>>) /\ Good(q)
    BY <2>4, <2>5
  <2>7. Good(net) /\ Good(resends)
    BY <2>3 DEF Good, CInv, TypeOK, Handled
  <2>8. Good(net \o q)
    BY <2>6, <2>7, GoodJoined
  <2>9. net' = (net \o q) \o resends
    BY <2>2, <2>6
  <2> QED
    BY <2>7, <2>8, <2>9, GoodJoined DEF Good
<1>7. TypeOK'
  <2>1. mFinalRetryPackets' \subseteq PacketIDs /\ DOMAIN mUnackedPackets' \subseteq PacketIDs
    BY <1>4 DEF CInv, TypeOK, Waiting
  <2>2. \A ids \in {sent', pings', handled', here', again', overtaken'} : ids \subseteq PacketIDs
    BY <1>1, <1>5 DEF CInv, TypeOK
  <2> QED
    BY <1>1, <1>4, <1>5, <1>6, <2>1, <2>2 DEF CInv, TypeOK, Results
<1>8. Handled'
  BY <1>1, <1>4, <1>6 DEF CInv, Handled
<1> QED
  BY <1>4, <1>7, <1>8 DEF CInv, Promise!DeliveryNext

LEMMA ReceiveAcksKeeps ==
    ASSUME CInv, NEW ids \in back, ReceiveAcks(ids)
    PROVE  CInv' /\ (Promise!DeliveryNext \/ UNCHANGED <<sent, handled, report>>)
<1>1. /\ back' \subseteq back
      /\ UNCHANGED <<alive, mPacketsOutID, known, mHighestPacketID, recent, mAcks, net,
                     sent, pings, handled, here, again, overtaken>>
  BY DEF ReceiveAcks, receiver
<1>2. CASE ~alive
  <2>1. UNCHANGED <<mUnackedPackets, mFinalRetryPackets, mUnackedPacketCount, listed, report>>
    BY <1>2 DEF ReceiveAcks
  <2>2. Waiting' = Waiting
    BY <2>1 DEF Waiting
  <2>3. TypeOK'
    BY <1>1, <2>1 DEF CInv, TypeOK
  <2>4. WaitsUntilReported'
    BY <1>1, <2>1, <2>2 DEF CInv, WaitsUntilReported
  <2>5. Handled'
    BY <1>1, <2>1, <2>2 DEF CInv, Handled
  <2> QED
    BY <1>1, <2>1, <2>3, <2>4, <2>5 DEF CInv
<1>3. CASE alive
  <2> DEFINE A == Acked(ids) U == DOMAIN mUnackedPackets F == mFinalRetryPackets
  <2>1. /\ mUnackedPackets' = [id \in U \ ids |-> mUnackedPackets[id]]
        /\ mFinalRetryPackets' = F \ A
        /\ mUnackedPacketCount' = mUnackedPacketCount - Cardinality(A)
        /\ listed' = (listed /\ mUnackedPacketCount' # 0)
        /\ report' = Reported(A, "LL_ERR_NOERR")
    BY <1>3 DEF ReceiveAcks
  <2>2. U \cap F = {} /\ Waiting = U \cup F /\ A = ids \cap Waiting
    BY DEF CInv, WaitsUntilReported, Waiting, Acked
  <2> HIDE DEF A, F
  <2>3. DOMAIN mUnackedPackets' = U \ ids
    BY <2>1
  <2>4. \A id \in U \ ids : mUnackedPackets'[id] \in Nat \ {0}
    BY <2>1 DEF CInv, TypeOK
  <2> HIDE DEF U
  <2>5. Waiting' = Waiting \ A /\ DOMAIN mUnackedPackets' \cap mFinalRetryPackets' = {}
    <3>1. Waiting' = (U \ ids) \cup (F \ A)
      BY <2>1, <2>3 DEF Waiting
    <3> QED
      BY <2>1, <2>2, <2>3, <3>1
  <2>6. A \subseteq Waiting /\ A \subseteq handled /\ "LL_ERR_NOERR" \in Results
    BY <2>2 DEF CInv, Handled, Results
  <2>7. Waiting' # {} => listed'
    <3>1. Waiting \subseteq PacketIDs /\ mUnackedPacketCount = Cardinality(Waiting)
      BY CountOfWaiting DEF CInv, TypeOK, Waiting
    <3>2. mUnackedPacketCount' = Cardinality(Waiting \ A)
      BY <2>1, <2>6, <3>1, FewerIDs
    <3>3. IsFiniteSet(Waiting \ A)
      BY <3>1, IDs, FS_Subset
    <3>4. Cardinality(Waiting \ A) = 0 => Waiting \ A = {}
      BY <3>3, EmptyCount
    <3>5. Waiting # {} => listed
      BY DEF CInv, WaitsUntilReported
    <3> QED
      BY <2>1, <2>5, <3>2, <3>4, <3>5
  <2>8. /\ WaitsUntilReported' /\ mUnackedPacketCount' \in Nat
        /\ report' \in [PacketIDs -> Results \cup {"none", "twice"}]
        /\ \A id \in PacketIDs \ sent' : report'[id] = "none"
    BY <1>1, <2>1, <2>5, <2>6, <2>7, ReportKeeps
  <2>9. TypeOK'
    <3>1. mFinalRetryPackets' \subseteq PacketIDs /\ DOMAIN mUnackedPackets' \subseteq PacketIDs
      BY <2>5 DEF CInv, TypeOK, Waiting
    <3>2. \A some \in {sent', pings', handled', here', again', overtaken'} :
            some \subseteq PacketIDs
      BY <1>1 DEF CInv, TypeOK
    <3>3. listed' \in BOOLEAN
      BY <2>1
    <3> QED
      BY <1>1, <2>3, <2>4, <2>8, <3>1, <3>2, <3>3 DEF CInv, TypeOK, Results
  <2>10. Handled'
    BY <1>1, <2>5, <2>8 DEF CInv, Handled
  <2>11. Promise!Report("LL_ERR_NOERR")
    <3>1. \A id \in PacketIDs : report'[id] = IF id \in A THEN "LL_ERR_NOERR" ELSE report[id]
      BY <2>1, <2>6, ReportedOnce
    <3>2. report' = [id \in PacketIDs |-> IF id \in A THEN "LL_ERR_NOERR" ELSE report[id]]
      BY <2>8, <3>1
    <3>3. A \in SUBSET {id \in sent : report[id] = "none"}
      BY <2>6 DEF CInv, WaitsUntilReported, Handled
    <3> QED
      BY <1>1, <2>6, <3>2, <3>3 DEF Promise!Report
  <2> QED
    BY <2>8, <2>9, <2>10, <2>11 DEF CInv, Promise!DeliveryNext
<1> QED
  BY <1>2, <1>3

LEMMA RemoveCircuitKeeps ==
    ASSUME CInv, RemoveCircuit
    PROVE  CInv' /\ Promise!DeliveryNext
<1>1. /\ alive' = FALSE /\ listed' = FALSE
      /\ mUnackedPackets' = <<>> /\ mFinalRetryPackets' = {} /\ mUnackedPacketCount' = 0
      /\ report' = Reported(Waiting, "LL_ERR_CIRCUIT_GONE")
      /\ UNCHANGED <<mPacketsOutID, known, mHighestPacketID, recent, mAcks, net, back,
                     sent, pings, handled, here, again, overtaken>>
  BY DEF RemoveCircuit, receiver
<1>2. DOMAIN mUnackedPackets' = {} /\ Waiting' = {}
  BY <1>1 DEF Waiting
<1>3. "LL_ERR_CIRCUIT_GONE" \in Results
  BY DEF Results
<1>4. Waiting \subseteq sent
  BY DEF CInv, Handled
<1>5. /\ report' \in [PacketIDs -> Results \cup {"none", "twice"}]
      /\ \A id \in PacketIDs :
           report'[id] = IF id \in Waiting THEN "LL_ERR_CIRCUIT_GONE" ELSE report[id]
  <2>1. PICK W : W = Waiting
    OBVIOUS
  <2>2. W \subseteq Waiting /\ report' = Reported(W, "LL_ERR_CIRCUIT_GONE")
    BY <1>1, <2>1
  <2>3. /\ Reported(W, "LL_ERR_CIRCUIT_GONE") \in [PacketIDs -> Results \cup {"none", "twice"}]
        /\ \A id \in PacketIDs :
             Reported(W, "LL_ERR_CIRCUIT_GONE")[id]
               = IF id \in W THEN "LL_ERR_CIRCUIT_GONE" ELSE report[id]
    BY <1>3, <2>2, ReportedOnce
  <2> QED
    BY <2>1, <2>2, <2>3
<1>6. WaitsUntilReported'
  <2>1. \A id \in sent : report'[id] # "none"
    BY <1>5 DEF CInv, WaitsUntilReported, TypeOK
  <2>2. mUnackedPacketCount' = Cardinality(DOMAIN mUnackedPackets')
                               + Cardinality(mFinalRetryPackets')
    BY <1>1, <1>2, FS_EmptySet
  <2> QED
    BY <1>1, <1>2, <2>1, <2>2 DEF WaitsUntilReported
<1>7. TypeOK'
  <2>1. \A some \in {sent', pings', handled', here', again', overtaken'} :
          some \subseteq PacketIDs
    BY <1>1 DEF CInv, TypeOK
  <2> QED
    BY <1>1, <1>2, <1>5, <2>1 DEF CInv, TypeOK, Results
<1>8. Handled'
  <2>1. \A id \in PacketIDs \ sent' : report'[id] = "none"
    BY <1>1, <1>4, <1>5 DEF CInv, Handled
  <2> QED
    BY <1>1, <1>2, <2>1 DEF CInv, Handled
<1>9. Promise!Report("LL_ERR_CIRCUIT_GONE")
  <2>1. report' = [id \in PacketIDs |->
                     IF id \in Waiting THEN "LL_ERR_CIRCUIT_GONE" ELSE report[id]]
    BY <1>5
  <2>2. Waiting \in SUBSET {id \in sent : report[id] = "none"}
    BY <1>4 DEF CInv, WaitsUntilReported
  <2> QED
    BY <1>1, <2>1, <2>2 DEF Promise!Report
<1> QED
  BY <1>6, <1>7, <1>8, <1>9 DEF CInv, Promise!DeliveryNext

----------------------------------------------------------------------------
\* A step of the receiver or the network, seen from the sender.
LEMMA SenderSame ==
    ASSUME CInv, UNCHANGED sender, UNCHANGED <<sent, report>>
    PROVE  WaitsUntilReported' /\ Waiting' = Waiting
<1>1. Waiting' = Waiting
  BY DEF Waiting, sender
<1> QED
  BY <1>1 DEF CInv, WaitsUntilReported, sender

\* A packet that arrives or is lost leaves the others.
LEMMA OneLess ==
    ASSUME CInv, NEW i \in 1 .. Len(net), net' = RemoveAt(net, i), sent' = sent
    PROVE  /\ net' \in Seq(Packets)
           /\ \A j \in 1 .. Len(net') : IsPing(net'[j]) \/ net'[j].id \in sent'
<1>1. net \in Seq(Packets)
  BY DEF CInv, TypeOK
<1>2. /\ net' \in Seq(Packets)
      /\ \A j \in 1 .. Len(net') : \E k \in 1 .. Len(net) : net'[j] = net[k]
  BY <1>1, Shorter
<1>3. \A k \in 1 .. Len(net) : IsPing(net[k]) \/ net[k].id \in sent
  BY DEF CInv, Handled
<1>4. ASSUME NEW j \in 1 .. Len(net') PROVE IsPing(net'[j]) \/ net'[j].id \in sent'
  <2>1. PICK k \in 1 .. Len(net) : net'[j] = net[k]
    BY <1>2
  <2> QED
    BY <1>3, <2>1
<1> QED
  BY <1>2, <1>4

LEMMA ArrivesTyped ==
    ASSUME CInv, NEW i \in 1 .. Len(net), Arrives(i), sent' = sent
    PROVE  /\ net' \in Seq(Packets)
           /\ \A j \in 1 .. Len(net') : IsPing(net'[j]) \/ net'[j].id \in sent'
           /\ overtaken' \subseteq PacketIDs
           /\ net[i].id \in PacketIDs
           /\ IsPing(net[i]) \/ net[i].id \in sent
<1>1. \A j \in 1 .. Len(net) : net[j].id \in PacketIDs
  <2>1. net \in Seq(Packets)
    BY DEF CInv, TypeOK
  <2>2. \A q \in Packets : q.id \in PacketIDs
    BY DEF Packets
  <2> HIDE DEF Packets
  <2> QED
    BY <2>1, <2>2
<1>2. overtaken' \subseteq PacketIDs
  <2>1. overtaken \subseteq PacketIDs
    BY DEF CInv, TypeOK
  <2>2. \A k \in 1 .. i - 1 : k \in 1 .. Len(net)
    <3>1. Len(net) \in Nat
      BY DEF CInv, TypeOK
    <3> QED
      BY <3>1
  <2> QED
    BY <1>1, <2>1, <2>2 DEF Arrives
<1>3. net' = RemoveAt(net, i)
  BY DEF Arrives
<1> QED
  BY <1>1, <1>2, <1>3, OneLess DEF CInv, Handled

\* An acknowledgement more.
LEMMA AckMore ==
    ASSUME CInv, NEW id \in PacketIDs, mAcks' = Append(mAcks, id),
           NEW done, handled \subseteq done, id \in done
    PROVE  /\ mAcks' \in Seq(PacketIDs)
           /\ \A j \in 1 .. Len(mAcks') : mAcks'[j] \in done
<1>1. mAcks \in Seq(PacketIDs)
  BY DEF CInv, TypeOK
<1>2. /\ mAcks' \in Seq(PacketIDs) /\ Len(mAcks') = Len(mAcks) + 1
      /\ \A j \in 1 .. Len(mAcks) : mAcks'[j] = mAcks[j]
      /\ mAcks'[Len(mAcks) + 1] = id
  BY <1>1, Longer
<1>3. \A j \in 1 .. Len(mAcks) : mAcks[j] \in handled
  BY DEF CInv, Handled
<1>4. ASSUME NEW j \in 1 .. Len(mAcks') PROVE mAcks'[j] \in done
  <2>1. j \in 1 .. Len(mAcks) \/ j = Len(mAcks) + 1
    BY <1>1, <1>2
  <2> QED
    BY <1>2, <1>3, <2>1
<1> QED
  BY <1>2, <1>4

LEMMA DiscardDuplicateKeeps ==
    ASSUME CInv, NEW i \in 1 .. Len(net), DiscardDuplicate(i)
    PROVE  CInv' /\ UNCHANGED <<sent, handled, report>>
<1>1. /\ Arrives(i) /\ net[i].id \in recent
      /\ mAcks' = Append(mAcks, net[i].id)
      /\ UNCHANGED sender
      /\ UNCHANGED <<known, mHighestPacketID, recent, back, sent, pings, report, handled,
                     here, again>>
  BY DEF DiscardDuplicate, Duplicate
<1>2. /\ net' \in Seq(Packets)
      /\ \A j \in 1 .. Len(net') : IsPing(net'[j]) \/ net'[j].id \in sent'
      /\ overtaken' \subseteq PacketIDs /\ net[i].id \in PacketIDs
  BY <1>1, ArrivesTyped
<1>3. WaitsUntilReported' /\ Waiting' = Waiting
  BY <1>1, SenderSame
<1>4. /\ mAcks' \in Seq(PacketIDs)
      /\ \A j \in 1 .. Len(mAcks') : mAcks'[j] \in handled
  BY <1>1, <1>2, AckMore DEF CInv, Handled
<1>5. TypeOK'
  <2>1. \A some \in {sent', pings', handled', here', again', overtaken'} :
          some \subseteq PacketIDs
    BY <1>1, <1>2 DEF CInv, TypeOK
  <2> QED
    BY <1>1, <1>2, <1>4, <2>1 DEF CInv, TypeOK, sender
<1>6. Handled'
  BY <1>1, <1>2, <1>3, <1>4 DEF CInv, Handled
<1> QED
  BY <1>1, <1>3, <1>5, <1>6 DEF CInv

LEMMA HandleMessageKeeps ==
    ASSUME CInv, NEW i \in 1 .. Len(net), HandleMessage(i)
    PROVE  CInv' /\ Promise!DeliveryNext
<1> DEFINE id == net[i].id
<1>1. /\ Arrives(i) /\ ~IsPing(net[i])
      /\ handled' = handled \cup {id}
      /\ again' = again \cup (here \cap {id})
      /\ UNCHANGED sender
      /\ UNCHANGED <<back, sent, pings, report>>
  BY DEF HandleMessage
<1>2. /\ net' \in Seq(Packets)
      /\ \A j \in 1 .. Len(net') : IsPing(net'[j]) \/ net'[j].id \in sent'
      /\ overtaken' \subseteq PacketIDs /\ id \in PacketIDs /\ id \in sent
  BY <1>1, ArrivesTyped
<1> HIDE DEF id
<1>3. WaitsUntilReported' /\ Waiting' = Waiting
  BY <1>1, SenderSame
<1>4. /\ known' \in BOOLEAN /\ mHighestPacketID' \in PacketIDs
      /\ recent' \subseteq handled' /\ here' \subseteq PacketIDs
      /\ mAcks' \in Seq(PacketIDs) /\ \A j \in 1 .. Len(mAcks') : mAcks'[j] \in handled'
  <2>1. CASE id \in Closing
    <3>1. /\ known' = FALSE /\ mHighestPacketID' = 0 /\ recent' = {} /\ mAcks' = <<>>
          /\ here' = {}
      BY <2>1 DEF HandleMessage, id
    <3>2. mAcks' \in Seq(PacketIDs) /\ Len(mAcks') = 0
      BY <3>1
    <3>3. known' \in BOOLEAN /\ mHighestPacketID' \in PacketIDs
      BY <3>1, IDs
    <3>4. recent' \subseteq handled' /\ here' \subseteq PacketIDs
      BY <3>1
    <3>5. \A j \in 1 .. Len(mAcks') : mAcks'[j] \in handled'
      BY <3>2
    <3> QED
      BY <3>2, <3>3, <3>4, <3>5
  <2>2. CASE id \notin Closing
    <3>1. /\ known' = TRUE
          /\ mHighestPacketID' = IF known THEN Higher(mHighestPacketID, id) ELSE id
          /\ recent' = recent \cup {id} /\ mAcks' = Append(mAcks, id)
          /\ here' = here \cup {id}
      BY <2>2 DEF HandleMessage, id
    <3>2. mHighestPacketID' \in PacketIDs
      BY <1>2, <3>1, HigherTyped DEF CInv, TypeOK
    <3>3. mAcks' \in Seq(PacketIDs) /\ \A j \in 1 .. Len(mAcks') : mAcks'[j] \in handled'
      BY <1>1, <1>2, <3>1, AckMore DEF CInv, Handled
    <3> QED
      BY <1>1, <1>2, <3>1, <3>2, <3>3 DEF CInv, TypeOK, Handled
  <2> QED
    BY <2>1, <2>2
<1>5. TypeOK'
  <2>1. \A some \in {sent', pings', handled', here', again', overtaken'} :
          some \subseteq PacketIDs
    BY <1>1, <1>2, <1>4 DEF CInv, TypeOK
  <2> QED
    BY <1>1, <1>2, <1>4, <2>1 DEF CInv, TypeOK, sender
<1>6. Handled'
  BY <1>1, <1>2, <1>3, <1>4 DEF CInv, Handled
<1>7. Promise!Handle
  BY <1>1, <1>2 DEF Promise!Handle
<1> QED
  BY <1>3, <1>5, <1>6, <1>7 DEF CInv, Promise!DeliveryNext

LEMMA HandlePingKeeps ==
    ASSUME CInv, NEW i \in 1 .. Len(net), HandlePing(i)
    PROVE  CInv' /\ UNCHANGED <<sent, handled, report>>
<1> DEFINE id == net[i].id
           highest == IF known THEN Higher(mHighestPacketID, id) ELSE id
<1>1. /\ Arrives(i) /\ known' = TRUE /\ mHighestPacketID' = highest
      /\ recent' \subseteq recent
      /\ UNCHANGED sender
      /\ UNCHANGED <<mAcks, back, sent, pings, report, handled, here, again>>
  BY DEF HandlePing, Remembered
<1>2. /\ net' \in Seq(Packets)
      /\ \A j \in 1 .. Len(net') : IsPing(net'[j]) \/ net'[j].id \in sent'
      /\ overtaken' \subseteq PacketIDs /\ id \in PacketIDs
  BY <1>1, ArrivesTyped
<1>3. highest \in PacketIDs
  BY <1>2, HigherTyped DEF CInv, TypeOK
<1> HIDE DEF id, highest
<1>4. WaitsUntilReported' /\ Waiting' = Waiting
  BY <1>1, SenderSame
<1>5. TypeOK'
  <2>1. \A some \in {sent', pings', handled', here', again', overtaken'} :
          some \subseteq PacketIDs
    BY <1>1, <1>2 DEF CInv, TypeOK
  <2> QED
    BY <1>1, <1>2, <1>3, <2>1 DEF CInv, TypeOK, sender
<1>6. Handled'
  BY <1>1, <1>2, <1>4 DEF CInv, Handled
<1> QED
  BY <1>1, <1>4, <1>5, <1>6 DEF CInv

LEMMA SendAcksKeeps ==
    ASSUME CInv, NEW n \in 1 .. Len(mAcks), SendAcks(n)
    PROVE  CInv' /\ UNCHANGED <<sent, handled, report>>
<1>1. /\ back' = back \cup {Range(SubSeq(mAcks, 1, n))}
      /\ mAcks' = SubSeq(mAcks, n + 1, Len(mAcks))
      /\ UNCHANGED sender
      /\ UNCHANGED <<known, mHighestPacketID, recent, net, sent, pings, report, handled,
                     here, again, overtaken>>
  BY DEF SendAcks, history
<1>2. mAcks \in Seq(PacketIDs) /\ \A j \in 1 .. Len(mAcks) : mAcks[j] \in handled
  BY DEF CInv, TypeOK, Handled
<1>3. n \in Nat /\ n <= Len(mAcks) /\ Len(mAcks) \in Nat
  BY <1>2
<1>4. /\ SubSeq(mAcks, 1, n) \in Seq(PacketIDs) /\ Len(SubSeq(mAcks, 1, n)) = n
      /\ \A j \in 1 .. n : SubSeq(mAcks, 1, n)[j] = mAcks[j]
      /\ mAcks' \in Seq(PacketIDs) /\ Len(mAcks') = Len(mAcks) - n
      /\ \A j \in 1 .. Len(mAcks) - n : mAcks'[j] = mAcks[n + j]
  BY <1>1, <1>2, <1>3, Cut
<1>5. Range(SubSeq(mAcks, 1, n)) \subseteq PacketIDs \cap handled
  <2>1. PICK s \in Seq(PacketIDs) : /\ s = SubSeq(mAcks, 1, n) /\ Len(s) = n
                                    /\ \A j \in 1 .. n : s[j] = mAcks[j]
    BY <1>4
  <2>2. \A j \in 1 .. n : s[j] \in PacketIDs /\ s[j] \in handled
    BY <1>2, <1>3, <2>1
  <2>3. DOMAIN s = 1 .. n
    BY <2>1
  <2>4. Range(s) \subseteq PacketIDs \cap handled
    BY <2>2, <2>3 DEF Range
  <2> QED
    BY <2>1, <2>4
<1>6. \A j \in 1 .. Len(mAcks') : mAcks'[j] \in handled
  <2>1. ASSUME NEW j \in 1 .. Len(mAcks') PROVE mAcks'[j] \in handled
    <3>1. j \in 1 .. Len(mAcks) - n /\ n + j \in 1 .. Len(mAcks)
      BY <1>3, <1>4
    <3> QED
      BY <1>2, <1>4, <3>1
  <2> QED
    BY <2>1
<1>7. WaitsUntilReported' /\ Waiting' = Waiting
  BY <1>1, SenderSame
<1>8. TypeOK'
  <2>1. back' \subseteq SUBSET PacketIDs
    BY <1>1, <1>5 DEF CInv, TypeOK
  <2>2. \A some \in {sent', pings', handled', here', again', overtaken'} :
          some \subseteq PacketIDs
    BY <1>1 DEF CInv, TypeOK
  <2> QED
    BY <1>1, <1>4, <2>1, <2>2 DEF CInv, TypeOK, sender
<1>9. Handled'
  BY <1>1, <1>5, <1>6, <1>7 DEF CInv, Handled
<1> QED
  BY <1>1, <1>7, <1>8, <1>9 DEF CInv

LEMMA ForgetSenderKeeps ==
    ASSUME CInv, ForgetSender
    PROVE  CInv' /\ UNCHANGED <<sent, handled, report>>
<1>1. /\ known' = FALSE /\ mHighestPacketID' = 0 /\ recent' = {} /\ mAcks' = <<>> /\ here' = {}
      /\ UNCHANGED sender
      /\ UNCHANGED <<net, back, sent, pings, report, handled, again, overtaken>>
  BY DEF ForgetSender
<1>2. mAcks' \in Seq(PacketIDs) /\ Len(mAcks') = 0
  BY <1>1
<1>3. WaitsUntilReported' /\ Waiting' = Waiting
  BY <1>1, SenderSame
<1>4. TypeOK'
  <2>1. \A some \in {sent', pings', handled', here', again', overtaken'} :
          some \subseteq PacketIDs
    BY <1>1 DEF CInv, TypeOK
  <2> QED
    BY <1>1, <1>2, <2>1, IDs DEF CInv, TypeOK, sender
<1>5. Handled'
  BY <1>1, <1>2, <1>3 DEF CInv, Handled
<1> QED
  BY <1>1, <1>3, <1>4, <1>5 DEF CInv

LEMMA LoseKeeps ==
    ASSUME CInv, Lose
    PROVE  CInv' /\ UNCHANGED <<sent, handled, report>>
<1>1. PICK i \in 1 .. Len(net) : net' = RemoveAt(net, i)
  BY DEF Lose
<1>2. UNCHANGED <<sender, receiver, back, history>>
  BY DEF Lose
<1>3. /\ net' \in Seq(Packets)
      /\ \A j \in 1 .. Len(net') : IsPing(net'[j]) \/ net'[j].id \in sent'
  BY <1>1, <1>2, OneLess DEF history
<1>4. WaitsUntilReported' /\ Waiting' = Waiting
  BY <1>2, SenderSame DEF history
<1>5. TypeOK'
  <2>1. \A some \in {sent', pings', handled', here', again', overtaken'} :
          some \subseteq PacketIDs
    BY <1>2 DEF CInv, TypeOK, history
  <2> QED
    BY <1>2, <1>3, <2>1 DEF CInv, TypeOK, sender, receiver, history
<1>6. Handled'
  BY <1>2, <1>3, <1>4 DEF CInv, Handled, receiver, history
<1> QED
  BY <1>2, <1>4, <1>5, <1>6 DEF CInv, history

----------------------------------------------------------------------------
LEMMA CNext ==
    CInv /\ [CircuitNext]_vars
      => CInv' /\ [Promise!DeliveryNext]_<<sent, handled, report>>
<1> SUFFICES ASSUME CInv, [CircuitNext]_vars
             PROVE  CInv' /\ (Promise!DeliveryNext \/ UNCHANGED <<sent, handled, report>>)
  OBVIOUS
<1>1. CASE Sender
  BY <1>1, SendMessageKeeps, ProcessAcksKeeps, ReceiveAcksKeeps, RemoveCircuitKeeps
     DEF Sender
<1>2. CASE Receiver
  BY <1>2, DiscardDuplicateKeeps, HandleMessageKeeps, HandlePingKeeps, SendAcksKeeps,
     ForgetSenderKeeps DEF Receiver
<1>3. CASE Lose
  BY <1>3, LoseKeeps
<1>4. CASE UNCHANGED vars
  <2>1. UNCHANGED <<sender, receiver, net, back, history>>
    BY <1>4 DEF vars
  <2>2. WaitsUntilReported' /\ Waiting' = Waiting
    BY <2>1, SenderSame DEF history
  <2>3. TypeOK'
    BY <2>1 DEF CInv, TypeOK, sender, receiver, history
  <2>4. Handled'
    BY <2>1, <2>2 DEF CInv, Handled, receiver, history
  <2> QED
    BY <2>1, <2>2, <2>3, <2>4 DEF CInv, history
<1> QED
  BY <1>1, <1>2, <1>3, <1>4 DEF CircuitNext

LEMMA AlwaysCInv == Spec => []CInv
<1>1. CInv /\ [CircuitNext]_vars => CInv'
  BY CNext
<1> QED
  BY <1>1, CInit, PTL DEF Spec

\* Every reachable state is of its type.
THEOREM TypeCorrect == Spec => []TypeOK
<1>1. CInv => TypeOK
  BY DEF CInv
<1> QED
  BY AlwaysCInv, <1>1, PTL

\* mUnackedPacketCount counts the packets that wait, the circuit is visited as
\* long as there are some, and what waits is what was not reported on.
THEOREM Bookkeeping == Spec => []WaitsUntilReported
<1>1. CInv => WaitsUntilReported
  BY DEF CInv
<1> QED
  BY AlwaysCInv, <1>1, PTL

\* Whatever is lost, reordered, resent or forgotten, and wherever ids wrap: the
\* sender hears once of each message, and success only of one that was handled.
THEOREM Implements == Spec => ImplementsDelivery
<1>1. Init => Promise!DeliveryInit
  BY DEF Init, Promise!DeliveryInit
<1>2. CInv /\ [CircuitNext]_vars => [Promise!DeliveryNext]_<<sent, handled, report>>
  BY CNext
<1>3. <<sent, handled, report>> = Promise!deliveryVars
  BY DEF Promise!deliveryVars
<1> QED
  BY AlwaysCInv, <1>1, <1>2, <1>3, PTL
     DEF Spec, ImplementsDelivery, Promise!DeliverySpec, Promise!deliveryVars

----------------------------------------------------------------------------
\* The order of packet ids.

\* The place of an id in the order they are given out.
Index(id) ==
    IF id >= FirstID THEN id - FirstID ELSE id - FirstID + LL_MAX_OUT_PACKET_ID

\* The ids in use lie within half of their range, as checkPacketInID takes for
\* granted.
FewPackets == 2 * (MaxMessages + MaxPings) < LL_MAX_OUT_PACKET_ID

Bound == MaxMessages + MaxPings

LEMMA IndexFacts ==
    /\ LL_MAX_OUT_PACKET_ID \in Nat /\ FirstID \in Nat /\ FirstID < LL_MAX_OUT_PACKET_ID
    /\ Bound \in Nat
    /\ \A id \in PacketIDs : id \in Nat /\ id < LL_MAX_OUT_PACKET_ID
                             /\ Index(id) \in Nat /\ Index(id) < LL_MAX_OUT_PACKET_ID
    /\ Index(FirstID) = 0
<1>1. PICK m \in Nat : m = LL_MAX_OUT_PACKET_ID /\ m > 0
  BY CircuitAssumption
<1>2. PacketIDs = 0 .. m - 1
  BY <1>1 DEF PacketIDs
<1> QED
  BY <1>1, <1>2, CircuitAssumption DEF Index, Bound

\* The next id has the next place, unless all are used up.
LEMMA NextIndex ==
    ASSUME mPacketsOutID \in PacketIDs, NextID # FirstID
    PROVE  Index(NextID) = Index(mPacketsOutID) + 1
<1>1. PICK m \in Nat : m = LL_MAX_OUT_PACKET_ID /\ m > 0
  BY CircuitAssumption
<1>2. mPacketsOutID \in 0 .. m - 1
  BY <1>1 DEF PacketIDs
<1>3. mPacketsOutID + 1 < m => (mPacketsOutID + 1) % m = mPacketsOutID + 1
  BY <1>1, <1>2
<1>4. m % m = 0
  BY <1>1
<1>5. NextID = IF mPacketsOutID + 1 = m THEN 0 ELSE mPacketsOutID + 1
  BY <1>1, <1>2, <1>3, <1>4 DEF NextID
<1> QED
  BY <1>1, <1>2, <1>5, IndexFacts DEF Index

\* Going on from a to b to c one does not pass c before b by the numbers.
LEMMA Cyclic ==
    ASSUME NEW a \in PacketIDs, NEW b \in PacketIDs, NEW c \in PacketIDs,
           Index(a) <= Index(b), Index(b) <= Index(c)
    PROVE  ~(b < a /\ a < c)
BY IndexFacts DEF Index

\* Of two ids in half the range, checkPacketInID finds the later one.
LEMMA HigherIndex ==
    ASSUME FewPackets, NEW a \in PacketIDs, NEW b \in PacketIDs,
           Index(a) <= Bound, Index(b) <= Bound
    PROVE  /\ Higher(a, b) \in {a, b}
           /\ Index(a) <= Index(Higher(a, b)) /\ Index(b) <= Index(Higher(a, b))
<1>1. /\ 2 * Bound < LL_MAX_OUT_PACKET_ID
      /\ a \in Nat /\ b \in Nat /\ a < LL_MAX_OUT_PACKET_ID /\ b < LL_MAX_OUT_PACKET_ID
      /\ LL_MAX_OUT_PACKET_ID \in Nat /\ FirstID \in Nat /\ Bound \in Nat
      /\ FirstID < LL_MAX_OUT_PACKET_ID
  BY IndexFacts DEF FewPackets, Bound
<1>2. a <= b \/ b <= a
  BY <1>1
<1>3. Max({a, b}) = IF a <= b THEN b ELSE a
  <2>1. Max({a, b}) \in {a, b} /\ Max({a, b}) >= a /\ Max({a, b}) >= b
    BY <1>1, <1>2 DEF Max
  <2> QED
    BY <1>1, <2>1
<1>4. Higher(a, b) = IF 2 * (a - b) > LL_MAX_OUT_PACKET_ID THEN b
                     ELSE IF 2 * (b - a) > LL_MAX_OUT_PACKET_ID THEN a
                     ELSE IF a <= b THEN b ELSE a
  BY <1>3 DEF Higher
<1>5. PICK m \in Nat, f \in Nat, n \in Nat :
        /\ m = LL_MAX_OUT_PACKET_ID /\ f = FirstID /\ n = Bound
        /\ 2 * n < m /\ a < m /\ b < m /\ f < m
  BY <1>1
<1>6. /\ Index(a) = IF a >= f THEN a - f ELSE a - f + m
      /\ Index(b) = IF b >= f THEN b - f ELSE b - f + m
      /\ Index(a) <= n /\ Index(b) <= n
  BY <1>5 DEF Index
<1>7. Higher(a, b) = IF 2 * (a - b) > m THEN b
                     ELSE IF 2 * (b - a) > m THEN a
                     ELSE IF a <= b THEN b ELSE a
  BY <1>4, <1>5
<1>8. CASE a >= f /\ b >= f
  BY <1>1, <1>5, <1>6, <1>7, <1>8
<1>9. CASE a >= f /\ b < f
  BY <1>1, <1>5, <1>6, <1>7, <1>9
<1>10. CASE a < f /\ b >= f
  BY <1>1, <1>5, <1>6, <1>7, <1>10
<1>11. CASE a < f /\ b < f
  BY <1>1, <1>5, <1>6, <1>7, <1>11
<1> QED
  BY <1>1, <1>5, <1>8, <1>9, <1>10, <1>11

\* Of ids up to p, those above p by their numbers come first.
LEMMA WrappedFirst ==
    ASSUME NEW p \in PacketIDs, NEW a \in PacketIDs, NEW b \in PacketIDs,
           Index(a) <= Index(p), Index(b) <= Index(p)
    PROVE  /\ a > p /\ b > p /\ a <= b => Index(a) <= Index(b)
           /\ a > p /\ ~(b > p) => Index(a) <= Index(b)
           /\ ~(a > p) /\ ~(b > p) /\ a <= b => Index(a) <= Index(b)
BY IndexFacts DEF Index


----------------------------------------------------------------------------
\* What the network may hold, in which order.

\* Of two copies of a packet the one sent later is a resend, and what is sent
\* after a ping is not older than the oldest packet it names.
Before(p, q) ==
    /\ p.id = q.id => q.resent
    /\ IsPing(p) => Index(p.oldest) <= Index(q.id)

InOrder(packets) ==
    \A i, j \in 1 .. Len(packets) : i < j => Before(packets[i], packets[j])

\* A ping is sent once and names a packet not younger than itself, nor than any
\* that waits.  An original that comes after its message was handled was
\* overtaken.
Plausible(p) ==
    /\ p.id \in sent \cup pings
    /\ IsPing(p) =>
         /\ ~p.resent /\ p.oldest \in PacketIDs
         /\ Index(p.oldest) <= Index(p.id)
         /\ \A id \in Waiting : Index(p.oldest) <= Index(id)
    /\ ~p.resent /\ p.id \in handled => p.id \in overtaken

OnTheWay ==
    /\ InOrder(net)
    /\ \A i \in 1 .. Len(net) : Plausible(net[i])

\* The ids in use.
SenderWindow ==
    /\ \A id \in sent \cup pings : Index(id) <= Index(mPacketsOutID)
    /\ Index(mPacketsOutID) <= Cardinality(sent) + Cardinality(pings)
    /\ Cardinality(sent) <= MaxMessages /\ Cardinality(pings) <= MaxPings

\* What the receiver has seen of them.
ReceiverWindow ==
    /\ known =>
         /\ Index(mHighestPacketID) <= Index(mPacketsOutID)
         /\ \A id \in recent : Index(id) <= Index(mHighestPacketID)
    /\ ~known => recent = {} /\ here = {}
    /\ here \subseteq handled

\* A message that was handled and forgotten was overtaken, or comes no more.
Forgotten ==
    \A id \in here \ recent :
      \/ id \in overtaken
      \/ /\ id \notin Waiting
         /\ \A i \in 1 .. Len(net) : net[i].resent => net[i].id # id

TInv ==
    /\ CInv /\ OnTheWay /\ SenderWindow /\ ReceiverWindow /\ Forgotten
    /\ TwiceOnlyIfOvertaken

LEMMA InOrderJoined ==
    ASSUME NEW a \in Seq(Packets), NEW b \in Seq(Packets), InOrder(a), InOrder(b),
           \A i \in 1 .. Len(a), j \in 1 .. Len(b) : Before(a[i], b[j])
    PROVE  InOrder(a \o b)
<1>1. /\ Len(a \o b) = Len(a) + Len(b) /\ Len(a) \in Nat /\ Len(b) \in Nat
      /\ \A j \in 1 .. Len(a) : (a \o b)[j] = a[j]
      /\ \A j \in 1 .. Len(b) : (a \o b)[Len(a) + j] = b[j]
  BY Joined
<1>2. ASSUME NEW i \in 1 .. Len(a \o b), ~(i \in 1 .. Len(a))
      PROVE  \E j \in 1 .. Len(b) : i = Len(a) + j
  <2>1. i - Len(a) \in 1 .. Len(b) /\ i = Len(a) + (i - Len(a))
    BY <1>1, <1>2
  <2> QED
    BY <2>1
<1>3. ASSUME NEW i \in 1 .. Len(a \o b), NEW j \in 1 .. Len(a \o b), i < j
      PROVE  Before((a \o b)[i], (a \o b)[j])
  <2>1. CASE j \in 1 .. Len(a)
    <3>1. i \in 1 .. Len(a)
      BY <1>1, <1>3, <2>1
    <3> QED
      BY <1>1, <1>3, <2>1, <3>1 DEF InOrder
  <2>2. CASE i \in 1 .. Len(a) /\ j \notin 1 .. Len(a)
    <3>1. PICK l \in 1 .. Len(b) : j = Len(a) + l
      BY <1>2, <2>2
    <3> QED
      BY <1>1, <2>2, <3>1
  <2>3. CASE i \notin 1 .. Len(a) /\ j \notin 1 .. Len(a)
    <3>1. PICK k \in 1 .. Len(b) : i = Len(a) + k
      BY <1>2, <2>3
    <3>2. PICK l \in 1 .. Len(b) : j = Len(a) + l
      BY <1>2, <2>3
    <3>3. k < l
      BY <1>1, <1>3, <3>1, <3>2
    <3> QED
      BY <1>1, <3>1, <3>2, <3>3 DEF InOrder
  <2> QED
    BY <2>1, <2>2, <2>3
<1> QED
  BY <1>3 DEF InOrder

\* Where the packets are when one is taken out.
LEMMA Removed ==
    ASSUME net \in Seq(Packets), NEW i \in 1 .. Len(net), net' = RemoveAt(net, i)
    PROVE  /\ Len(net) \in Nat /\ Len(net') = Len(net) - 1
           /\ \A j \in 1 .. Len(net') : net'[j] = net[IF j < i THEN j ELSE j + 1]
           /\ \A j \in 1 .. Len(net') : \E k \in 1 .. Len(net) : k # i /\ net'[j] = net[k]
           /\ InOrder(net) => InOrder(net')
<1>1. /\ Len(net) \in Nat /\ Len(net') = Len(net) - 1
      /\ \A j \in 1 .. Len(net') : net'[j] = net[IF j < i THEN j ELSE j + 1]
  BY MovedUp
<1> DEFINE Old(j) == IF j < i THEN j ELSE j + 1
<1>2. \A j \in 1 .. Len(net') : Old(j) \in 1 .. Len(net) /\ Old(j) # i
  BY <1>1
<1>3. \A j, k \in 1 .. Len(net') : j < k => Old(j) < Old(k)
  BY <1>1
<1>4. \A j \in 1 .. Len(net') : net'[j] = net[Old(j)]
  BY <1>1
<1> HIDE DEF Old
<1>5. InOrder(net) => InOrder(net')
  <2>1. SUFFICES ASSUME InOrder(net), NEW j \in 1 .. Len(net'), NEW k \in 1 .. Len(net'), j < k
                 PROVE  Before(net'[j], net'[k])
    BY DEF InOrder
  <2>2. Before(net[Old(j)], net[Old(k)])
    BY <1>2, <1>3, <2>1 DEF InOrder
  <2> QED
    BY <1>4, <2>2
<1> QED
  BY <1>1, <1>2, <1>4, <1>5

\* The next id is new and has the place behind all others.
LEMMA FreshID ==
    ASSUME TInv, Fresh
    PROVE  /\ NextID \in PacketIDs /\ Index(NextID) = Index(mPacketsOutID) + 1
           /\ NextID \notin sent \cup pings \cup handled \cup here \cup Waiting
           /\ \A id \in sent \cup pings \cup Waiting : Index(id) <= Index(NextID)
<1>1. NextID \in PacketIDs
  BY IDs DEF NextID, TInv, CInv, TypeOK
<1>2. Index(NextID) = Index(mPacketsOutID) + 1
  BY NextIndex DEF Fresh, TInv, CInv, TypeOK
<1>3. NextID \notin sent \cup pings \cup handled \cup here \cup Waiting
  BY DEF Fresh, TInv, CInv, Handled, ReceiverWindow
<1>4. \A id \in sent \cup pings \cup Waiting : Index(id) <= Index(mPacketsOutID)
  BY DEF TInv, CInv, Handled, SenderWindow
<1>5. \A id \in sent \cup pings \cup Waiting \cup {mPacketsOutID} : Index(id) \in Nat
  BY IndexFacts DEF TInv, CInv, TypeOK, Handled
<1>6. \A id \in sent \cup pings \cup Waiting : Index(id) <= Index(NextID)
  BY <1>2, <1>4, <1>5
<1> QED
  BY <1>1, <1>2, <1>3, <1>6

\* A ping names the oldest packet that waits.
LEMMA OldestIsOldest ==
    ASSUME TInv
    PROVE  /\ OldestUnacked \in PacketIDs
           /\ Index(OldestUnacked) <= Index(mPacketsOutID)
           /\ \A id \in Waiting : Index(OldestUnacked) <= Index(id)
<1> DEFINE p == mPacketsOutID
           wrapped == {id \in Waiting : id > p}
<1>1. /\ p \in PacketIDs /\ Waiting \subseteq PacketIDs /\ wrapped \subseteq Waiting
      /\ PacketIDs \subseteq Nat
      /\ \A id \in Waiting : Index(id) <= Index(p)
  BY IDs DEF TInv, CInv, TypeOK, Handled, Waiting, SenderWindow
<1>2. OldestUnacked = IF Waiting = {} THEN p
                      ELSE IF wrapped # {} THEN Min(wrapped) ELSE Min(Waiting)
  BY DEF OldestUnacked
<1>3. \A id \in Waiting : id > p <=> id \in wrapped
  OBVIOUS
<1>4. \A id \in PacketIDs : Index(id) \in Nat
  BY IndexFacts
<1> HIDE DEF wrapped, p
<1>5. CASE Waiting = {}
  <2>1. OldestUnacked = p
    BY <1>2, <1>5
  <2>2. Index(p) <= Index(p)
    BY <1>1, <1>4
  <2> QED
    BY <1>1, <1>5, <2>1, <2>2 DEF p
<1>6. CASE wrapped # {}
  <2>1. Min(wrapped) \in wrapped /\ \A id \in wrapped : Min(wrapped) <= id
    BY <1>1, <1>6, LeastOf
  <2>2. PICK m \in wrapped : m = OldestUnacked /\ \A id \in wrapped : m <= id
    BY <1>1, <1>2, <1>6, <2>1
  <2>3. \A id \in Waiting : Index(m) <= Index(id)
    BY <1>1, <1>3, <2>2, WrappedFirst
  <2> QED
    BY <1>1, <2>2, <2>3 DEF p
<1>7. CASE Waiting # {} /\ wrapped = {}
  <2>1. Min(Waiting) \in Waiting /\ \A id \in Waiting : Min(Waiting) <= id
    BY <1>1, <1>7, LeastOf
  <2>2. PICK m \in Waiting : m = OldestUnacked /\ \A id \in Waiting : m <= id
    BY <1>2, <1>7, <2>1
  <2>3. \A id \in Waiting : Index(m) <= Index(id)
    BY <1>1, <1>3, <1>7, <2>2, WrappedFirst
  <2> QED
    BY <1>1, <2>2, <2>3 DEF p
<1> QED
  BY <1>5, <1>6, <1>7

----------------------------------------------------------------------------
LEMMA TInit == Init => TInv
<1> SUFFICES ASSUME Init PROVE TInv
  OBVIOUS
<1>1. CInv
  BY CInit
<1>2. Len(net) = 0 /\ sent = {} /\ pings = {} /\ here = {} /\ again = {} /\ recent = {}
      /\ mPacketsOutID = FirstID /\ mHighestPacketID = FirstID /\ known
  BY DEF Init
<1>3. OnTheWay
  BY <1>2 DEF OnTheWay, InOrder
<1>4. SenderWindow
  BY <1>2, IndexFacts, FS_EmptySet, CircuitAssumption DEF SenderWindow
<1>5. ReceiverWindow
  BY <1>2, IndexFacts DEF ReceiverWindow
<1>6. Forgotten /\ TwiceOnlyIfOvertaken
  BY <1>2 DEF Forgotten, TwiceOnlyIfOvertaken
<1> QED
  BY <1>1, <1>3, <1>4, <1>5, <1>6 DEF TInv

\* The packets under way are packets.
LEMMA NetTyped ==
    ASSUME TInv
    PROVE  /\ net \in Seq(Packets) /\ Len(net) \in Nat
           /\ \A i \in 1 .. Len(net) : net[i] \in Packets /\ net[i].id \in PacketIDs
                                       /\ net[i].resent \in BOOLEAN
<1>1. net \in Seq(Packets)
  BY DEF TInv, CInv, TypeOK
<1>2. \A p \in Packets : p.id \in PacketIDs /\ p.resent \in BOOLEAN
  BY DEF Packets
<1> HIDE DEF Packets
<1> QED
  BY <1>1, <1>2

\* A packet stays plausible: what waits anew is younger than any ping.
LEMMA PlausibleKeeps ==
    ASSUME TInv, NEW p \in Packets, Plausible(p),
           sent \subseteq sent', pings \subseteq pings', overtaken \subseteq overtaken',
           \A id \in Waiting' \ Waiting : id \in PacketIDs /\ Index(mPacketsOutID) <= Index(id),
           ~p.resent /\ p.id \in handled' \ handled => p.id \in overtaken'
    PROVE  Plausible(p)'
<1>1. p.id \in sent' \cup pings'
  BY DEF Plausible
<1>2. ~p.resent /\ p.id \in handled' => p.id \in overtaken'
  BY DEF Plausible
<1>3. ASSUME IsPing(p), NEW id \in Waiting' PROVE Index(p.oldest) <= Index(id)
  <2>1. CASE id \in Waiting
    BY <1>3, <2>1 DEF Plausible
  <2>2. CASE id \notin Waiting
    <3>1. Index(p.oldest) <= Index(p.id) /\ Index(p.id) <= Index(mPacketsOutID)
          /\ Index(mPacketsOutID) <= Index(id)
      BY <1>3, <2>2 DEF Plausible, TInv, SenderWindow
    <3>2. /\ p.oldest \in PacketIDs /\ p.id \in PacketIDs /\ mPacketsOutID \in PacketIDs
          /\ id \in PacketIDs
      BY <1>3, <2>2 DEF Plausible, TInv, CInv, TypeOK
    <3>3. /\ Index(p.oldest) \in Nat /\ Index(p.id) \in Nat /\ Index(mPacketsOutID) \in Nat
          /\ Index(id) \in Nat
      BY <3>2, IndexFacts
    <3> QED
      BY <3>1, <3>3
  <2> QED
    BY <2>1, <2>2
<1>4. IsPing(p) => ~p.resent /\ p.oldest \in PacketIDs /\ Index(p.oldest) <= Index(p.id)
  BY DEF Plausible
<1> QED
  BY <1>1, <1>2, <1>3, <1>4 DEF Plausible

\* A step of the sender: more goes on the way.
LEMMA SenderStep ==
    ASSUME TInv, CInv', SenderWindow',
           UNCHANGED <<known, mHighestPacketID, recent, handled, here, again, overtaken>>,
           sent \subseteq sent', pings \subseteq pings',
           Index(mPacketsOutID) <= Index(mPacketsOutID'),
           \A id \in Waiting' \ Waiting :
             id \in PacketIDs \ here /\ Index(mPacketsOutID) <= Index(id),
           NEW more \in Seq(Packets), net' = net \o more, InOrder(more),
           \A i \in 1 .. Len(net), j \in 1 .. Len(more) : Before(net[i], more[j]),
           \A j \in 1 .. Len(more) :
             Plausible(more[j])' /\ (more[j].resent => more[j].id \in Waiting)
    PROVE  TInv'
<1>1. /\ net \in Seq(Packets) /\ Len(net) \in Nat /\ Len(more) \in Nat
      /\ \A i \in 1 .. Len(net) : net[i] \in Packets
  BY NetTyped
<1>2. /\ Len(net') = Len(net) + Len(more)
      /\ \A j \in 1 .. Len(net) : net'[j] = net[j]
      /\ \A j \in 1 .. Len(more) : net'[Len(net) + j] = more[j]
  BY <1>1, Joined
<1>3. ASSUME NEW j \in 1 .. Len(net')
      PROVE  \/ \E k \in 1 .. Len(net) : net'[j] = net[k]
             \/ \E k \in 1 .. Len(more) : net'[j] = more[k]
  <2>1. CASE j <= Len(net)
    BY <1>1, <1>2, <1>3, <2>1
  <2>2. CASE j > Len(net)
    <3>1. j - Len(net) \in 1 .. Len(more) /\ j = Len(net) + (j - Len(net))
      BY <1>1, <1>2, <1>3, <2>2
    <3> QED
      BY <1>2, <3>1
  <2> QED
    BY <1>1, <1>3, <2>1, <2>2
<1>4. InOrder(net')
  BY <1>1, InOrderJoined DEF TInv, OnTheWay
<1>5. \A k \in 1 .. Len(net) : Plausible(net[k])
  BY DEF TInv, OnTheWay
<1>6. ASSUME NEW j \in 1 .. Len(net') PROVE Plausible(net[j])'
  <2>1. CASE \E k \in 1 .. Len(net) : net'[j] = net[k]
    <3>1. PICK k \in 1 .. Len(net), p \in Packets : net'[j] = p /\ p = net[k]
      BY <1>1, <2>1
    <3>2. Plausible(p)
      BY <1>5, <3>1
    <3>3. Plausible(p)'
      BY <3>2, PlausibleKeeps
    <3> QED
      BY <3>1, <3>3 DEF Plausible
  <2>2. CASE \E k \in 1 .. Len(more) : net'[j] = more[k]
    <3>1. PICK k \in 1 .. Len(more) : net'[j] = more[k]
      BY <2>2
    <3>2. PICK p : net'[j] = p /\ p = more[k]
      BY <3>1
    <3> QED
      BY <3>2 DEF Plausible
  <2> QED
    BY <1>3, <1>6, <2>1, <2>2
<1>7. ReceiverWindow'
  <2>1. Index(mHighestPacketID) <= Index(mPacketsOutID) => Index(mHighestPacketID) <= Index(mPacketsOutID')
    <3>1. Index(mHighestPacketID) \in Nat /\ Index(mPacketsOutID) \in Nat
          /\ Index(mPacketsOutID') \in Nat
      BY IndexFacts DEF TInv, CInv, TypeOK
    <3> QED
      BY <3>1
  <2> QED
    BY <2>1 DEF TInv, ReceiverWindow
<1>8. Forgotten'
  <2>1. ASSUME NEW id \in here \ recent, id \notin overtaken
        PROVE  /\ id \notin Waiting'
               /\ \A j \in 1 .. Len(net') : net'[j].resent => net'[j].id # id
    <3>1. id \notin Waiting /\ \A i \in 1 .. Len(net) : net[i].resent => net[i].id # id
      BY <2>1 DEF TInv, Forgotten
    <3> QED
      BY <1>3, <2>1, <3>1
  <2> QED
    BY <2>1 DEF Forgotten
<1>9. TwiceOnlyIfOvertaken'
  BY DEF TInv, TwiceOnlyIfOvertaken
<1>10. OnTheWay'
  BY <1>4, <1>6 DEF OnTheWay
<1> QED
  BY <1>7, <1>8, <1>9, <1>10 DEF TInv

\* One more id in use.
LEMMA OneMore ==
    ASSUME NEW S, NEW id \in PacketIDs, S \subseteq PacketIDs, id \notin S
    PROVE  /\ Cardinality(S \cup {id}) = Cardinality(S) + 1
           /\ Cardinality(S) \in Nat
<1>1. IsFiniteSet(S)
  BY IDs, FS_Subset
<1> QED
  BY <1>1, FS_AddElement, FS_CardinalityType

\* A packet with the next id goes behind all others.
LEMMA BehindAll ==
    ASSUME TInv, Fresh, NEW q, q.id = NextID, NEW i \in 1 .. Len(net)
    PROVE  Before(net[i], q)
<1>1. /\ NextID \in PacketIDs /\ NextID \notin sent \cup pings
      /\ \A id \in sent \cup pings : Index(id) <= Index(NextID)
  BY FreshID
<1>2. Plausible(net[i])
  BY DEF TInv, OnTheWay
<1>3. net[i].id \in sent \cup pings
  BY <1>2 DEF Plausible
<1>4. ASSUME IsPing(net[i]) PROVE Index(net[i].oldest) <= Index(NextID)
  <2>1. net[i].oldest \in PacketIDs /\ Index(net[i].oldest) <= Index(net[i].id)
    BY <1>2, <1>4 DEF Plausible
  <2>2. Index(net[i].oldest) \in Nat /\ Index(net[i].id) \in Nat /\ Index(NextID) \in Nat
    BY <1>1, <2>1, IndexFacts, NetTyped
  <2> QED
    BY <1>1, <1>3, <2>1, <2>2
<1> QED
  BY <1>1, <1>3, <1>4 DEF Before

LEMMA SendMessageTwice ==
    ASSUME TInv, NEW retries \in Retries, SendMessage(retries)
    PROVE  TInv'
<1> DEFINE p == Packet(NextID, FALSE, NotAPing)
<1>1. /\ Fresh /\ Cardinality(sent) < MaxMessages
      /\ mPacketsOutID' = NextID /\ net' = Append(net, p) /\ sent' = sent \cup {NextID}
      /\ UNCHANGED <<known, mHighestPacketID, recent, pings, handled, here, again, overtaken>>
  BY DEF SendMessage, receiver
<1>2. CInv'
  BY SendMessageKeeps DEF TInv
<1>3. /\ NextID \in PacketIDs /\ Index(NextID) = Index(mPacketsOutID) + 1
      /\ NextID \notin sent \cup pings \cup handled \cup here \cup Waiting
      /\ \A id \in sent \cup pings \cup Waiting : Index(id) <= Index(NextID)
  BY <1>1, FreshID
<1>4. Waiting' \subseteq Waiting \cup {NextID}
  BY DEF SendMessage, Waiting
<1>5. Index(mPacketsOutID) \in Nat /\ Index(mPacketsOutID) <= Index(NextID)
  BY <1>3, IndexFacts DEF TInv, CInv, TypeOK
<1>6. SenderWindow'
  <2>1. Cardinality(sent') = Cardinality(sent) + 1 /\ Cardinality(sent) \in Nat
    BY <1>1, <1>3, OneMore DEF TInv, CInv, TypeOK
  <2>2. Cardinality(pings) \in Nat
    BY IDs, FS_Subset, FS_CardinalityType DEF TInv, CInv, TypeOK
  <2>3. Index(mPacketsOutID) <= Cardinality(sent) + Cardinality(pings)
        /\ Cardinality(pings) <= MaxPings
    BY DEF TInv, SenderWindow
  <2>4. Index(mPacketsOutID') <= Cardinality(sent') + Cardinality(pings')
        /\ Cardinality(sent') <= MaxMessages
    BY <1>1, <1>3, <1>5, <2>1, <2>2, <2>3, CircuitAssumption
  <2>5. \A id \in sent' \cup pings' : Index(id) <= Index(mPacketsOutID')
    <3>1. Index(NextID) <= Index(NextID)
      BY <1>3, IndexFacts
    <3> QED
      BY <1>1, <1>3, <3>1
  <2> QED
    BY <1>1, <2>3, <2>4, <2>5 DEF SenderWindow
<1>7. p \in Packets /\ p.id = NextID /\ ~p.resent /\ ~IsPing(p)
  BY <1>3 DEF Packet, Packets, IsPing
<1>8. PICK q \in Packets : q = p
  BY <1>7
<1>9. /\ <<q>> \in Seq(Packets) /\ Len(<<q>>) = 1 /\ <<q>>[1] = q
      /\ net' = net \o <<q>>
  <2> HIDE DEF Packets, p
  <2>1. net' = Append(net, q)
    BY <1>1, <1>8
  <2> QED
    BY <2>1, NetTyped
<1> HIDE DEF p
<1>10. \A i \in 1 .. Len(net) : Before(net[i], q)
  BY <1>1, <1>7, <1>8, BehindAll
<1>11. Plausible(q)'
  BY <1>1, <1>3, <1>7, <1>8 DEF Plausible
<1>12. InOrder(<<q>>)
  BY <1>9 DEF InOrder
<1>13. \A id \in Waiting' \ Waiting :
         id \in PacketIDs \ here /\ Index(mPacketsOutID) <= Index(id)
  BY <1>3, <1>4, <1>5
<1>14. \A j \in 1 .. Len(<<q>>) : Plausible(<<q>>[j])' /\ ~<<q>>[j].resent
  BY <1>7, <1>8, <1>9, <1>11
<1>15. \A i \in 1 .. Len(net), j \in 1 .. Len(<<q>>) : Before(net[i], <<q>>[j])
  BY <1>9, <1>10
<1> QED
  BY <1>1, <1>2, <1>5, <1>6, <1>9, <1>12, <1>13, <1>14, <1>15, SenderStep

\* Resends are of packets that wait.
LEMMA ResendsOrdered ==
    ASSUME TInv, NEW some \in SUBSET Waiting, NEW resends \in Resends(some)
    PROVE  /\ resends \in Seq(Packets) /\ Len(resends) \in Nat
           /\ InOrder(resends)
           /\ \A j \in 1 .. Len(resends) :
                /\ resends[j].resent /\ ~IsPing(resends[j])
                /\ resends[j].id \in Waiting
<1>1. resends \in Seq(Packets) /\ Len(resends) \in Nat
  BY ResendsTyped DEF TInv
<1>2. resends \in [1 .. Cardinality(some) -> {Packet(id, TRUE, NotAPing) : id \in some}]
  BY DEF Resends
<1>3. \A j \in 1 .. Len(resends) :
        resends[j] \in {Packet(id, TRUE, NotAPing) : id \in some}
  <2> DEFINE S == {Packet(id, TRUE, NotAPing) : id \in some}
  <2>1. resends \in [1 .. Cardinality(some) -> S]
    BY <1>2
  <2> HIDE DEF S, Packets
  <2>2. DOMAIN resends = 1 .. Len(resends)
    BY <1>1
  <2>3. \A j \in 1 .. Len(resends) : resends[j] \in S
    BY <2>1, <2>2
  <2> QED
    BY <2>3 DEF S
<1>4. ASSUME NEW j \in 1 .. Len(resends)
      PROVE  resends[j].resent /\ ~IsPing(resends[j]) /\ resends[j].id \in Waiting
  <2>1. PICK id \in some : resends[j] = Packet(id, TRUE, NotAPing)
    BY <1>3
  <2> QED
    BY <2>1 DEF Packet, IsPing
<1>5. InOrder(resends)
  BY <1>4 DEF InOrder, Before
<1> QED
  BY <1>1, <1>4, <1>5

\* The ping a pass begins with, if any.
LEMMA PingOrdered ==
    ASSUME TInv, Fresh,
           pings' = pings \cup {NextID}, mPacketsOutID' = NextID, Waiting' \subseteq Waiting,
           sent' = sent, handled' = handled, Cardinality(pings) < MaxPings,
           NEW q, q = Packet(NextID, FALSE, OldestUnacked)
    PROVE  /\ q \in Packets /\ ~q.resent /\ q.id = NextID
           /\ Plausible(q)' /\ SenderWindow'
           /\ \A id \in Waiting : Index(q.oldest) <= Index(id)
           /\ Index(mPacketsOutID) <= Index(mPacketsOutID')
<1>1. /\ NextID \in PacketIDs /\ Index(NextID) = Index(mPacketsOutID) + 1
      /\ NextID \notin sent \cup pings \cup handled \cup here \cup Waiting
      /\ \A id \in sent \cup pings \cup Waiting : Index(id) <= Index(NextID)
  BY FreshID
<1>2. /\ OldestUnacked \in PacketIDs
      /\ Index(OldestUnacked) <= Index(mPacketsOutID)
      /\ \A id \in Waiting : Index(OldestUnacked) <= Index(id)
  BY OldestIsOldest
<1>3. /\ Index(mPacketsOutID) \in Nat /\ Index(NextID) \in Nat /\ Index(OldestUnacked) \in Nat
  BY <1>1, <1>2, IndexFacts DEF TInv, CInv, TypeOK
<1>4. q \in Packets /\ ~q.resent /\ q.id = NextID /\ q.oldest = OldestUnacked
  BY <1>1, <1>2 DEF Packets, Packet
<1>5. Index(OldestUnacked) <= Index(NextID) /\ Index(mPacketsOutID) <= Index(NextID)
  BY <1>1, <1>2, <1>3
<1>6. Plausible(q)'
  <2>1. PICK o : o = OldestUnacked
    OBVIOUS
  <2>2. /\ q.oldest = o /\ o \in PacketIDs /\ Index(o) <= Index(q.id)
        /\ \A id \in Waiting' : Index(o) <= Index(id)
    BY <1>2, <1>4, <1>5, <2>1
  <2> QED
    BY <1>1, <1>4, <2>2 DEF Plausible
<1>7. SenderWindow'
  <2>1. Cardinality(pings') = Cardinality(pings) + 1 /\ Cardinality(pings) \in Nat
    BY <1>1, OneMore DEF TInv, CInv, TypeOK
  <2>2. Cardinality(sent) \in Nat
    BY IDs, FS_Subset, FS_CardinalityType DEF TInv, CInv, TypeOK
  <2>3. Index(mPacketsOutID) <= Cardinality(sent) + Cardinality(pings)
        /\ Cardinality(sent) <= MaxMessages
    BY DEF TInv, SenderWindow
  <2>4. Index(mPacketsOutID') <= Cardinality(sent') + Cardinality(pings')
        /\ Cardinality(pings') <= MaxPings
    BY <1>1, <1>3, <2>1, <2>2, <2>3, CircuitAssumption
  <2>5. \A id \in sent' \cup pings' : Index(id) <= Index(mPacketsOutID')
    <3>1. Index(NextID) <= Index(NextID)
      BY <1>3
    <3> QED
      BY <1>1, <3>1
  <2> QED
    BY <2>3, <2>4, <2>5 DEF SenderWindow
<1> QED
  BY <1>2, <1>4, <1>5, <1>6, <1>7

LEMMA ProcessAcksTwice ==
    ASSUME TInv, NEW ping \in BOOLEAN, NEW p \in Passes,
           ProcessAcks(ping, p.expired, p.throttled, p.overflowed)
    PROVE  TInv'
<1> DEFINE some == IF listed THEN Retried(p.expired, p.throttled) ELSE {}
<1>1. /\ UNCHANGED <<known, mHighestPacketID, recent, sent, handled, here, again, overtaken>>
  BY DEF ProcessAcks, receiver
<1>2. CInv'
  BY ProcessAcksKeeps DEF TInv
<1>3. Waiting' \subseteq Waiting
  <2>1. CASE listed
    <3>1. /\ DOMAIN mUnackedPackets' \subseteq DOMAIN mUnackedPackets
          /\ mFinalRetryPackets' \subseteq Waiting
      BY <2>1 DEF ProcessAcks, resendUnackedPackets, Kept, LastTry, Retried, Waiting
    <3> QED
      BY <3>1 DEF Waiting
  <2>2. CASE ~listed
    BY <2>2 DEF ProcessAcks, Waiting
  <2> QED
    BY <2>1, <2>2
<1>4. some \in SUBSET Waiting
  BY DEF Retried, Waiting
<1>5. PICK resends \in Resends(some) :
        net' = net \o (IF ping THEN <<Packet(NextID, FALSE, OldestUnacked)>> ELSE <<>>)
                   \o resends
  BY DEF ProcessAcks
<1> HIDE DEF some
<1>6. /\ resends \in Seq(Packets) /\ Len(resends) \in Nat
      /\ InOrder(resends)
      /\ \A j \in 1 .. Len(resends) :
           /\ resends[j].resent /\ ~IsPing(resends[j])
           /\ resends[j].id \in Waiting
  BY <1>4, ResendsOrdered
<1>7. ASSUME NEW j \in 1 .. Len(resends) PROVE Plausible(resends[j])'
  <2>1. PICK q : q = resends[j]
    OBVIOUS
  <2>2. q.id \in sent' /\ q.resent /\ ~IsPing(q)
    BY <1>1, <1>6, <2>1 DEF TInv, CInv, Handled
  <2>3. Plausible(q)'
    BY <2>2 DEF Plausible
  <2> QED
    BY <1>5, <2>1, <2>3 DEF Plausible
<1>8. ASSUME NEW i \in 1 .. Len(net), NEW j \in 1 .. Len(resends)
      PROVE  Before(net[i], resends[j])
  <2>1. Plausible(net[i])
    BY DEF TInv, OnTheWay
  <2> QED
    BY <1>6, <2>1 DEF Before, Plausible
<1>9. CASE ~ping
  <2>1. UNCHANGED <<mPacketsOutID, pings>>
    BY <1>9 DEF ProcessAcks
  <2>2. net' = net \o resends
    <3>1. net' = (net \o <<>>) \o resends
      BY <1>5, <1>9
    <3>2. net \o <<>> = net
      BY NetTyped
    <3> QED
      BY <3>1, <3>2
  <2>3. SenderWindow'
    BY <1>1, <2>1 DEF TInv, SenderWindow
  <2>4. Index(mPacketsOutID) <= Index(mPacketsOutID')
    BY <2>1, IndexFacts DEF TInv, CInv, TypeOK
  <2> QED
    BY <1>1, <1>2, <1>3, <1>6, <1>7, <1>8, <2>1, <2>2, <2>3, <2>4, SenderStep
<1>10. CASE ping
  <2>1. Fresh /\ Cardinality(pings) < MaxPings /\ mPacketsOutID' = NextID
        /\ pings' = pings \cup {NextID}
    BY <1>10 DEF ProcessAcks
  <2>2. PICK q : q = Packet(NextID, FALSE, OldestUnacked)
    OBVIOUS
  <2>3. /\ q \in Packets /\ ~q.resent /\ q.id = NextID
        /\ Plausible(q)' /\ SenderWindow'
        /\ \A id \in Waiting : Index(q.oldest) <= Index(id)
        /\ Index(mPacketsOutID) <= Index(mPacketsOutID')
    BY <1>1, <1>3, <2>1, <2>2, PingOrdered
  <2> HIDE DEF Packets
  <2>4. <<q>> \in Seq(Packets) /\ Len(<<q>>) = 1 /\ <<q>>[1] = q
    BY <2>3
  <2>5. /\ <<q>> \o resends \in Seq(Packets)
        /\ net' = net \o (<<q>> \o resends)
    <3>1. net' = (net \o <<q>>) \o resends
      BY <1>5, <1>10, <2>2
    <3>2. net \in Seq(Packets)
      BY NetTyped
    <3> QED
      BY <1>6, <2>4, <3>1, <3>2, ConcatAssociative, ConcatProperties
  <2>6. PICK more \in Seq(Packets) : more = <<q>> \o resends
    BY <2>5
  <2>7. ASSUME NEW j \in 1 .. Len(more)
        PROVE  more[j] = q \/ \E k \in 1 .. Len(resends) : more[j] = resends[k]
    <3>1. /\ Len(more) = 1 + Len(resends) /\ more[1] = q
          /\ \A k \in 1 .. Len(resends) : more[1 + k] = resends[k]
      BY <1>6, <2>4, <2>6, Joined
    <3>2. CASE j = 1
      BY <3>1, <3>2
    <3>3. CASE j # 1
      <4>1. j - 1 \in 1 .. Len(resends) /\ j = 1 + (j - 1)
        BY <1>6, <3>1, <3>3
      <4> QED
        BY <3>1, <4>1
    <3> QED
      BY <3>2, <3>3
  <2>8. InOrder(more)
    <3>1. InOrder(<<q>>)
      BY <2>4 DEF InOrder
    <3>2. \A i \in 1 .. Len(<<q>>), j \in 1 .. Len(resends) : Before(<<q>>[i], resends[j])
      BY <1>6, <2>3, <2>4 DEF Before
    <3>3. InOrder(<<q>> \o resends)
      BY <1>6, <2>4, <3>1, <3>2, InOrderJoined
    <3> QED
      BY <2>6, <3>3
  <2>9. \A i \in 1 .. Len(net), j \in 1 .. Len(more) : Before(net[i], more[j])
    <3>1. \A i \in 1 .. Len(net) : Before(net[i], q)
      BY <2>1, <2>3, BehindAll
    <3> QED
      BY <1>8, <2>7, <3>1
  <2>10. \A j \in 1 .. Len(more) :
           Plausible(more[j])' /\ (more[j].resent => more[j].id \in Waiting)
    <3>1. ASSUME NEW j \in 1 .. Len(more) PROVE Plausible(more[j])'
      <4>1. CASE more[j] = q
        BY <2>3, <4>1
      <4>2. CASE \E k \in 1 .. Len(resends) : more[j] = resends[k]
        BY <1>7, <4>2
      <4> QED
        BY <2>7, <4>1, <4>2
    <3> QED
      BY <1>6, <2>3, <2>7, <3>1
  <2>11. net' = net \o more
    BY <2>5, <2>6
  <2>12. pings \subseteq pings'
    BY <2>1
  <2> QED
    BY <1>1, <1>2, <1>3, <2>3, <2>8, <2>9, <2>10, <2>11, <2>12, SenderStep
<1> QED
  BY <1>9, <1>10

\* A step of the sender after which less waits.
LEMMA LessWaits ==
    ASSUME TInv, CInv', Waiting' \subseteq Waiting,
           UNCHANGED <<known, mHighestPacketID, recent, net, sent, pings, mPacketsOutID,
                       handled, here, again, overtaken>>
    PROVE  TInv'
<1>1. /\ <<>> \in Seq(Packets) /\ Len(<<>>) = 0 /\ net' = net \o <<>>
  BY NetTyped
<1>2. InOrder(<<>>)
  BY <1>1 DEF InOrder
<1>3. SenderWindow'
  BY DEF TInv, SenderWindow
<1>4. Index(mPacketsOutID) <= Index(mPacketsOutID')
  BY IndexFacts DEF TInv, CInv, TypeOK
<1>5. PICK more \in Seq(Packets) :
        /\ net' = net \o more /\ InOrder(more)
        /\ \A j \in 1 .. Len(more) : FALSE
  <2>1. PICK more : more = <<>> /\ more \in Seq(Packets) /\ Len(more) = 0
                    /\ net' = net \o more /\ InOrder(more)
    BY <1>1, <1>2
  <2>2. \A j \in 1 .. Len(more) : FALSE
    BY <2>1
  <2> QED
    BY <2>1, <2>2
<1> QED
  BY <1>3, <1>4, <1>5, SenderStep

LEMMA ReceiveAcksTwice ==
    ASSUME TInv, NEW ids \in back, ReceiveAcks(ids)
    PROVE  TInv'
<1>1. CInv'
  BY ReceiveAcksKeeps DEF TInv
<1>2. Waiting' \subseteq Waiting
  BY DEF ReceiveAcks, Waiting
<1> QED
  BY <1>1, <1>2, LessWaits DEF ReceiveAcks, receiver

LEMMA RemoveCircuitTwice ==
    ASSUME TInv, RemoveCircuit
    PROVE  TInv'
<1>1. CInv'
  BY RemoveCircuitKeeps DEF TInv
<1>2. Waiting' \subseteq Waiting
  BY DEF RemoveCircuit, Waiting
<1> QED
  BY <1>1, <1>2, LessWaits DEF RemoveCircuit, receiver

LEMMA SendAcksTwice ==
    ASSUME TInv, NEW n \in 1 .. Len(mAcks), SendAcks(n)
    PROVE  TInv'
<1>1. CInv'
  BY SendAcksKeeps DEF TInv
<1>2. Waiting' \subseteq Waiting
  BY DEF SendAcks, sender, Waiting
<1> QED
  BY <1>1, <1>2, LessWaits DEF SendAcks, sender, history

----------------------------------------------------------------------------
\* A packet is taken out of the network: the sender is as it was, and if a
\* message was handled, what original of it is left was overtaken.
LEMMA ReceiverStep ==
    ASSUME TInv, UNCHANGED <<sender, sent, pings>>,
           NEW i \in 1 .. Len(net), net' = RemoveAt(net, i),
           overtaken \subseteq overtaken',
           \A k \in 1 .. Len(net) :
             k # i /\ ~net[k].resent /\ net[k].id \in handled' \ handled
               => net[k].id \in overtaken'
    PROVE  OnTheWay' /\ SenderWindow' /\ Waiting' = Waiting
<1>1. Waiting' = Waiting
  BY DEF Waiting, sender
<1>2. SenderWindow'
  BY DEF TInv, SenderWindow, sender
<1>3. /\ \A j \in 1 .. Len(net') : \E k \in 1 .. Len(net) : k # i /\ net'[j] = net[k]
      /\ InOrder(net')
  BY NetTyped, Removed DEF TInv, OnTheWay
<1>4. ASSUME NEW j \in 1 .. Len(net') PROVE Plausible(net[j])'
  <2>1. PICK k \in 1 .. Len(net), p \in Packets : k # i /\ net'[j] = p /\ p = net[k]
    BY <1>3, NetTyped
  <2>2. Plausible(p)
    BY <2>1 DEF TInv, OnTheWay
  <2>3. Plausible(p)'
    BY <1>1, <2>1, <2>2, PlausibleKeeps
  <2> QED
    BY <2>1, <2>3 DEF Plausible
<1> QED
  BY <1>1, <1>2, <1>3, <1>4 DEF OnTheWay

\* What is forgotten stays forgotten.
LEMMA ForgottenKeeps ==
    ASSUME TInv, Waiting' = Waiting, NEW i \in 1 .. Len(net), net' = RemoveAt(net, i),
           overtaken \subseteq overtaken',
           NEW id \in here \ recent
    PROVE  \/ id \in overtaken'
           \/ /\ id \notin Waiting'
              /\ \A j \in 1 .. Len(net') : net'[j].resent => net'[j].id # id
<1>1. \A j \in 1 .. Len(net') : \E k \in 1 .. Len(net) : net'[j] = net[k]
  BY NetTyped, Removed
<1> QED
  BY <1>1 DEF TInv, Forgotten

LEMMA DiscardDuplicateTwice ==
    ASSUME TInv, NEW i \in 1 .. Len(net), DiscardDuplicate(i)
    PROVE  TInv'
<1>1. /\ net' = RemoveAt(net, i) /\ overtaken \subseteq overtaken'
      /\ UNCHANGED <<sender, known, mHighestPacketID, recent, sent, pings, handled, here, again>>
  BY DEF DiscardDuplicate, Arrives
<1>2. CInv'
  BY DiscardDuplicateKeeps DEF TInv
<1>3. OnTheWay' /\ SenderWindow' /\ Waiting' = Waiting
  BY <1>1, ReceiverStep
<1>4. ReceiverWindow'
  BY <1>1 DEF TInv, ReceiverWindow, sender
<1>5. Forgotten'
  BY <1>1, <1>3, ForgottenKeeps DEF Forgotten
<1>6. TwiceOnlyIfOvertaken'
  BY <1>1 DEF TInv, TwiceOnlyIfOvertaken
<1> QED
  BY <1>2, <1>3, <1>4, <1>5, <1>6 DEF TInv

LEMMA LoseTwice ==
    ASSUME TInv, Lose
    PROVE  TInv'
<1>1. PICK i \in 1 .. Len(net) : net' = RemoveAt(net, i)
  BY DEF Lose
<1>2. UNCHANGED <<sender, known, mHighestPacketID, recent, sent, pings, handled, here, again,
                  overtaken>>
  BY DEF Lose, receiver, history
<1>3. CInv'
  BY LoseKeeps DEF TInv
<1>4. OnTheWay' /\ SenderWindow' /\ Waiting' = Waiting
  BY <1>1, <1>2, ReceiverStep
<1>5. ReceiverWindow'
  BY <1>2 DEF TInv, ReceiverWindow, sender
<1>6. Forgotten'
  BY <1>1, <1>2, <1>4, ForgottenKeeps DEF Forgotten
<1>7. TwiceOnlyIfOvertaken'
  BY <1>2 DEF TInv, TwiceOnlyIfOvertaken
<1> QED
  BY <1>3, <1>4, <1>5, <1>6, <1>7 DEF TInv

LEMMA ForgetSenderTwice ==
    ASSUME TInv, ForgetSender
    PROVE  TInv'
<1>1. /\ known' = FALSE /\ recent' = {} /\ here' = {}
      /\ UNCHANGED <<sender, net, sent, pings, handled, again, overtaken>>
  BY DEF ForgetSender
<1>2. CInv'
  BY ForgetSenderKeeps DEF TInv
<1>3. Waiting' = Waiting
  BY <1>1 DEF Waiting, sender
<1>4. OnTheWay'
  BY <1>1, <1>3 DEF TInv, OnTheWay, Plausible
<1>5. SenderWindow' /\ ReceiverWindow'
  BY <1>1 DEF TInv, SenderWindow, ReceiverWindow, sender
<1>6. Forgotten' /\ TwiceOnlyIfOvertaken'
  BY <1>1 DEF TInv, Forgotten, TwiceOnlyIfOvertaken
<1> QED
  BY <1>2, <1>4, <1>5, <1>6 DEF TInv

\* The highest id goes on to that of the packet that came.
LEMMA HighestGoesOn ==
    ASSUME FewPackets, TInv, NEW id \in sent \cup pings, NEW highest,
           highest = IF known THEN Higher(mHighestPacketID, id) ELSE id
    PROVE  /\ highest \in PacketIDs
           /\ Index(highest) <= Index(mPacketsOutID) /\ Index(id) <= Index(highest)
           /\ known => Index(mHighestPacketID) <= Index(highest)
           /\ \A old \in recent : Index(old) <= Index(highest)
<1>1. /\ mPacketsOutID \in PacketIDs /\ mHighestPacketID \in PacketIDs /\ id \in PacketIDs
      /\ recent \subseteq PacketIDs
  BY DEF TInv, CInv, TypeOK
<1>2. \A any \in PacketIDs : Index(any) \in Nat
  BY IndexFacts
<1>3. /\ Index(id) <= Index(mPacketsOutID) /\ Index(mPacketsOutID) <= Bound
      /\ Cardinality(sent) \in Nat /\ Cardinality(pings) \in Nat /\ Bound \in Nat
  <2>1. Cardinality(sent) \in Nat /\ Cardinality(pings) \in Nat
    BY IDs, FS_Subset, FS_CardinalityType DEF TInv, CInv, TypeOK
  <2>2. /\ Index(mPacketsOutID) <= Cardinality(sent) + Cardinality(pings)
        /\ Cardinality(sent) <= MaxMessages /\ Cardinality(pings) <= MaxPings
    BY DEF TInv, SenderWindow
  <2>3. Index(mPacketsOutID) <= Bound /\ Bound \in Nat
    BY <1>1, <1>2, <2>1, <2>2, CircuitAssumption DEF Bound
  <2> QED
    BY <2>1, <2>3 DEF TInv, SenderWindow
<1>4. CASE ~known
  <2>1. highest = id /\ recent = {}
    BY <1>4 DEF TInv, ReceiverWindow
  <2>2. Index(id) <= Index(id)
    BY <1>1, <1>2
  <2> QED
    BY <1>1, <1>3, <1>4, <2>1, <2>2
<1>5. CASE known
  <2>1. /\ Index(mHighestPacketID) <= Index(mPacketsOutID)
        /\ \A old \in recent : Index(old) <= Index(mHighestPacketID)
    BY <1>5 DEF TInv, ReceiverWindow
  <2>2. Index(mHighestPacketID) <= Bound /\ Index(id) <= Bound
    BY <1>1, <1>2, <1>3, <2>1
  <2>3. /\ highest \in {mHighestPacketID, id}
        /\ Index(mHighestPacketID) <= Index(highest) /\ Index(id) <= Index(highest)
    BY <1>1, <1>5, <2>2, HigherIndex
  <2>4. highest \in PacketIDs /\ Index(highest) <= Index(mPacketsOutID)
    BY <1>1, <1>3, <2>1, <2>3
  <2>5. ASSUME NEW old \in recent PROVE Index(old) <= Index(highest)
    <3>1. Index(old) \in Nat /\ Index(mHighestPacketID) \in Nat /\ Index(highest) \in Nat
      BY <1>1, <1>2, <2>4
    <3> QED
      BY <2>1, <2>3, <3>1
  <2> QED
    BY <2>3, <2>4, <2>5
<1> QED
  BY <1>4, <1>5

LEMMA HandleMessageTwice ==
    ASSUME FewPackets, TInv, NEW i \in 1 .. Len(net), HandleMessage(i)
    PROVE  TInv'
<1> DEFINE id == net[i].id
<1>1. /\ Arrives(i) /\ ~IsPing(net[i]) /\ ~(known /\ Duplicate(net[i]))
      /\ handled' = handled \cup {id}
      /\ again' = again \cup (here \cap {id})
      /\ UNCHANGED sender /\ UNCHANGED <<sent, pings>>
  BY DEF HandleMessage
<1>2. /\ net' = RemoveAt(net, i) /\ overtaken \subseteq overtaken'
      /\ \A k \in 1 .. i - 1 : net[k].id = id => id \in overtaken'
  BY <1>1 DEF Arrives
<1>3. CInv'
  BY HandleMessageKeeps DEF TInv
<1>4. id \in PacketIDs /\ id \in sent
  BY <1>1, ArrivesTyped DEF TInv
<1>5. Plausible(net[i]) /\ InOrder(net) /\ Len(net) \in Nat
  BY NetTyped DEF TInv, OnTheWay
<1>6. ASSUME NEW k \in 1 .. Len(net), k # i, ~net[k].resent, net[k].id \in handled' \ handled
      PROVE  net[k].id \in overtaken'
  <2>1. net[k].id = id
    BY <1>1, <1>6
  <2>2. ~(i < k)
    BY <1>5, <1>6, <2>1 DEF InOrder, Before
  <2>3. k \in 1 .. i - 1
    BY <1>5, <1>6, <2>2
  <2> QED
    BY <1>2, <2>1, <2>3
<1>7. OnTheWay' /\ SenderWindow' /\ Waiting' = Waiting
  BY <1>1, <1>2, <1>6, ReceiverStep
<1>8. TwiceOnlyIfOvertaken'
  <2>1. ASSUME id \in here PROVE id \in overtaken
    <3>1. known /\ id \in handled
      BY <2>1 DEF TInv, ReceiverWindow
    <3>2. CASE ~net[i].resent
      BY <1>5, <3>1, <3>2 DEF Plausible
    <3>3. CASE net[i].resent
      <4>1. id \notin recent
        BY <1>1, <3>1, <3>3 DEF Duplicate
      <4> QED
        BY <2>1, <3>3, <4>1 DEF TInv, Forgotten
    <3> QED
      BY <3>2, <3>3
  <2> QED
    BY <1>1, <1>2, <2>1 DEF TInv, TwiceOnlyIfOvertaken
<1>9. CASE id \in Closing
  <2>1. known' = FALSE /\ recent' = {} /\ here' = {}
    BY <1>9 DEF HandleMessage
  <2>2. ReceiverWindow' /\ Forgotten'
    BY <2>1 DEF ReceiverWindow, Forgotten
  <2> QED
    BY <1>3, <1>7, <1>8, <2>2 DEF TInv
<1>10. CASE id \notin Closing
  <2>1. /\ known' = TRUE
        /\ mHighestPacketID' = IF known THEN Higher(mHighestPacketID, id) ELSE id
        /\ recent' = recent \cup {id} /\ here' = here \cup {id}
    BY <1>10 DEF HandleMessage
  <2> HIDE DEF id
  <2>2. ReceiverWindow'
    <3>1. /\ Index(mHighestPacketID') <= Index(mPacketsOutID)
          /\ Index(id) <= Index(mHighestPacketID')
          /\ \A old \in recent : Index(old) <= Index(mHighestPacketID')
      BY <1>4, <2>1, HighestGoesOn
    <3> QED
      BY <1>1, <2>1, <3>1 DEF TInv, ReceiverWindow, sender
  <2>3. Forgotten'
    <3>1. here' \ recent' \subseteq here \ recent
      BY <2>1
    <3> QED
      BY <1>2, <1>7, <3>1, ForgottenKeeps DEF Forgotten
  <2> QED
    BY <1>3, <1>7, <1>8, <2>2, <2>3 DEF TInv
<1> QED
  BY <1>9, <1>10

LEMMA HandlePingTwice ==
    ASSUME FewPackets, TInv, NEW i \in 1 .. Len(net), HandlePing(i)
    PROVE  TInv'
<1> DEFINE highest == IF known THEN Higher(mHighestPacketID, net[i].id) ELSE net[i].id
<1>1. /\ Arrives(i) /\ IsPing(net[i]) /\ known' = TRUE /\ mHighestPacketID' = highest
      /\ recent' = Remembered(net[i].oldest, highest)
      /\ UNCHANGED sender /\ UNCHANGED <<sent, pings, handled, here, again>>
  BY DEF HandlePing
<1>2. /\ net' = RemoveAt(net, i) /\ overtaken \subseteq overtaken'
      /\ \A k \in 1 .. i - 1 : net[k].id \in overtaken'
  BY <1>1 DEF Arrives
<1>3. CInv'
  BY HandlePingKeeps DEF TInv
<1>4. OnTheWay' /\ SenderWindow' /\ Waiting' = Waiting
  BY <1>1, <1>2, ReceiverStep
<1>5. Plausible(net[i]) /\ InOrder(net)
  BY DEF TInv, OnTheWay
<1>6. /\ highest \in PacketIDs
      /\ Index(highest) <= Index(mPacketsOutID)
      /\ \A old \in recent : Index(old) <= Index(highest)
  <2>1. net[i].id \in sent \cup pings
    BY <1>5 DEF Plausible
  <2> QED
    BY <2>1, HighestGoesOn
<1> HIDE DEF highest
<1>7. recent' \subseteq recent
  BY <1>1 DEF Remembered
<1>8. ReceiverWindow'
  BY <1>1, <1>6, <1>7 DEF TInv, ReceiverWindow, sender
<1>9. TwiceOnlyIfOvertaken'
  BY <1>1, <1>2 DEF TInv, TwiceOnlyIfOvertaken
<1>10. ASSUME NEW id \in recent \ recent', id \notin overtaken'
       PROVE  /\ id \notin Waiting'
              /\ \A j \in 1 .. Len(net') : net'[j].resent => net'[j].id # id
  <2> DEFINE oldest == net[i].oldest
  <2>1. \/ oldest < highest /\ ~(id >= oldest)
        \/ Settled(id)
    BY <1>1, <1>10 DEF Remembered
  <2>2. \A j \in 1 .. Len(net') : \E k \in 1 .. Len(net) : k # i /\ net'[j] = net[k]
    BY <1>2, NetTyped, Removed
  <2>3. CASE Settled(id)
    BY <1>4, <2>2, <2>3 DEF Settled
  <2>4. CASE oldest < highest /\ ~(id >= oldest)
    <3>1. id \in PacketIDs /\ oldest \in PacketIDs
      BY <1>1, <1>5 DEF Plausible, TInv, CInv, TypeOK
    <3>2. ~(Index(oldest) <= Index(id))
      <4>1. id < oldest
        <5>1. id \in Nat /\ oldest \in Nat
          BY <3>1, IDs
        <5>2. PICK o \in Nat : o = oldest
          BY <5>1
        <5> QED
          BY <2>4, <5>1, <5>2
      <4> QED
        BY <1>6, <2>4, <3>1, <4>1, Cyclic
    <3>3. id \notin Waiting
      BY <1>1, <1>5, <3>2 DEF Plausible
    <3>4. ASSUME NEW k \in 1 .. Len(net), k # i, net[k].id = id PROVE FALSE
      <4>1. k \notin 1 .. i - 1
        BY <1>2, <1>10, <3>4
      <4>2. i < k
        BY <3>4, <4>1, NetTyped
      <4> QED
        BY <1>1, <1>5, <3>2, <3>4, <4>2 DEF InOrder, Before
    <3> QED
      BY <1>4, <2>2, <3>3, <3>4
  <2> QED
    BY <2>1, <2>3, <2>4
<1>11. Forgotten'
  <2>1. ASSUME NEW id \in here \ recent
        PROVE  \/ id \in overtaken'
               \/ /\ id \notin Waiting'
                  /\ \A j \in 1 .. Len(net') : net'[j].resent => net'[j].id # id
    BY <1>2, <1>4, ForgottenKeeps
  <2> QED
    BY <1>1, <1>10, <2>1 DEF Forgotten
<1> QED
  BY <1>3, <1>4, <1>8, <1>9, <1>11 DEF TInv

----------------------------------------------------------------------------
LEMMA TNext ==
    FewPackets /\ TInv /\ [CircuitNext]_vars => TInv'
<1> SUFFICES ASSUME FewPackets, TInv, [CircuitNext]_vars PROVE TInv'
  OBVIOUS
<1>1. CASE Sender
  BY <1>1, SendMessageTwice, ProcessAcksTwice, ReceiveAcksTwice, RemoveCircuitTwice
     DEF Sender
<1>2. CASE Receiver
  BY <1>2, DiscardDuplicateTwice, HandleMessageTwice, HandlePingTwice, SendAcksTwice,
     ForgetSenderTwice DEF Receiver
<1>3. CASE Lose
  BY <1>3, LoseTwice
<1>4. CASE UNCHANGED vars
  <2>1. CInv'
    BY <1>4, CNext DEF TInv
  <2>2. Waiting' \subseteq Waiting
    BY <1>4 DEF vars, sender, Waiting
  <2> QED
    BY <1>4, <2>1, <2>2, LessWaits DEF vars, sender, receiver, history
<1> QED
  BY <1>1, <1>2, <1>3, <1>4 DEF CircuitNext

LEMMA AlwaysTInv == FewPackets => (Spec => []TInv)
<1> SUFFICES ASSUME FewPackets PROVE Spec => []TInv
  OBVIOUS
<1>1. TInv /\ [CircuitNext]_vars => TInv'
  BY TNext
<1> QED
  BY TInit, <1>1, PTL DEF Spec

\* A circuit handles a message twice only if a copy of it was passed by its
\* resend or by a ping, as long as the ids in use lie within half of their
\* range: checkPacketInID tells the later of two ids by that.
THEOREM Twice == FewPackets => (Spec => []TwiceOnlyIfOvertaken)
<1> SUFFICES ASSUME FewPackets PROVE Spec => []TwiceOnlyIfOvertaken
  OBVIOUS
<1>1. TInv => TwiceOnlyIfOvertaken
  BY DEF TInv
<1> QED
  BY AlwaysTInv, <1>1, PTL

\* As long as a resend of a message may still come, the circuit that handled
\* it remembers it, unless a copy was overtaken: what clearDuplicateList drops
\* is not needed, by the oldest id of the ping or by the 60 seconds.
THEOREM RememberedWhileNeeded == FewPackets => (Spec => []Forgotten)
<1> SUFFICES ASSUME FewPackets PROVE Spec => []Forgotten
  OBVIOUS
<1>1. TInv => Forgotten
  BY DEF TInv
<1> QED
  BY AlwaysTInv, <1>1, PTL

----------------------------------------------------------------------------
\* What Delivery's promise means for a sender; it needs no more than the
\* abstract specification, which the circuits implement.

Honest ==
    /\ report \in [PacketIDs -> Results \cup {"none"}]
    /\ handled \subseteq sent
    /\ \A id \in PacketIDs :
         /\ report[id] # "none" => id \in sent
         /\ report[id] = "LL_ERR_NOERR" => id \in handled

\* A report is the last one, and what was handled or sent remains so.
ReportsAreFinal ==
    /\ \A id \in PacketIDs : report[id] # "none" => report'[id] = report[id]
    /\ sent \subseteq sent' /\ handled \subseteq handled'

LEMMA DeliveryKeepsWord ==
    ASSUME Honest, Promise!DeliveryNext
    PROVE  Honest' /\ ReportsAreFinal
<1>1. ASSUME NEW result \in Results, Promise!Report(result)
      PROVE  Honest' /\ ReportsAreFinal
  <2>1. PICK some \in SUBSET {m \in sent : report[m] = "none"} :
          /\ result = "LL_ERR_NOERR" => some \subseteq handled
          /\ report' = [m \in PacketIDs |-> IF m \in some THEN result ELSE report[m]]
    BY <1>1 DEF Promise!Report
  <2>2. sent' = sent /\ handled' = handled
    BY <1>1 DEF Promise!Report
  <2>3. ASSUME NEW m \in PacketIDs
        PROVE  /\ report'[m] = IF m \in some THEN result ELSE report[m]
               /\ m \in some => report[m] = "none" /\ m \in sent
    BY <2>1
  <2>4. report' \in [PacketIDs -> Results \cup {"none"}]
    BY <2>1 DEF Honest
  <2> QED
    BY <2>1, <2>2, <2>3, <2>4 DEF Honest, ReportsAreFinal
<1>2. CASE Promise!Send \/ Promise!Handle
  BY <1>2 DEF Promise!Send, Promise!Handle, Honest, ReportsAreFinal
<1> QED
  BY <1>1, <1>2 DEF Promise!DeliveryNext, Results

\* The callback of a message is called once: it is told one result, success
\* only if the message was handled on the other side, and nothing after that.
THEOREM ToldOnceAndTruly ==
    Spec => []Honest /\ [][ReportsAreFinal]_<<sent, handled, report>>
<1>1. Promise!DeliveryInit => Honest
  BY DEF Promise!DeliveryInit, Honest
<1>2. Honest /\ [Promise!DeliveryNext]_Promise!deliveryVars => Honest'
  BY DeliveryKeepsWord DEF Promise!deliveryVars, Honest
<1>3. Honest /\ [Promise!DeliveryNext]_Promise!deliveryVars
        => [ReportsAreFinal]_<<sent, handled, report>>
  BY DeliveryKeepsWord DEF Promise!deliveryVars
<1> QED
  BY <1>1, <1>2, <1>3, Implements, PTL DEF ImplementsDelivery, Promise!DeliverySpec

----------------------------------------------------------------------------
\* Tries run out: the part of AllReported that is not about fairness.

\* How often resendUnackedPackets can still come to a packet: once for each
\* resend, and once more to give it up.
Tries(id) ==
    IF id \in DOMAIN mUnackedPackets THEN mUnackedPackets[id] + 1
    ELSE IF id \in mFinalRetryPackets THEN 1 ELSE 0

LEMMA TriesTyped ==
    CInv => \A id \in sent : Tries(id) \in Nat /\ (Tries(id) = 0 <=> report[id] # "none")
<1> SUFFICES ASSUME CInv, NEW id \in sent
             PROVE  Tries(id) \in Nat /\ (Tries(id) = 0 <=> report[id] # "none")
  OBVIOUS
<1>1. report[id] = "none" <=> id \in DOMAIN mUnackedPackets \cup mFinalRetryPackets
  BY DEF CInv, WaitsUntilReported, Waiting
<1>2. id \in DOMAIN mUnackedPackets => mUnackedPackets[id] \in Nat \ {0}
  BY DEF CInv, TypeOK
<1> QED
  BY <1>1, <1>2 DEF Tries

\* A pass costs each packet it comes to one try.
LEMMA ResendCosts ==
    ASSUME CInv, NEW expired \in SUBSET Waiting, NEW throttled \in Nat, NEW overflowed,
           resendUnackedPackets(expired, throttled, overflowed)
    PROVE  /\ \A id \in sent : Tries(id)' <= Tries(id)
           /\ \A id \in sent : id \in expired /\ id < throttled => Tries(id)' < Tries(id)
<1> DEFINE R == Retried(expired, throttled)
           L == LastTry(R)
           D == Dropped(expired, throttled, overflowed)
           failed == D \cup (mFinalRetryPackets \cap expired)
           U == DOMAIN mUnackedPackets
           F == mFinalRetryPackets
<1>1. /\ mUnackedPackets' = [id \in U \ (L \cup D) |->
                               mUnackedPackets[id] - (IF id \in R THEN 1 ELSE 0)]
      /\ mFinalRetryPackets' = (F \cup L) \ failed
  BY DEF resendUnackedPackets, Kept
<1>2. /\ R \subseteq U /\ L \subseteq R /\ D \subseteq U /\ U \cap F = {}
      /\ failed = D \cup (F \cap expired) /\ expired \subseteq U \cup F
      /\ \A id \in R : id \in L <=> mUnackedPackets[id] = 1
      /\ \A id \in U \cap expired : id < throttled => id \in R
      /\ \A id \in U : mUnackedPackets[id] \in Nat \ {0}
  BY DEF Retried, LastTry, Dropped, CInv, TypeOK, WaitsUntilReported, Waiting
<1>3. R \cap D = {}
  <2>1. \A id \in U : id \in Nat
    BY IDs DEF CInv, TypeOK
  <2>2. (\A id \in R : id < throttled) /\ (\A id \in D : id >= throttled)
    BY DEF Retried, Dropped
  <2> HIDE DEF R, D, U
  <2> QED
    BY <1>2, <2>1, <2>2
<1> HIDE DEF R, L, D, failed, F
<1>4. DOMAIN mUnackedPackets' = U \ (L \cup D)
  BY <1>1
<1>5. \A id : Tries(id) = IF id \in U THEN mUnackedPackets[id] + 1
                          ELSE IF id \in F THEN 1 ELSE 0
  BY DEF Tries, F
<1>6. \A id : Tries(id)' = IF id \in U \ (L \cup D)
                           THEN mUnackedPackets[id] - (IF id \in R THEN 1 ELSE 0) + 1
                           ELSE IF id \in (F \cup L) \ failed THEN 1 ELSE 0
  BY <1>1, <1>4 DEF Tries
<1> HIDE DEF U
<1>7. ASSUME NEW id \in sent
      PROVE  /\ Tries(id)' <= Tries(id)
             /\ id \in expired /\ id < throttled => Tries(id)' < Tries(id)
  <2>1. CASE id \in U
    BY <1>2, <1>3, <1>5, <1>6, <2>1
  <2>2. CASE id \notin U
    BY <1>2, <1>5, <1>6, <2>2
  <2> QED
    BY <2>1, <2>2
<1> QED
  BY <1>7

\* What a pass may be called with.
LEMMA PassTyped ==
    ASSUME CInv, NEW p \in Passes
    PROVE  p.expired \in SUBSET Waiting /\ p.throttled \in Nat
<1>1. p.expired \in SUBSET Waiting /\ p.throttled \in DOMAIN mUnackedPackets \cup {LL_MAX_OUT_PACKET_ID}
  BY DEF Passes
<1> QED
  BY <1>1, IDs, CircuitAssumption DEF CInv, TypeOK

LEMMA TriesFall ==
    ASSUME CInv, CircuitNext
    PROVE  \A id \in sent : Tries(id)' <= Tries(id)
<1>0. \A id \in sent : Tries(id) \in Nat
  BY TriesTyped
<1>1. ASSUME NEW r \in Retries, SendMessage(r)
      PROVE  \A id \in sent : Tries(id)' <= Tries(id)
  <2>1. \A id \in sent : id # NextID
    BY <1>1 DEF SendMessage, Fresh
  <2>2. \A id \in sent : Tries(id)' = Tries(id)
    BY <1>1, <2>1 DEF SendMessage, Tries
  <2> QED
    BY <1>0, <2>2
<1>2. ASSUME NEW ping \in BOOLEAN, NEW p \in Passes,
             ProcessAcks(ping, p.expired, p.throttled, p.overflowed)
      PROVE  \A id \in sent : Tries(id)' <= Tries(id)
  <2>1. CASE listed
    BY <1>2, <2>1, PassTyped, ResendCosts DEF ProcessAcks
  <2>2. CASE ~listed
    BY <1>0, <1>2, <2>2 DEF ProcessAcks, Tries
  <2> QED
    BY <2>1, <2>2
<1>3. ASSUME NEW ids \in back, ReceiveAcks(ids)
      PROVE  \A id \in sent : Tries(id)' <= Tries(id)
  <2>1. CASE alive
    <3>1. /\ mUnackedPackets' = [id \in DOMAIN mUnackedPackets \ ids |-> mUnackedPackets[id]]
          /\ mFinalRetryPackets' = mFinalRetryPackets \ Acked(ids)
      BY <1>3, <2>1 DEF ReceiveAcks
    <3>2. \A id \in sent : Tries(id)' = Tries(id) \/ Tries(id)' = 0
      BY <3>1 DEF Tries, Acked, Waiting, CInv, WaitsUntilReported
    <3> QED
      BY <1>0, <3>2
  <2>2. CASE ~alive
    BY <1>0, <1>3, <2>2 DEF ReceiveAcks, Tries
  <2> QED
    BY <2>1, <2>2
<1>4. CASE RemoveCircuit
  <2>1. \A id \in sent : Tries(id)' = 0
    BY <1>4 DEF RemoveCircuit, Tries
  <2> QED
    BY <1>0, <2>1
<1>5. CASE Receiver \/ Lose
  <2>1. UNCHANGED sender
    BY <1>5 DEF Receiver, Lose, DiscardDuplicate, HandleMessage, HandlePing, SendAcks,
                ForgetSender
  <2> QED
    BY <1>0, <2>1 DEF sender, Tries
<1> QED
  BY <1>1, <1>2, <1>3, <1>4, <1>5 DEF CircuitNext, Sender

\* A pass that comes to a packet that has expired.
LEMMA PassCosts ==
    ASSUME CInv, ResendSome
    PROVE  \E id \in sent : Tries(id)' < Tries(id)
<1>1. PICK p \in Passes : /\ \E id \in p.expired : id < p.throttled
                          /\ ProcessAcks(FALSE, p.expired, p.throttled, p.overflowed)
  BY DEF ResendSome
<1>2. PICK id \in p.expired : id < p.throttled
  BY <1>1
<1>3. p.expired \in SUBSET Waiting /\ p.throttled \in Nat
  BY PassTyped
<1>4. id \in sent /\ listed
  BY <1>2, <1>3 DEF CInv, Handled, WaitsUntilReported
<1>5. resendUnackedPackets(p.expired, p.throttled, p.overflowed)
  BY <1>1, <1>4 DEF ProcessAcks
<1> QED
  BY <1>2, <1>3, <1>4, <1>5, ResendCosts

\* No message gets a try back, however its packet moves between the lists, and
\* every pass that comes to an expired packet costs one: with the host calling
\* processAcks, each message is reported on in the end.
THEOREM TriesRunOut ==
    Spec => /\ [](\A id \in sent :
                    Tries(id) \in Nat /\ (Tries(id) = 0 <=> report[id] # "none"))
            /\ [][/\ \A id \in sent : Tries(id)' <= Tries(id)
                  /\ ResendSome => \E id \in sent : Tries(id)' < Tries(id)]_vars
<1>1. CInv /\ [CircuitNext]_vars
        => [/\ \A id \in sent : Tries(id)' <= Tries(id)
            /\ ResendSome => \E id \in sent : Tries(id)' < Tries(id)]_vars
  BY TriesFall, PassCosts
<1> QED
  BY <1>1, TriesTyped, AlwaysCInv, PTL DEF Spec
=============================================================================
