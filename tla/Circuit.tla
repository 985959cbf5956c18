------------------------------ MODULE Circuit ------------------------------
(***************************************************************************)
(* Reliable messages over UDP (llmessage/llcircuit.cpp and message.cpp):   *)
(* one host sends, the other receives and acknowledges; each keeps an      *)
(* LLCircuitData for the other.  The network loses and reorders.           *)
(*                                                                         *)
(* A reliable packet stays in mUnackedPackets while it has retries left,   *)
(* then in mFinalRetryPackets until it is acknowledged or gives up.  The   *)
(* receiver remembers the reliable packets it has handled, to recognise a  *)
(* resend of one; a ping tells it the oldest id that may still be resent,  *)
(* and what is older it forgets.  Packet ids wrap.                         *)
(*                                                                         *)
(* A message is named by the id of its packet.  Abstracted: time (whether  *)
(* a packet has expired, a ping is due, the throttle is exceeded, a        *)
(* circuit is timed out), bytes, and everything the receiver sends but the *)
(* acknowledgements its packets carry.                                     *)
(***************************************************************************)
EXTENDS Integers, Sequences, FiniteSets, SequencesExt

CONSTANTS
    LL_MAX_OUT_PACKET_ID,  \* packet ids are 0 .. LL_MAX_OUT_PACKET_ID - 1
    FirstID,               \* mPacketsOutID when the model starts
    Retries,               \* values of mRetries a message is sent with
    Closing,               \* ids of messages whose handler closes the circuit
    MaxMessages,           \* bound: reliable messages sent
    MaxPings               \* bound: pings sent

PacketIDs == 0 .. LL_MAX_OUT_PACKET_ID - 1
NotAPing == -1

ASSUME CircuitAssumption ==
    /\ LL_MAX_OUT_PACKET_ID \in Nat \ {0}
    /\ FirstID \in PacketIDs
    /\ Retries \subseteq Nat
    /\ MaxMessages \in Nat /\ MaxPings \in Nat

VARIABLES
    \* The sender's circuit.
    alive,               \* it is in mCircuitData
    mPacketsOutID,
    mUnackedPackets,     \* id -> mRetries
    mFinalRetryPackets,  \* ids
    mUnackedPacketCount,
    listed,              \* it is in mUnackedCircuitMap
    \* The receiver's circuit.
    known,               \* it is in mCircuitData
    mHighestPacketID,
    recent,              \* mRecentlyReceivedReliablePackets
    mAcks,
    \* The network.
    net,                 \* packets to the receiver, in the order sent
    back,                \* packets to the sender: the ids they acknowledge
    \* What the properties are about.
    sent, pings,         \* ids of the messages and of the pings sent
    report,              \* id -> what the message's callback was told
    handled,             \* ids of messages handled
    here,                \* of those, handled by the receiver's circuit of now
    again,               \* of those, handled twice by one circuit
    overtaken            \* a copy was passed by its resend or by a ping

sender == <<alive, mPacketsOutID, mUnackedPackets, mFinalRetryPackets,
            mUnackedPacketCount, listed>>
receiver == <<known, mHighestPacketID, recent, mAcks>>
history == <<sent, pings, report, handled, here, again, overtaken>>
vars == <<sender, receiver, net, back, history>>

\* A circuit that has been in use up to FirstID, with nothing under way.
Init ==
    /\ alive = TRUE /\ mPacketsOutID = FirstID
    /\ mUnackedPackets = <<>> /\ mFinalRetryPackets = {}
    /\ mUnackedPacketCount = 0 /\ listed = FALSE
    /\ known = TRUE /\ mHighestPacketID = FirstID
    /\ recent = {} /\ mAcks = <<>>
    /\ net = <<>> /\ back = {}
    /\ sent = {} /\ pings = {}
    /\ report = [id \in PacketIDs |-> "none"]
    /\ handled = {} /\ here = {} /\ again = {} /\ overtaken = {}

Packets == [id : PacketIDs, resent : BOOLEAN, oldest : PacketIDs \cup {NotAPing}]
Packet(id, resent, oldest) == [id |-> id, resent |-> resent, oldest |-> oldest]
IsPing(p) == p.oldest # NotAPing
Waiting == DOMAIN mUnackedPackets \cup mFinalRetryPackets

\* The callbacks of the packets in ids are told result.
Reported(ids, result) ==
    [id \in PacketIDs |-> IF id \notin ids THEN report[id]
                          ELSE IF report[id] = "none" THEN result ELSE "twice"]

----------------------------------------------------------------------------
\* The sender.

\* nextPacketOutID.  An id is used once: the model ends long before 2^24
\* packets are sent.
NextID == (mPacketsOutID + 1) % LL_MAX_OUT_PACKET_ID
Fresh == NextID \notin sent \cup pings \cup {FirstID}

\* Mutant: only the first message lists the circuit.
Listed_Once == listed \/ sent = {}

\* The first unacknowledged packet puts the circuit on mUnackedCircuitMap.
Listed == listed \/ mUnackedPacketCount = 0

\* sendMessage, reliably; addReliablePacket.  A host that is protected, as
\* every host is by default, sends nothing on a circuit it does not have.
SendMessage(retries) ==
    /\ alive /\ Fresh /\ Cardinality(sent) < MaxMessages
    /\ mPacketsOutID' = NextID
    /\ listed' = Listed
    /\ mUnackedPacketCount' = mUnackedPacketCount + 1
    /\ IF retries # 0
       THEN /\ mUnackedPackets' = [id \in DOMAIN mUnackedPackets \cup {NextID} |->
                 IF id = NextID THEN retries ELSE mUnackedPackets[id]]
            /\ UNCHANGED mFinalRetryPackets
       ELSE /\ mFinalRetryPackets' = mFinalRetryPackets \cup {NextID}
            /\ UNCHANGED mUnackedPackets
    /\ net' = Append(net, Packet(NextID, FALSE, NotAPing))
    /\ sent' = sent \cup {NextID}
    /\ UNCHANGED <<alive, receiver, back, pings, report, handled, here, again, overtaken>>

\* The oldest id that may be resent: an id above the last one used is from
\* before the wrap.
OldestUnacked ==
    LET wrapped == {id \in Waiting : id > mPacketsOutID}
    IN IF Waiting = {} THEN mPacketsOutID
       ELSE IF wrapped # {} THEN Min(wrapped) ELSE Min(Waiting)

\* The packets resendUnackedPackets sends again: those that have expired, in
\* the order of their ids, up to where the throttle is exceeded.
Retried(expired, throttled) ==
    {id \in DOMAIN mUnackedPackets \cap expired : id < throttled}

\* Beyond that, a circuit with too many bytes waiting gives up what expired.
Dropped(expired, throttled, overflowed) ==
    {id \in DOMAIN mUnackedPackets \cap expired : id >= throttled /\ overflowed}

LastTry(retried) == {id \in retried : mUnackedPackets[id] = 1}

\* The packets sent again, in the order of their ids: the one sequence there is.
Resends(retried) ==
    {s \in [1 .. Cardinality(retried) -> {Packet(id, TRUE, NotAPing) : id \in retried}] :
       \A i, j \in DOMAIN s : i < j => s[i].id < s[j].id}

\* Mutant: a packet that gives up stays in its list.
Kept_Failed(lastTry, failed) == mFinalRetryPackets \cup lastTry

\* What is in mFinalRetryPackets after the pass.
Kept(lastTry, failed) == (mFinalRetryPackets \cup lastTry) \ failed

resendUnackedPackets(expired, throttled, overflowed) ==
    LET retried == Retried(expired, throttled)
        lastTry == LastTry(retried)
        dropped == Dropped(expired, throttled, overflowed)
        failed == dropped \cup (mFinalRetryPackets \cap expired)
    IN /\ mUnackedPackets' =
            [id \in DOMAIN mUnackedPackets \ (lastTry \cup dropped) |->
               mUnackedPackets[id] - (IF id \in retried THEN 1 ELSE 0)]
       /\ mFinalRetryPackets' = Kept(lastTry, failed)
       /\ mUnackedPacketCount' = mUnackedPacketCount - Cardinality(failed)
       /\ report' = Reported(failed, "LL_ERR_TCP_TIMEOUT")

\* processAcks: a ping if one is due, then the resends.  A circuit is not
\* taken off mUnackedCircuitMap here.
ProcessAcks(ping, expired, throttled, overflowed) ==
    /\ alive
    /\ IF ping
       THEN /\ Fresh /\ Cardinality(pings) < MaxPings
            /\ mPacketsOutID' = NextID /\ pings' = pings \cup {NextID}
       ELSE UNCHANGED <<mPacketsOutID, pings>>
    /\ IF listed
       THEN resendUnackedPackets(expired, throttled, overflowed)
       ELSE UNCHANGED <<mUnackedPackets, mFinalRetryPackets, mUnackedPacketCount, report>>
    /\ \E resends \in Resends(IF listed THEN Retried(expired, throttled) ELSE {}) :
         net' = net
           \o (IF ping THEN <<Packet(NextID, FALSE, OldestUnacked)>> ELSE <<>>)
           \o resends
    /\ UNCHANGED <<alive, listed, receiver, back, sent, handled, here, again, overtaken>>

Acked(ids) == ids \cap Waiting

\* ackReliablePacket for each id a packet acknowledges.
ReceiveAcks(ids) ==
    /\ ids \in back
    /\ back' = back \ {ids}
    /\ IF alive
       THEN /\ mUnackedPackets' = [id \in DOMAIN mUnackedPackets \ ids |-> mUnackedPackets[id]]
            /\ mFinalRetryPackets' = mFinalRetryPackets \ Acked(ids)
            /\ mUnackedPacketCount' = mUnackedPacketCount - Cardinality(Acked(ids))
            /\ listed' = (listed /\ mUnackedPacketCount' # 0)
            /\ report' = Reported(Acked(ids), "LL_ERR_NOERR")
       ELSE UNCHANGED <<mUnackedPackets, mFinalRetryPackets, mUnackedPacketCount, listed, report>>
    /\ UNCHANGED <<alive, mPacketsOutID, receiver, net, sent, pings, handled, here, again, overtaken>>

\* removeCircuitData: the circuit timed out, or was disabled.
RemoveCircuit ==
    /\ alive
    /\ alive' = FALSE /\ listed' = FALSE
    /\ mUnackedPackets' = <<>> /\ mFinalRetryPackets' = {}
    /\ mUnackedPacketCount' = 0
    /\ report' = Reported(Waiting, "LL_ERR_CIRCUIT_GONE")
    /\ UNCHANGED <<mPacketsOutID, receiver, net, back, sent, pings, handled, here, again, overtaken>>

----------------------------------------------------------------------------
\* The receiver, which is not protected: a packet opens a circuit.

\* checkPacketInID: the highest id so far, and whether that has wrapped.
Higher(highest, id) ==
    IF 2 * (highest - id) > LL_MAX_OUT_PACKET_ID THEN id
    ELSE IF 2 * (id - highest) > LL_MAX_OUT_PACKET_ID THEN highest
    ELSE Max({highest, id})

\* Packets above mHighestPacketID are from before the wrap, and forgotten
\* after LL_DUPLICATE_SUPPRESSION_TIMEOUT, 60 seconds.  The code looks at the
\* clock alone.  That by then the sender has stopped trying and no copy comes
\* any more is an assumption on both, made here.
Settled(id) ==
    /\ id \notin Waiting
    /\ \A i \in 1 .. Len(net) : net[i].id # id

\* Mutant: the oldest id goes, too.
Remembered_UpperBound(oldest, highest) ==
    {id \in recent :
       /\ oldest < highest => id > oldest
       /\ id > highest => ~Settled(id)}

\* clearDuplicateList.
Remembered(oldest, highest) ==
    {id \in recent :
       /\ oldest < highest => id >= oldest
       /\ id > highest => ~Settled(id)}

\* Mutant: every resend below the highest id is taken for a duplicate.
Duplicate_Older(p) == p.resent /\ p.id < mHighestPacketID

\* checkMessages looks for duplicates among the resends alone.
Duplicate(p) == p.resent /\ p.id \in recent

\* A packet arrives, whichever of those under way.
Arrives(i) ==
    /\ net' = RemoveAt(net, i)
    /\ overtaken' = overtaken \cup
         {net[j].id : j \in {k \in 1 .. i - 1 :
                               net[k].id = net[i].id \/ IsPing(net[i])}}

\* A resend of a message that was handled is acknowledged again.
DiscardDuplicate(i) ==
    /\ Arrives(i) /\ known /\ Duplicate(net[i])
    /\ mAcks' = Append(mAcks, net[i].id)
    /\ UNCHANGED <<sender, known, mHighestPacketID, recent, back, sent, pings,
                   report, handled, here, again>>

\* A message is handled, on a circuit opened for it if there is none, and
\* then remembered and acknowledged, unless its handler closed the circuit.
HandleMessage(i) ==
    LET id == net[i].id IN
    /\ Arrives(i) /\ ~IsPing(net[i]) /\ ~(known /\ Duplicate(net[i]))
    /\ handled' = handled \cup {id}
    /\ again' = again \cup (here \cap {id})
    /\ IF id \in Closing
       THEN known' = FALSE /\ mHighestPacketID' = 0 /\ recent' = {}
            /\ mAcks' = <<>> /\ here' = {}
       ELSE /\ known' = TRUE
            /\ mHighestPacketID' = IF known THEN Higher(mHighestPacketID, id) ELSE id
            /\ recent' = recent \cup {id}
            /\ mAcks' = Append(mAcks, id)
            /\ here' = here \cup {id}
    /\ UNCHANGED <<sender, back, sent, pings, report>>

\* process_start_ping_check.
HandlePing(i) ==
    LET highest == IF known THEN Higher(mHighestPacketID, net[i].id) ELSE net[i].id
    IN
    /\ Arrives(i) /\ IsPing(net[i])
    /\ known' = TRUE
    /\ mHighestPacketID' = highest
    /\ recent' = Remembered(net[i].oldest, highest)
    /\ UNCHANGED <<sender, mAcks, back, sent, pings, report, handled, here, again>>

\* Acknowledgements leave in a PacketAck, all of them, or at the end of any
\* other packet, as many as there is room for.
SendAcks(n) ==
    /\ n \in 1 .. Len(mAcks)
    /\ back' = back \cup {Range(SubSeq(mAcks, 1, n))}
    /\ mAcks' = SubSeq(mAcks, n + 1, Len(mAcks))
    /\ UNCHANGED <<sender, known, mHighestPacketID, recent, net, history>>

\* The receiver's circuit times out.
ForgetSender ==
    /\ known
    /\ known' = FALSE /\ mHighestPacketID' = 0 /\ recent' = {} /\ mAcks' = <<>>
    /\ here' = {}
    /\ UNCHANGED <<sender, net, back, sent, pings, report, handled, again, overtaken>>

----------------------------------------------------------------------------
\* The network.

\* A packet to the receiver is lost; one to the sender that is lost is one that
\* never arrives.
Lose ==
    /\ \E i \in 1 .. Len(net) : net' = RemoveAt(net, i)
    /\ UNCHANGED <<sender, receiver, back, history>>

----------------------------------------------------------------------------
\* The packets that have expired when processAcks runs, the first that is
\* throttled, and whether there are too many bytes waiting.
Passes ==
    [expired : SUBSET Waiting, overflowed : BOOLEAN,
     throttled : DOMAIN mUnackedPackets \cup {LL_MAX_OUT_PACKET_ID}]

\* A pass that comes to a packet that has expired.
ResendSome ==
    \E p \in Passes :
      /\ \E id \in p.expired : id < p.throttled
      /\ ProcessAcks(FALSE, p.expired, p.throttled, p.overflowed)

Sender ==
    \/ \E r \in Retries : SendMessage(r)
    \/ \E ping \in BOOLEAN, p \in Passes :
         ProcessAcks(ping, p.expired, p.throttled, p.overflowed)
    \/ \E ids \in back : ReceiveAcks(ids)
    \/ RemoveCircuit

Receiver ==
    \/ \E i \in 1 .. Len(net) :
         DiscardDuplicate(i) \/ HandleMessage(i) \/ HandlePing(i)
    \/ \E n \in 1 .. Len(mAcks) : SendAcks(n)
    \/ ForgetSender

CircuitNext == Sender \/ Receiver \/ Lose
Spec == Init /\ [][CircuitNext]_vars

\* The host goes on calling processAcks: in the end a packet that waits has
\* expired and the throttle lets a pass come to it.  The network owes nothing.
FairSpec == Spec /\ WF_vars(ResendSome)

----------------------------------------------------------------------------
\* Properties.

\* The type invariant.
TypeOK ==
    /\ alive \in BOOLEAN /\ listed \in BOOLEAN /\ known \in BOOLEAN
    /\ mPacketsOutID \in PacketIDs /\ mHighestPacketID \in PacketIDs
    /\ DOMAIN mUnackedPackets \subseteq PacketIDs
    /\ \A id \in DOMAIN mUnackedPackets : mUnackedPackets[id] \in Nat \ {0}
    /\ mUnackedPacketCount \in Nat
    /\ mFinalRetryPackets \subseteq PacketIDs
    /\ recent \subseteq PacketIDs /\ mAcks \in Seq(PacketIDs)
    /\ net \in Seq(Packets)
    /\ back \subseteq SUBSET PacketIDs
    /\ report \in [PacketIDs -> {"none", "twice", "LL_ERR_NOERR",
                                 "LL_ERR_TCP_TIMEOUT", "LL_ERR_CIRCUIT_GONE"}]
    /\ \A ids \in {sent, pings, handled, here, again, overtaken} : ids \subseteq PacketIDs

\* A message waits in exactly one list as long as its sender has heard
\* nothing of it, mUnackedPacketCount says how many there are, and while there
\* is one the circuit is among those that resendUnackedPackets visits: the
\* count is changed in five places, the map in three others.
WaitsUntilReported ==
    /\ DOMAIN mUnackedPackets \cap mFinalRetryPackets = {}
    /\ mUnackedPacketCount = Cardinality(DOMAIN mUnackedPackets)
                               + Cardinality(mFinalRetryPackets)
    /\ \A id \in sent : report[id] = "none" <=> id \in Waiting
    /\ Waiting # {} => alive /\ listed

\* One circuit handles a message twice only if a copy of it was passed on the
\* way by its own resend, which is not suppressed when the packet it is a
\* resend of comes later, or by a ping, which has the receiver forget it.  The
\* comment in updateWatchDogTimers ("Duplicate suppression can FAIL if packets
\* are delivered out of order") names the ping alone.
TwiceOnlyIfOvertaken == again \subseteq overtaken

\* What that comment says: it takes a ping for suppression to fail.
OnceWithoutPings == pings = {} => again = {}

\* The sender hears once of each message, and success only of one that was
\* handled, also after the ids wrapped and whatever was lost or reordered.
Promise ==
    INSTANCE Delivery WITH Messages <- PacketIDs,
                           Failures <- {"LL_ERR_TCP_TIMEOUT", "LL_ERR_CIRCUIT_GONE"}
ImplementsDelivery == Promise!DeliverySpec

\* The sender hears of every message: retries run out, and a packet on its
\* last try gives up.  Messages are bounded, so "all of them" comes.
AllReported == Waiting # {} ~> \A id \in sent : report[id] # "none"
=============================================================================
