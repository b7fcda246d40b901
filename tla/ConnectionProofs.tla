-------------------------- MODULE ConnectionProofs --------------------------
(***************************************************************************)
(* Connections, over two modules that share nothing.  Two connected        *)
(* NetSockets (NetChannel) keep the promise of MessageChannel, for every   *)
(* set of bodies, all sizes of buffers and chunks and every interleaving   *)
(* of their four threads.  The invariants of the two halves are those of   *)
(* NetSocketSendProofs and NetSocketRecvProofs; ChannelInv ties them       *)
(* together over all the cells that ParkMsg will have put in m_cOBuffer    *)
(* once it returns.  The connections a server makes (NetClient), for any   *)
(* number of servers, connections and messages: no message finds its       *)
(* socket without a session, and an exit is told a second time only where  *)
(* the socket was closed under an outstanding operation.                   *)
(***************************************************************************)
EXTENDS NetChannel, NetClient, SequenceTheorems, TLAPS

SP == INSTANCE NetSocketSendProofs WITH
          CacheSize <- OutCacheSize, mainPc <- sendPc, bExit <- sendExit, refused <- sendRefused

RP == INSTANCE NetSocketRecvProofs WITH
          CacheSize <- InCacheSize, mainPc <- recvPc, bExit <- recvExit, refused <- recvRefused,
          MaxSends <- MaxParks, sent <- parked, outgoing <- <<>>

(* Between its two Writes ParkMsg still owes the body. *)
Whole == IF sendPc = "body" THEN accepted \o parked[Len(parked)] ELSE accepted

ChannelInv ==
    /\ SP!SendInv
    /\ RP!RecvTypeOK
    /\ RP!MessageStable
    /\ ~sendRefused =>
          \E pos : /\ RP!Framed(Whole, parked, pos)
                   /\ ~Faulty => RP!Follows(Whole, parked, pos)

-----------------------------------------------------------------------------
(* The parameters of each half are what its module assumes of them. *)
LEMMA HalvesAssumed == SP!SendAssumption /\ RP!RecvAssumption
  BY ChannelAssumption DEF ChannelAssumption, SP!SendAssumption, RP!RecvAssumption

-----------------------------------------------------------------------------
(* The two halves, as the channel and as their own modules name them.      *)

LEMMA SendInitLink ==
    ASSUME S!SendInit
    PROVE  SP!SendInit
  BY DEF S!SendInit, SP!SendInit, S!InitBuffer, SP!InitBuffer

LEMMA RecvInitLink ==
    ASSUME R!RecvInit
    PROVE  RP!RecvInit
  BY DEF R!RecvInit, RP!RecvInit, R!InitBuffer, RP!InitBuffer

LEMMA SendNextLink ==
    ASSUME S!SendNext
    PROVE  SP!SendNext
  <1> USE DEF S!bufferVars, SP!bufferVars, S!historyVars, SP!historyVars
  <1>1. \A body \in Bodies : S!ParkHead(body) => SP!ParkHead(body)
    BY DEF S!ParkHead, SP!ParkHead, S!ParkWrite, SP!ParkWrite, S!Write, SP!Write,
           S!Fits, SP!Fits, S!GetSpace, SP!GetSpace, S!GetLen, SP!GetLen
  <1>2. S!ParkBody => SP!ParkBody
    BY DEF S!ParkBody, SP!ParkBody, S!ParkWrite, SP!ParkWrite, S!Write, SP!Write,
           S!Fits, SP!Fits, S!GetSpace, SP!GetSpace, S!GetLen, SP!GetLen
  <1>3. (S!TestSending => SP!TestSending) /\ (S!MainFlag => SP!MainFlag)
        /\ (S!MainWrite => SP!MainWrite)
    BY DEF S!TestSending, SP!TestSending, S!MainFlag, SP!MainFlag, S!MainWrite, SP!MainWrite
  <1>4. S!CopyOut => SP!CopyOut
    BY DEF S!CopyOut, SP!CopyOut, S!Overlay, SP!Overlay, S!ReadCells, SP!ReadCells,
           S!ReadSize, SP!ReadSize, S!ReadRemove, SP!ReadRemove, S!RemoveBuffer,
           SP!RemoveBuffer, S!GetLen, SP!GetLen
  <1>5. S!GetLen(oBuffer) = SP!GetLen(oBuffer)
    BY DEF S!GetLen, SP!GetLen
  <1>6. (S!MainTake => SP!MainTake) /\ (S!IoTake => SP!IoTake) /\ (S!IoSeeEmpty => SP!IoSeeEmpty)
    BY <1>4, <1>5 DEF S!MainTake, SP!MainTake, S!IoTake, SP!IoTake, S!IoSeeEmpty, SP!IoSeeEmpty
  <1>7. S!IoReload => SP!IoReload
    BY DEF S!IoReload, SP!IoReload, S!Overlay, SP!Overlay, S!ReadSize, SP!ReadSize,
           S!FrontCells, SP!FrontCells, S!GetLen, SP!GetLen
  <1>8. (S!WriteDone => SP!WriteDone) /\ (S!WriteFail => SP!WriteFail) /\ (S!IoClear => SP!IoClear)
    BY DEF S!WriteDone, SP!WriteDone, S!WriteFail, SP!WriteFail, S!IoClear, SP!IoClear,
           S!Sent, SP!Sent
  <1> QED
    BY <1>1, <1>2, <1>3, <1>6, <1>7, <1>8
       DEF S!SendNext, SP!SendNext, S!MainNext, SP!MainNext, S!IoNext, SP!IoNext

LEMMA RecvNextLink ==
    /\ R!IoNext => RP!IoNext
    /\ R!MainNext => RP!MainNext
  <1> USE DEF R!peerVars, RP!peerVars, R!timerVars, RP!timerVars, R!readVars, RP!readVars,
              R!mainVars, RP!mainVars, R!damage, RP!damage, R!GetLen, RP!GetLen
  <1>1. ASSUME NEW cells, R!Store(cells) PROVE RP!Store(cells)
    BY <1>1 DEF R!Store, RP!Store, R!Write, RP!Write, R!Fits, RP!Fits, R!GetSpace, RP!GetSpace,
                R!BodySpace, RP!BodySpace
  <1>2. R!RecvHead => RP!RecvHead
    BY <1>1 DEF R!RecvHead, RP!RecvHead, R!LengthOk, RP!LengthOk, R!ReadNext, RP!ReadNext,
                R!TimeoutCancel, RP!TimeoutCancel
  <1>3. R!RecvBody => RP!RecvBody
    BY <1>1 DEF R!RecvBody, RP!RecvBody, R!ReadNext, RP!ReadNext, R!BodySpace, RP!BodySpace
  <1>4. /\ R!RecvError => RP!RecvError
        /\ R!TimerExpire => RP!TimerExpire
        /\ R!HandleWait => RP!HandleWait
    BY DEF R!RecvError, RP!RecvError, R!TimeoutCancel, RP!TimeoutCancel,
           R!TimerExpire, RP!TimerExpire, R!HandleWait, RP!HandleWait
  <1>5. /\ R!ReadMsg => RP!ReadMsg
        /\ R!OnMsg => RP!OnMsg
        /\ R!RemoveMsg => RP!RemoveMsg
    BY DEF R!ReadMsg, RP!ReadMsg, R!OnMsg, RP!OnMsg, R!RemoveMsg, RP!RemoveMsg,
           R!RemoveBuffer, RP!RemoveBuffer
  <1> QED
    BY <1>2, <1>3, <1>4, <1>5
       DEF R!IoNext, RP!IoNext, R!RecvDone, RP!RecvDone, R!MainNext, RP!MainNext

-----------------------------------------------------------------------------
(* What both halves know of the cells.                                     *)

LEMMA ParkedMessages ==
    ASSUME SP!SendInv
    PROVE  /\ parked \in Seq(Bodies) /\ parked \in Seq(Seq(Nat))
           /\ accepted \in Seq(Nat) /\ stream \in Seq(Nat)
           /\ sendPc = "body" => parked # <<>> /\ parked[Len(parked)] \in Seq(Nat)
           /\ Whole \in Seq(Nat)
  <1>1. /\ parked \in Seq(Bodies) /\ accepted \in Seq(Nat) /\ stream \in Seq(Nat)
        /\ sendPc = "body" => parked # <<>>
    BY DEF SP!SendInv, SP!SendTypeOK
  <1>2. parked \in Seq(Seq(Nat))
    <2>1. parked \in [1 .. Len(parked) -> Bodies] /\ Len(parked) \in Nat
      BY <1>1, LenProperties
    <2>2. parked \in [1 .. Len(parked) -> Seq(Nat)]
      BY <2>1, ChannelAssumption DEF ChannelAssumption
    <2> QED
      BY <2>1, <2>2, SeqDef
  <1>3. ASSUME sendPc = "body" PROVE parked[Len(parked)] \in Seq(Nat)
    <2>1. Len(parked) \in 1 .. Len(parked)
      BY <1>1, <1>3, EmptySeq, LenProperties
    <2> QED
      BY <1>2, <2>1, ElementOfSeq
  <1>4. Whole \in Seq(Nat)
    <2>1. CASE sendPc = "body"
      BY <1>1, <1>3, <2>1, ConcatProperties DEF Whole
    <2>2. CASE sendPc # "body"
      BY <1>1, <2>2 DEF Whole
    <2> QED
      BY <2>1, <2>2
  <1> QED
    BY <1>1, <1>2, <1>3, <1>4

(* What has gone out is the front of what was accepted. *)
LEMMA StreamIsFront ==
    ASSUME SP!SendInv, ~resent
    PROVE  RP!Front(stream, Whole)
  <1>1. accepted \in Seq(Nat) /\ stream \in Seq(Nat) /\ Len(stream) \in Nat /\ Len(accepted) \in Nat
        /\ Whole \in Seq(Nat)
    BY ParkedMessages, LenProperties
  <1>2. RP!Front(stream, accepted)
    <2>1. CASE sendExit
      <3>1. Len(stream) <= Len(accepted) /\ stream = SubSeq(accepted, 1, Len(stream))
        BY <2>1 DEF SP!SendInv, SP!StreamIntegrity
      <3>2. \A i \in 1 .. Len(stream) : SubSeq(accepted, 1, Len(stream))[i] = accepted[i]
        <4>1. \A i \in 1 .. Len(stream) : accepted[i] \in Nat
          BY <1>1, <3>1, ElementOfSeq
        <4>2. \A i \in 1 .. Len(stream) - 1 + 1 :
                 SubSeq(accepted, 1, Len(stream))[i] = accepted[1 + i - 1]
          <5>1. 1 \in Int /\ Len(stream) \in Int
            BY <1>1
          <5> QED
            BY <4>1, <5>1, SubSeqProperties
        <4> TAKE i \in 1 .. Len(stream)
        <4>3. i \in 1 .. Len(stream) - 1 + 1 /\ 1 + i - 1 = i
          BY <1>1
        <4> QED
          BY <4>2, <4>3
      <3>3. \A i \in 1 .. Len(stream) : stream[i] = accepted[i]
        BY <3>1, <3>2
      <3> QED
        BY <3>1, <3>3 DEF RP!Front
    <2>2. CASE ~sendExit
      <3>1. accepted = (stream \o SP!Owed) \o oBuffer.data
        BY <2>2 DEF SP!SendInv, SP!StreamIntegrity
      <3>2. SP!Owed \in Seq(Nat) /\ oBuffer.data \in Seq(Nat)
        <4>1. SP!Owed \in Seq(Nat)
          BY SP!OwedType, HalvesAssumed
        <4> QED
          BY <4>1 DEF SP!SendInv, SP!SendTypeOK, SP!Buffer
      <3>3. \A t, u \in Seq(Nat) : (stream \o t) \o u = stream \o (t \o u)
        BY <1>1, SP!CellsAssociative, HalvesAssumed
      <3>4. accepted = stream \o (SP!Owed \o oBuffer.data)
        BY <3>1, <3>2, <3>3
      <3>5. SP!Owed \o oBuffer.data \in Seq(Nat)
        BY <3>2, ConcatProperties
      <3>6. \A t \in Seq(Nat) : RP!Front(stream, stream \o t)
        BY <1>1, RP!StreamFront, HalvesAssumed
      <3> QED
        BY <3>4, <3>5, <3>6
    <2> QED
      BY <2>1, <2>2
  <1>3. RP!Front(accepted, Whole)
    <2>1. CASE sendPc = "body"
      <3>1. parked[Len(parked)] \in Seq(Nat)
        BY <2>1, ParkedMessages
      <3>2. \A t \in Seq(Nat) : RP!Front(accepted, accepted \o t)
        BY <1>1, RP!StreamFront, HalvesAssumed
      <3> QED
        BY <2>1, <3>1, <3>2 DEF Whole
    <2>2. CASE sendPc # "body"
      BY <1>1, <2>2 DEF Whole, RP!Front
    <2> QED
      BY <2>1, <2>2
  <1>4. Len(Whole) \in Nat
    BY <1>1, LenProperties
  <1>5. Len(stream) <= Len(Whole)
    BY <1>1, <1>2, <1>3, <1>4 DEF RP!Front
  <1>6. \A i \in 1 .. Len(stream) : stream[i] = Whole[i]
    <2> TAKE i \in 1 .. Len(stream)
    <2>1. i \in 1 .. Len(accepted)
      BY <1>1, <1>2 DEF RP!Front
    <2> QED
      BY <1>2, <1>3, <2>1 DEF RP!Front
  <1> QED
    BY <1>5, <1>6 DEF RP!Front

(* The stream only grows. *)
LEMMA StreamGrows ==
    ASSUME SP!SendInv, SP!SendNext
    PROVE  Len(stream') >= Len(stream)
  <1>1. stream \in Seq(Nat) /\ Len(stream) \in Nat
    BY LenProperties DEF SP!SendInv, SP!SendTypeOK
  <1>2. ASSUME NEW t \in Seq(Nat), stream' = stream \o t
        PROVE  Len(stream') >= Len(stream)
    <2>1. Len(t) \in Nat /\ Len(stream \o t) = Len(stream) + Len(t)
      BY <1>1, LenProperties, ConcatProperties
    <2> QED
      BY <1>1, <1>2, <2>1
  <1>3. CASE SP!WriteDone
    BY <1>2, <1>3, SP!OwedType, HalvesAssumed DEF SP!WriteDone
  <1>4. CASE SP!WriteFail
    <2>1. PICK n \in 0 .. nSend : stream' = stream \o SubSeq(arrSendBuffer, 1, n)
      BY <1>4 DEF SP!WriteFail
    <2>2. arrSendBuffer \in Seq(Nat) /\ n \in 0 .. Len(arrSendBuffer)
      <3>1. arrSendBuffer \in Seq(Nat) /\ nSend <= Len(arrSendBuffer) /\ nSend \in 0 .. SendoutSize
        BY DEF SP!SendInv, SP!SendTypeOK
      <3>2. Len(arrSendBuffer) \in Nat /\ SendoutSize \in Nat
        BY <3>1, LenProperties, ChannelAssumption DEF ChannelAssumption
      <3> QED
        BY <3>1, <3>2
    <2>3. SubSeq(arrSendBuffer, 1, n) \in Seq(Nat)
      BY <2>2, SP!FrontType, HalvesAssumed
    <2> QED
      BY <1>2, <2>1, <2>3
  <1>5. CASE ~SP!WriteDone /\ ~SP!WriteFail
    <2>1. stream' = stream
      BY <1>5 DEF SP!SendNext, SP!MainNext, SP!IoNext, SP!ParkHead, SP!ParkBody, SP!ParkWrite,
                  SP!TestSending, SP!MainTake, SP!MainFlag, SP!MainWrite, SP!IoTake,
                  SP!IoSeeEmpty, SP!IoReload, SP!IoClear
    <2> QED
      BY <1>1, <2>1
  <1> QED
    BY <1>3, <1>4, <1>5

(* A fault is for good. *)
LEMMA SendFaultsStay ==
    ASSUME SP!SendInv, SP!SendNext
    PROVE  (sendRefused => sendRefused') /\ (resent => resent')
  <1>1. sendRefused \in BOOLEAN /\ resent \in BOOLEAN
    BY DEF SP!SendInv, SP!SendTypeOK
  <1>2. ASSUME NEW cells, SP!ParkWrite(cells)
        PROVE  (sendRefused => sendRefused') /\ (resent => resent')
    BY <1>1, <1>2 DEF SP!ParkWrite
  <1>3. CASE SP!ParkBody \/ \E body \in Bodies : SP!ParkHead(body)
    BY <1>2, <1>3 DEF SP!ParkBody, SP!ParkHead
  <1>4. CASE SP!IoReload
    <2>1. sendRefused' = sendRefused /\ (resent' = resent \/ resent' = TRUE)
      BY <1>4 DEF SP!IoReload
    <2> QED
      BY <2>1
  <1>5. CASE \/ SP!TestSending \/ SP!MainTake \/ SP!MainFlag \/ SP!MainWrite
             \/ SP!WriteDone \/ SP!WriteFail \/ SP!IoTake \/ SP!IoSeeEmpty \/ SP!IoClear
    <2>1. sendRefused' = sendRefused /\ resent' = resent
      BY <1>5 DEF SP!TestSending, SP!MainTake, SP!MainFlag, SP!MainWrite, SP!WriteDone,
                  SP!WriteFail, SP!IoTake, SP!IoSeeEmpty, SP!IoClear, SP!historyVars
    <2> QED
      BY <2>1
  <1> QED
    BY <1>3, <1>4, <1>5 DEF SP!SendNext, SP!MainNext, SP!IoNext

-----------------------------------------------------------------------------
(* A step of the sender.                                                   *)

(* ParkMsg frames one more message behind the others; nothing else touches *)
(* what is to go out.                                                      *)
LEMMA WholeStep ==
    ASSUME SP!SendInv, SP!SendNext, ~sendRefused'
    PROVE  \/ Whole' = Whole /\ parked' = parked
           \/ \E body \in Bodies : /\ Whole' = Whole \o RP!Frame(body)
                                   /\ parked' = Append(parked, body)
  <1>1. /\ parked \in Seq(Seq(Nat)) /\ Len(parked) \in Nat /\ accepted \in Seq(Nat)
        /\ \A body \in Bodies : body \in Seq(Nat)
    BY ParkedMessages, LenProperties, ChannelAssumption DEF ChannelAssumption
  <1>2. ASSUME NEW cells, SP!ParkWrite(cells) PROVE accepted' = accepted \o cells
    <2>1. SP!Fits(oBuffer, cells)
      BY <1>2 DEF SP!ParkWrite
    <2> QED
      BY <1>2, <2>1 DEF SP!ParkWrite
  <1>3. ASSUME NEW body \in Bodies, SP!ParkHead(body)
        PROVE  Whole' = Whole \o RP!Frame(body) /\ parked' = Append(parked, body)
    <2>1. /\ sendPc = "idle" /\ sendPc' = "body" /\ parked' = Append(parked, body)
          /\ accepted' = accepted \o <<Len(body)>>
      BY <1>2, <1>3 DEF SP!ParkHead
    <2>2. body \in Seq(Nat)
      BY <1>1
    <2>3. parked'[Len(parked')] = body
      <3>1. Len(parked') = Len(parked) + 1 /\ parked'[Len(parked) + 1] = body
        BY <1>1, <2>1, <2>2, AppendProperties
      <3> QED
        BY <3>1
    <2>4. <<Len(body)>> \in Seq(Nat)
      <3>1. Len(body) \in Nat
        BY <2>2, LenProperties
      <3> QED
        BY <3>1
    <2> DEFINE head == <<Len(body)>>
    <2>5. (accepted \o head) \o body = accepted \o (head \o body)
      <3>1. head \in Seq(Nat)
        BY <2>4
      <3> HIDE DEF head
      <3>2. \A t, u \in Seq(Nat) : (accepted \o t) \o u = accepted \o (t \o u)
        BY <1>1, SP!CellsAssociative, HalvesAssumed
      <3> QED
        BY <2>2, <3>1, <3>2
    <2>6. Whole = accepted
      BY <2>1 DEF Whole
    <2>7. Whole' = accepted' \o body
      BY <2>1, <2>3 DEF Whole
    <2> QED
      BY <2>1, <2>5, <2>6, <2>7 DEF RP!Frame
  <1>4. CASE SP!ParkBody
    <2>1. /\ sendPc = "body" /\ sendPc' = "test" /\ parked' = parked
          /\ accepted' = accepted \o parked[Len(parked)]
      BY <1>2, <1>4 DEF SP!ParkBody
    <2>2. Whole' = accepted' /\ Whole = accepted \o parked[Len(parked)]
      BY <2>1 DEF Whole
    <2> QED
      BY <2>1, <2>2
  <1>5. CASE SP!TestSending \/ SP!MainTake \/ SP!MainFlag \/ SP!MainWrite
    <2>1. sendPc # "body" /\ sendPc' # "body" /\ UNCHANGED <<parked, accepted>>
      BY <1>5 DEF SP!TestSending, SP!MainTake, SP!MainFlag, SP!MainWrite, SP!historyVars
    <2> QED
      BY <2>1 DEF Whole
  <1>6. CASE SP!IoNext
    <2>1. UNCHANGED <<sendPc, parked, accepted>>
      BY <1>6 DEF SP!IoNext, SP!WriteDone, SP!WriteFail, SP!IoTake, SP!IoSeeEmpty, SP!IoReload,
                  SP!IoClear, SP!historyVars
    <2> QED
      BY <2>1 DEF Whole
  <1> QED
    BY <1>3, <1>4, <1>5, <1>6 DEF SP!SendNext, SP!MainNext

(* The receiver follows what it followed, when it does not move. *)
LEMMA FollowsUnmoved ==
    ASSUME UNCHANGED recvOnly, NEW cells, NEW msgs, NEW pos, RP!Follows(cells, msgs, pos)
    PROVE  RP!Follows(cells, msgs, pos)'
  <1>1. UNCHANGED <<nRead, iBuffer, eRecvStage, nBodyLen, reading, recvPc, delivered>>
    BY DEF recvOnly
  <1> QED
    BY <1>1 DEF RP!Follows, RP!Current, RP!AtFrame, RP!Holds

LEMMA SenderStep ==
    ASSUME ChannelInv, Sender
    PROVE  ChannelInv'
  <1>1. SP!SendInv /\ SP!SendNext /\ RP!RecvTypeOK /\ RP!MessageStable /\ UNCHANGED recvOnly
    BY SendNextLink DEF ChannelInv, Sender
  <1>2. SP!SendInv'
    BY <1>1, SP!SendInvStep, HalvesAssumed
  <1>3. RP!RecvTypeOK'
    <2>1. stream' \in Seq(Nat) /\ parked' \in Seq(Bodies)
      BY <1>2 DEF SP!SendInv, SP!SendTypeOK
    <2>2. nRead \in 0 .. Len(stream')
      <3>1. Len(stream) \in Nat /\ Len(stream') \in Nat /\ nRead \in 0 .. Len(stream)
        BY <1>1, <2>1, LenProperties DEF RP!RecvTypeOK
      <3>2. Len(stream') >= Len(stream)
        BY <1>1, StreamGrows
      <3> QED
        BY <3>1, <3>2
    <2>3. UNCHANGED <<nRead, iBuffer, eRecvStage, nBodyLen, reading, recvExit, timerOn,
                      timerFired, recvPc, nSize, delivered, recvRefused, cut>>
      BY <1>1 DEF recvOnly
    <2>4. RP!InBounds(iBuffer)'
      BY <1>1, <2>3 DEF RP!RecvTypeOK, RP!InBounds, RP!GetLen
    <2> QED
      BY <1>1, <2>1, <2>2, <2>3, <2>4 DEF RP!RecvTypeOK
  <1>4. RP!MessageStable'
    BY <1>1 DEF recvOnly, RP!MessageStable, RP!GetLen
  <1>5. ASSUME ~sendRefused'
        PROVE  \E pos : /\ RP!Framed(Whole, parked, pos)'
                        /\ (~Faulty => RP!Follows(Whole, parked, pos))'
    <2>1. ~sendRefused
      BY <1>1, <1>5, SendFaultsStay
    <2>2. Faulty => Faulty'
      BY <1>1, SendFaultsStay DEF Faulty, recvOnly
    <2>3. PICK pos : /\ RP!Framed(Whole, parked, pos)
                     /\ ~Faulty => RP!Follows(Whole, parked, pos)
      BY <2>1 DEF ChannelInv
    <2>4. ASSUME NEW cells, cells = Whole', NEW msgs, msgs = parked', NEW new,
                 RP!Framed(cells, msgs, new), ~Faulty => RP!Follows(cells, msgs, new)
          PROVE  /\ RP!Framed(Whole, parked, new)'
                 /\ (~Faulty => RP!Follows(Whole, parked, new))'
      <3>1. ~Faulty' => RP!Follows(cells, msgs, new)'
        BY <1>1, <2>2, <2>4, FollowsUnmoved
      <3> QED
        BY <2>4, <3>1 DEF RP!Framed, RP!Follows
    <2>5. CASE Whole' = Whole /\ parked' = parked
      BY <2>3, <2>4, <2>5
    <2>6. ASSUME NEW body \in Bodies, Whole' = Whole \o RP!Frame(body),
                 parked' = Append(parked, body)
          PROVE  \E new : /\ RP!Framed(Whole, parked, new)'
                          /\ (~Faulty => RP!Follows(Whole, parked, new))'
      <3>1. /\ Whole \in Seq(Nat) /\ parked \in Seq(Seq(Nat)) /\ body \in Seq(Nat)
        BY <1>1, ParkedMessages, ChannelAssumption DEF ChannelAssumption
      <3>2. PICK new : /\ RP!Framed(Whole \o RP!Frame(body), Append(parked, body), new)
                       /\ \A m \in 1 .. Len(parked) + 1 : new[m] = pos[m]
        BY <2>3, <3>1, RP!FramedAppend, HalvesAssumed
      <3>3. RP!Frame(body) \in Seq(Nat)
        <4>1. Len(body) \in Nat /\ <<Len(body)>> \in Seq(Nat)
          BY <3>1, LenProperties
        <4> QED
          BY <3>1, <4>1, ConcatProperties DEF RP!Frame
      <3>4. /\ Whole \o RP!Frame(body) \in Seq(Nat)
            /\ RP!Front(Whole, Whole \o RP!Frame(body))
        BY <3>1, <3>3, RP!StreamFront, HalvesAssumed
      <3>5. /\ Append(parked, body) \in Seq(Seq(Nat))
            /\ RP!Front(parked, Append(parked, body))
        <4>1. Len(parked) \in Nat
          BY <3>1, LenProperties
        <4> QED
          BY <3>1, <4>1, AppendProperties DEF RP!Front
      <3>6. ~Faulty => RP!Follows(Whole \o RP!Frame(body), Append(parked, body), new)
        BY <1>1, <2>3, <3>1, <3>2, <3>4, <3>5, RP!FollowsGrow, HalvesAssumed
      <3> QED
        BY <2>4, <2>6, <3>2, <3>6
    <2> QED
      BY <1>1, <1>5, <2>5, <2>6, WholeStep
  <1> QED
    BY <1>2, <1>3, <1>4, <1>5 DEF ChannelInv

-----------------------------------------------------------------------------
(* A step of the receiver.                                                 *)

LEMMA RecvFaultsStay ==
    ASSUME RP!RecvTypeOK, RP!IoNext \/ RP!MainNext, UNCHANGED sendOnly
    PROVE  Faulty => Faulty'
  <1>1. (recvRefused => recvRefused') /\ (cut => cut')
    BY RP!StoreMonotonic, HalvesAssumed
  <1>2. sendRefused' = sendRefused /\ resent' = resent
    BY DEF sendOnly
  <1> QED
    BY <1>1, <1>2 DEF Faulty

LEMMA StreamStays ==
    ASSUME RP!IoNext \/ RP!MainNext
    PROVE  stream' = stream
  BY DEF RP!IoNext, RP!MainNext, RP!RecvDone, RP!RecvHead, RP!RecvBody, RP!RecvError,
         RP!TimerExpire, RP!HandleWait, RP!ReadMsg, RP!OnMsg, RP!RemoveMsg

LEMMA ReceiverStep ==
    ASSUME ChannelInv, Receiver
    PROVE  ChannelInv'
  <1>1. /\ SP!SendInv /\ RP!RecvTypeOK /\ RP!MessageStable
        /\ RP!IoNext \/ RP!MainNext
        /\ UNCHANGED sendOnly
    BY RecvNextLink DEF ChannelInv, Receiver
  <1>2. /\ UNCHANGED <<oBuffer, bSending, arrSendBuffer, nSend, sendPc, ioPc, sendExit,
                       parked, accepted, sendRefused, resent, stream>>
    BY <1>1, StreamStays DEF sendOnly
  <1>3. SP!SendInv'
    <2>1. UNCHANGED SP!sendVars
      BY <1>2 DEF SP!sendVars, SP!bufferVars, SP!historyVars
    <2> QED
      BY <1>1, <2>1, SP!SendInvStep, HalvesAssumed
  <1>4. RP!RecvTypeOK' /\ RP!MessageStable'
    BY <1>1, RP!TypeStep, RP!StableStep, HalvesAssumed
  <1>5. ASSUME ~sendRefused'
        PROVE  \E pos : /\ RP!Framed(Whole, parked, pos)'
                        /\ (~Faulty => RP!Follows(Whole, parked, pos))'
    <2>1. PICK pos : /\ RP!Framed(Whole, parked, pos)
                     /\ ~Faulty => RP!Follows(Whole, parked, pos)
      BY <1>2, <1>5 DEF ChannelInv
    <2>2. ASSUME NEW cells, cells = Whole, NEW msgs, msgs = parked, ~Faulty'
          PROVE  RP!Follows(cells, msgs, pos)'
      <3>1. ~Faulty
        BY <1>1, <2>2, RecvFaultsStay
      <3>2. ~resent
        BY <3>1 DEF Faulty
      <3>3. cells \in Seq(Nat) /\ msgs \in Seq(Seq(Nat)) /\ RP!Front(stream, cells)
        BY <1>1, <2>2, <3>2, ParkedMessages, StreamIsFront
      <3>4. RP!Framed(cells, msgs, pos) /\ RP!Follows(cells, msgs, pos)
        BY <2>1, <2>2, <3>1
      <3>5. RP!Undamaged'
        BY <2>2 DEF RP!Undamaged, Faulty
      <3> QED
        BY <1>1, <3>3, <3>4, <3>5, RP!FollowsStep, HalvesAssumed
    <2>3. Whole' = Whole /\ parked' = parked
      BY <1>2 DEF Whole
    <2>4. RP!Framed(Whole, parked, pos)'
      BY <2>1, <2>3 DEF RP!Framed
    <2>5. (~Faulty => RP!Follows(Whole, parked, pos))'
      BY <2>2, <2>3 DEF RP!Follows
    <2> QED
      BY <2>4, <2>5
  <1> QED
    BY <1>3, <1>4, <1>5 DEF ChannelInv

-----------------------------------------------------------------------------
LEMMA ChannelInvInit ==
    ASSUME Init
    PROVE  ChannelInv
  <1>1. SP!SendInit /\ RP!RecvInit
    BY SendInitLink, RecvInitLink DEF Init
  <1>2. SP!SendInv
    BY <1>1, SP!SendInvInit, HalvesAssumed
  <1>3. RP!RecvInv
    BY <1>1, RP!RecvInvInit, HalvesAssumed
  <1>4. Whole = stream \o <<>>
    <2>1. accepted = <<>> /\ stream = <<>> /\ sendPc # "body"
      BY <1>1 DEF SP!SendInit
    <2> QED
      BY <2>1, ConcatEmptySeq DEF Whole
  <1>5. ~Faulty => RP!Undamaged
    BY DEF Faulty, RP!Undamaged
  <1> QED
    BY <1>2, <1>3, <1>4, <1>5 DEF ChannelInv, RP!RecvInv

LEMMA ChannelInvStep ==
    ASSUME ChannelInv, [Next]_vars
    PROVE  ChannelInv'
  <1>1. CASE Sender
    BY <1>1, SenderStep
  <1>2. CASE Receiver
    BY <1>2, ReceiverStep
  <1>3. CASE UNCHANGED vars
    <2>1. /\ UNCHANGED sendOnly /\ UNCHANGED stream /\ UNCHANGED recvOnly
      BY <1>3 DEF vars
    <2>2. /\ UNCHANGED <<oBuffer, bSending, arrSendBuffer, nSend, sendPc, ioPc, sendExit,
                         parked, accepted, sendRefused, resent, stream>>
          /\ UNCHANGED <<nRead, iBuffer, eRecvStage, nBodyLen, reading, recvExit, timerOn,
                         timerFired, recvPc, nSize, delivered, recvRefused, cut>>
      BY <2>1 DEF sendOnly, recvOnly
    <2>3. SP!SendInv'
      <3>1. UNCHANGED SP!sendVars
        BY <2>2 DEF SP!sendVars, SP!bufferVars, SP!historyVars
      <3> QED
        BY <3>1, SP!SendInvStep, HalvesAssumed DEF ChannelInv
    <2>4. RP!RecvTypeOK'
      BY <2>2 DEF ChannelInv, RP!RecvTypeOK, RP!InBounds, RP!GetLen
    <2>5. RP!MessageStable'
      BY <2>2 DEF ChannelInv, RP!MessageStable, RP!GetLen
    <2>6. ASSUME ~sendRefused'
          PROVE  \E pos : /\ RP!Framed(Whole, parked, pos)'
                          /\ (~Faulty => RP!Follows(Whole, parked, pos))'
      <3>1. PICK pos : /\ RP!Framed(Whole, parked, pos)
                       /\ ~Faulty => RP!Follows(Whole, parked, pos)
        BY <2>2, <2>6 DEF ChannelInv
      <3>2. Whole' = Whole /\ parked' = parked /\ (~Faulty' => ~Faulty)
        BY <2>2 DEF Whole, Faulty
      <3>3. ASSUME NEW cells, cells = Whole, NEW msgs, msgs = parked, ~Faulty'
            PROVE  RP!Follows(cells, msgs, pos)'
        BY <2>1, <3>1, <3>2, <3>3, FollowsUnmoved
      <3> QED
        BY <3>1, <3>2, <3>3 DEF RP!Framed, RP!Follows
    <2> QED
      BY <2>3, <2>4, <2>5, <2>6 DEF ChannelInv
  <1> QED
    BY <1>1, <1>2, <1>3 DEF Next

THEOREM ChannelInvariant == Spec => []ChannelInv
  <1>1. Init => ChannelInv
    BY ChannelInvInit
  <1>2. ChannelInv /\ [Next]_vars => ChannelInv'
    BY ChannelInvStep
  <1> QED
    BY <1>1, <1>2, PTL DEF Spec

-----------------------------------------------------------------------------
(* The refinement.                                                         *)

(* A step of the sender sends a message, fails, or is none of the          *)
(* promise's concern.                                                      *)
LEMMA SenderPromises ==
    ASSUME ChannelInv, Sender
    PROVE  [Promise!ChannelNext]_(Promise!channelVars)
  <1>1. SP!SendInv /\ SP!SendNext /\ UNCHANGED recvOnly
    BY SendNextLink DEF ChannelInv, Sender
  <1>2. Faulty \in BOOLEAN /\ Faulty' \in BOOLEAN /\ (Faulty => Faulty')
    BY <1>1, SendFaultsStay DEF Faulty, recvOnly
  <1>3. delivered' = delivered
    BY <1>1 DEF recvOnly
  <1>4. ASSUME NEW body \in Bodies, SP!ParkHead(body)
        PROVE  Promise!Send(body)
    <2>1. parked' = Append(parked, body)
      BY <1>4 DEF SP!ParkHead
    <2> QED
      BY <1>2, <1>3, <2>1 DEF Promise!Send
  <1>5. ASSUME \A body \in Bodies : ~SP!ParkHead(body)
        PROVE  parked' = parked
    BY <1>1, <1>5 DEF SP!SendNext, SP!MainNext, SP!IoNext, SP!ParkBody, SP!TestSending,
          SP!MainTake, SP!MainFlag, SP!MainWrite, SP!WriteDone, SP!WriteFail, SP!IoTake,
          SP!IoSeeEmpty, SP!IoReload, SP!IoClear, SP!historyVars
  <1>6. CASE parked' = parked
    BY <1>2, <1>3, <1>6 DEF Promise!ChannelNext, Promise!Fail, Promise!channelVars
  <1> QED
    BY <1>4, <1>5, <1>6 DEF Promise!ChannelNext

(* A step of the receiver delivers the next message, or fails, or delivers *)
(* something once the channel has failed.                                  *)
LEMMA ReceiverPromises ==
    ASSUME ChannelInv, Receiver
    PROVE  [Promise!ChannelNext]_(Promise!channelVars)
  <1>1. /\ SP!SendInv /\ RP!RecvTypeOK /\ RP!MessageStable
        /\ RP!IoNext \/ RP!MainNext
        /\ UNCHANGED sendOnly
    BY RecvNextLink DEF ChannelInv, Receiver
  <1>2. Faulty \in BOOLEAN /\ Faulty' \in BOOLEAN /\ (Faulty => Faulty')
    BY <1>1, RecvFaultsStay DEF Faulty
  <1>3. parked' = parked
    BY <1>1 DEF sendOnly
  <1>4. CASE RP!OnMsg
    <2> DEFINE message == SubSeq(iBuffer.data, 2, nSize + 1)
    <2>1. /\ delivered' = Append(delivered, message) /\ recvPc = "call"
          /\ UNCHANGED <<recvRefused, cut>>
      BY <1>4 DEF RP!OnMsg, RP!damage
    <2>2. Faulty' = Faulty
      BY <1>1, <2>1 DEF Faulty, sendOnly
    <2> HIDE DEF message
    <2>3. /\ delivered \in Seq(Seq(Nat)) /\ delivered' \in Seq(Seq(Nat))
      BY <1>1, RP!TypeStep, HalvesAssumed DEF RP!RecvTypeOK
    <2>4. CASE Faulty
      <3>1. message \in Seq(Nat)
        BY <1>1, <2>1, RP!MessageType, HalvesAssumed DEF message
      <3>2. /\ Len(delivered') = Len(delivered) + 1
            /\ \A i \in 1 .. Len(delivered) : delivered'[i] = delivered[i]
        BY <2>1, <2>3, <3>1, AppendProperties
      <3>3. SubSeq(delivered', 1, Len(delivered)) = delivered
        <4> DEFINE front == SubSeq(delivered', 1, Len(delivered))
        <4>1. Len(delivered) \in Nat /\ Len(delivered) \in 0 .. Len(delivered')
          BY <2>3, <3>2, LenProperties
        <4>2. front \in Seq(Seq(Nat)) /\ Len(front) = Len(delivered)
          BY <2>3, <4>1, SP!FrontType, HalvesAssumed
        <4>3. \A i \in 1 .. Len(delivered) : front[i] = delivered[i]
          <5>1. \A i \in 1 .. Len(delivered) : delivered'[i] \in Seq(Nat)
            BY <2>3, <3>2, <4>1, ElementOfSeq
          <5>2. \A i \in 1 .. Len(delivered) - 1 + 1 : front[i] = delivered'[1 + i - 1]
            <6>1. 1 \in Int /\ Len(delivered) \in Int
              BY <4>1
            <6> QED
              BY <5>1, <6>1, SubSeqProperties
          <5> TAKE i \in 1 .. Len(delivered)
          <5>3. i \in 1 .. Len(delivered) - 1 + 1 /\ 1 + i - 1 = i
            BY <4>1
          <5> QED
            BY <3>2, <5>2, <5>3
        <4> HIDE DEF front
        <4>4. front = delivered
          BY <2>3, <4>2, <4>3, SeqEqual
        <4> QED
          BY <4>4 DEF front
      <3> QED
        BY <1>3, <2>2, <2>4, <3>2, <3>3 DEF Promise!ChannelNext, Promise!DeliverGarbled
    <2>5. CASE ~Faulty
      <3>1. ~resent /\ ~sendRefused
        BY <2>5 DEF Faulty
      <3>2. PICK pos : RP!Framed(Whole, parked, pos) /\ RP!Follows(Whole, parked, pos)
        BY <2>5, <3>1 DEF ChannelInv
      <3>3. /\ Whole \in Seq(Nat) /\ parked \in Seq(Seq(Nat)) /\ RP!Front(stream, Whole)
        BY <1>1, <3>1, ParkedMessages, StreamIsFront
      <3>4. ASSUME NEW k, k = Len(delivered) + 1
            PROVE  k \in 1 .. Len(parked) /\ message = parked[k]
        BY <1>1, <2>1, <3>2, <3>3, <3>4, RP!CallbackMessage, HalvesAssumed DEF message
      <3>5. Len(delivered) < Len(parked)
        <4>1. Len(delivered) \in Nat /\ Len(parked) \in Nat
          BY <2>3, <3>3, LenProperties
        <4> QED
          BY <3>4, <4>1
      <3> QED
        BY <1>3, <2>1, <2>2, <2>5, <3>4, <3>5 DEF Promise!ChannelNext, Promise!Deliver
    <2> QED
      BY <2>4, <2>5
  <1>5. CASE ~RP!OnMsg
    <2>1. delivered' = delivered
      BY <1>1, <1>5 DEF RP!IoNext, RP!MainNext, RP!RecvDone, RP!RecvHead, RP!RecvBody,
            RP!RecvError, RP!TimerExpire, RP!HandleWait, RP!ReadMsg, RP!RemoveMsg, RP!mainVars
    <2> QED
      BY <1>2, <1>3, <2>1 DEF Promise!ChannelNext, Promise!Fail, Promise!channelVars
  <1> QED
    BY <1>4, <1>5

(* The pair of sockets implements MessageChannel: what the one side sent   *)
(* is delivered at the other in order, each message at most once and       *)
(* intact, until one of the four faults.                                   *)
THEOREM PromiseKept == Spec => KeepsPromise
  <1>1. Init => Promise!ChannelInit
    BY DEF Init, S!SendInit, R!RecvInit, Promise!ChannelInit, Faulty
  <1>2. ChannelInv /\ [Next]_vars => [Promise!ChannelNext]_(Promise!channelVars)
    <2> SUFFICES ASSUME ChannelInv, [Next]_vars
                 PROVE  [Promise!ChannelNext]_(Promise!channelVars)
      OBVIOUS
    <2>1. CASE UNCHANGED vars
      BY <2>1 DEF vars, sendOnly, recvOnly, Promise!channelVars, Faulty
    <2> QED
      BY <2>1, SenderPromises, ReceiverPromises DEF Next
  <1> QED
    BY <1>1, <1>2, ChannelInvariant, PTL DEF Spec, KeepsPromise, Promise!ChannelSpec

-----------------------------------------------------------------------------
(* The main loop is at one of these places with the socket of p. *)
Ending(p, places) == pc.peer = p /\ pc.at \in places

(* Before its first handler a socket has nothing to tell the main loop. *)
Fresh(p) ==
    /\ io[p] \in {"none", "connecting"} => pending[p] = {} /\ failed[p] = {}
    /\ io[p] \in {"enter", "init"} => "write" \notin pending[p] /\ "write" \notin failed[p]
    /\ io[p] \in {"none", "connecting", "enter", "init"} => ~m_bExit[p] /\ m_cIBuffer[p] = None

(* A message or a read that can bring one means that there is a session,   *)
(* or that the main loop is on its way to clear the socket.                *)
Listening(p) ==
    /\ m_cIBuffer[p] # None => session[p] # None \/ Ending(p, {"remove", "disconnect", "clear"})
    /\ (io[p] = "loop" /\ "read" \in pending[p]) => session[p] # None \/ Ending(p, {"remove", "disconnect"})

(* m_bExit stays set, and the client in the vector, from the exit callback *)
(* to Clear.                                                               *)
Exiting(p) == Ending(p, {"exit", "remove", "disconnect", "clear"}) => m_bExit[p] /\ p \in vecClients

(* A socket that was never closed under an operation has its session, or   *)
(* is about to be closed, or has nothing more to come.                     *)
Served(p) ==
    (p \notin closedHere /\ io[p] \in {"loop", "ended"}) =>
        \/ session[p] # None
        \/ Ending(p, {"remove", "disconnect"})
        \/ /\ pending[p] = {} /\ failed[p] = {}
           /\ Ending(p, {"clear"}) \/ (~m_bExit[p] /\ m_cIBuffer[p] = None)

(* The session of a socket is one the connected callback has made on it,   *)
(* and its ID is in the map, put there by this session or by one before it *)
(* that was left there.                                                    *)
Known(p) ==
    /\ io[p] \in {"none", "connecting", "enter"} => session[p] = None
    /\ io[p] = "init" => session[p] = "created"
    /\ session[p] = "inited" => p \in m_mapServerIdSession
    /\ session[p] = "created" => io[p] = "init" \/ p \in m_mapServerIdSession
    /\ Ending(p, {"remove"}) => session[p] = None

(* Until RemoveServer is given another's ID, an ID in the map is that of   *)
(* the session of its socket: a client leaves the vector only after its    *)
(* exit was told.                                                          *)
Tidy(p) ==
    ~mistaken =>
        /\ p \in m_mapServerIdSession => session[p] = "inited"
        /\ p \in toRemove => p \in vecClients /\ session[p] = None /\ io[p] \in {"loop", "ended"}
        /\ p \notin vecClients => At("listing", p) \/ (session[p] = None /\ client[p] # "live")

PeersInv == \A p \in Peers : Fresh(p) /\ Listening(p) /\ Exiting(p) /\ Served(p) /\ Known(p) /\ Tidy(p)

ClientInv == ClientTypeOK /\ PeersInv /\ SessionBeforeMessage /\ ExitOnce

----------------------------------------------------------------------------
(* The first state has the invariant. *)
LEMMA ClientInvInit == ClientInit => ClientInv
  <1> SUFFICES ASSUME ClientInit PROVE ClientInv
    OBVIOUS
  <1> USE ClientAssumption DEF ClientInit, None, Idle, Ops, NoBlock
  <1>1. ClientTypeOK
    <2>1. pending \in [Peers -> SUBSET Ops] /\ failed \in [Peers -> SUBSET Ops]
      OBVIOUS
    <2>2. \A p \in Peers : pending[p] \cap failed[p] = {}
      OBVIOUS
    <2>3. m_bExit \in [Peers -> BOOLEAN]
      OBVIOUS
    <2>4. /\ pc \in [at : {"idle", "listing", "walk", "exit", "remove", "disconnect", "clear"}, peer : Peers \cup {0}]
          /\ released \in [id : Peers \cup {0}, owner : Peers \cup {0}]
      OBVIOUS
    <2>5. /\ todo \subseteq vecClients /\ vecClients \subseteq Peers /\ toRemove \subseteq Peers \cup {0}
          /\ closedHere \subseteq Peers
      OBVIOUS
    <2>6. mistaken \in BOOLEAN
      OBVIOUS
    <2>7. /\ nConnects \in 0 .. MaxConnects /\ nMessages \in 0 .. MaxMessages
      OBVIOUS
    <2> QED
      BY <2>1, <2>2, <2>3, <2>4, <2>5, <2>6, <2>7 DEF ClientTypeOK
  <1>2. PeersInv
    BY DEF PeersInv, Fresh, Listening, Exiting, Served, Known, Tidy, Ending
  <1>3. SessionBeforeMessage /\ ExitOnce
    BY DEF SessionBeforeMessage, ExitOnce
  <1> QED
    BY <1>1, <1>2, <1>3 DEF ClientInv

(* A new connection starts with nothing outstanding. *)
LEMMA ConnectToServerKeeps ==
    ASSUME ClientInv, aborted = None, NEW p \in Peers, ConnectToServer(p)
    PROVE  ClientInv'
  <1> USE ClientAssumption DEF ConnectToServer, mainVars, ioVars, sessions, history, None, Idle, Ops, NoBlock, At, Goto
  <1>1. ClientTypeOK'
    BY DEF ClientInv, ClientTypeOK, PeersInv, Fresh
  <1>2. ASSUME NEW q \in Peers PROVE Fresh(q)' /\ Listening(q)' /\ Exiting(q)' /\ Served(q)' /\ Known(q)' /\ Tidy(q)'
    BY <1>2 DEF ClientInv, ClientTypeOK, PeersInv, Fresh, Listening, Exiting, Served, Known, Tidy, Ending
  <1>3. SessionBeforeMessage' /\ ExitOnce'
    BY DEF ClientInv, ClientTypeOK, PeersInv, Fresh, Listening, Exiting, Served, Known, Tidy, Ending, SessionBeforeMessage, ExitOnce
  <1> QED
    BY <1>1, <1>2, <1>3 DEF ClientInv, PeersInv

(* The entry of a new connection. *)
LEMMA PushBackKeeps ==
    ASSUME ClientInv, aborted = None, NEW p \in Peers, PushBack(p)
    PROVE  ClientInv'
  <1> USE ClientAssumption DEF PushBack, mainVars, ioVars, sessions, history, None, Idle, Ops, NoBlock, At, Goto
  <1>1. ClientTypeOK'
    BY DEF ClientInv, ClientTypeOK, PeersInv, Fresh
  <1>2. ASSUME NEW q \in Peers PROVE Fresh(q)' /\ Listening(q)' /\ Exiting(q)' /\ Served(q)' /\ Known(q)' /\ Tidy(q)'
    BY <1>2 DEF ClientInv, ClientTypeOK, PeersInv, Fresh, Listening, Exiting, Served, Known, Tidy, Ending
  <1>3. SessionBeforeMessage' /\ ExitOnce'
    BY DEF ClientInv, ClientTypeOK, PeersInv, Fresh, Listening, Exiting, Served, Known, Tidy, Ending, SessionBeforeMessage, ExitOnce
  <1> QED
    BY <1>1, <1>2, <1>3 DEF ClientInv, PeersInv

(* The deletions at the top of Update touch no session. *)
LEMMA UpdateStartKeeps ==
    ASSUME ClientInv, aborted = None, UpdateStart
    PROVE  ClientInv'
  <1> USE ClientAssumption DEF UpdateStart, mainVars, ioVars, sessions, history, None, Idle, Ops, NoBlock, At, Goto
  <1>1. ClientTypeOK'
    BY DEF ClientInv, ClientTypeOK, PeersInv, Fresh
  <1>2. ASSUME NEW q \in Peers PROVE Fresh(q)' /\ Listening(q)' /\ Exiting(q)' /\ Served(q)' /\ Known(q)' /\ Tidy(q)'
    BY <1>2 DEF ClientInv, ClientTypeOK, PeersInv, Fresh, Listening, Exiting, Served, Known, Tidy, Ending
  <1>3. SessionBeforeMessage' /\ ExitOnce'
    BY DEF ClientInv, ClientTypeOK, PeersInv, Fresh, Listening, Exiting, Served, Known, Tidy, Ending, SessionBeforeMessage, ExitOnce
  <1> QED
    BY <1>1, <1>2, <1>3 DEF ClientInv, PeersInv

(* The end of Update. *)
LEMMA UpdateEndsKeeps ==
    ASSUME ClientInv, aborted = None, UpdateEnds
    PROVE  ClientInv'
  <1> USE ClientAssumption DEF UpdateEnds, mainVars, ioVars, sessions, history, None, Idle, Ops, NoBlock, At, Goto
  <1>1. ClientTypeOK'
    BY DEF ClientInv, ClientTypeOK, PeersInv, Fresh
  <1>2. ASSUME NEW q \in Peers PROVE Fresh(q)' /\ Listening(q)' /\ Exiting(q)' /\ Served(q)' /\ Known(q)' /\ Tidy(q)'
    BY <1>2 DEF ClientInv, ClientTypeOK, PeersInv, Fresh, Listening, Exiting, Served, Known, Tidy, Ending
  <1>3. SessionBeforeMessage' /\ ExitOnce'
    BY DEF ClientInv, ClientTypeOK, PeersInv, Fresh, Listening, Exiting, Served, Known, Tidy, Ending, SessionBeforeMessage, ExitOnce
  <1> QED
    BY <1>1, <1>2, <1>3 DEF ClientInv, PeersInv

(* An ended socket has its session, or was closed here. *)
LEMMA VisitExitKeeps ==
    ASSUME ClientInv, aborted = None, NEW p \in Peers, VisitExit(p)
    PROVE  ClientInv'
  <1> USE ClientAssumption DEF VisitExit, mainVars, ioVars, sessions, history, None, Idle, Ops, NoBlock, At, Goto
  <1>1. ClientTypeOK'
    BY DEF ClientInv, ClientTypeOK, PeersInv, Fresh
  <1>2. ASSUME NEW q \in Peers PROVE Fresh(q)' /\ Listening(q)' /\ Exiting(q)' /\ Served(q)' /\ Known(q)' /\ Tidy(q)'
    BY <1>2 DEF ClientInv, ClientTypeOK, PeersInv, Fresh, Listening, Exiting, Served, Known, Tidy, Ending
  <1>3. SessionBeforeMessage' /\ ExitOnce'
    BY DEF ClientInv, ClientTypeOK, PeersInv, Fresh, Listening, Exiting, Served, Known, Tidy, Ending, SessionBeforeMessage, ExitOnce
  <1> QED
    BY <1>1, <1>2, <1>3 DEF ClientInv, PeersInv

(* A message finds its session. *)
LEMMA VisitMessageKeeps ==
    ASSUME ClientInv, aborted = None, NEW p \in Peers, VisitMessage(p)
    PROVE  ClientInv'
  <1> USE ClientAssumption DEF VisitMessage, mainVars, ioVars, sessions, history, None, Idle, Ops, NoBlock, At, Goto
  <1>1. ClientTypeOK'
    BY DEF ClientInv, ClientTypeOK, PeersInv, Fresh
  <1>2. ASSUME NEW q \in Peers PROVE Fresh(q)' /\ Listening(q)' /\ Exiting(q)' /\ Served(q)' /\ Known(q)' /\ Tidy(q)'
    BY <1>2 DEF ClientInv, ClientTypeOK, PeersInv, Fresh, Listening, Exiting, Served, Known, Tidy, Ending
  <1>3. SessionBeforeMessage' /\ ExitOnce'
    BY DEF ClientInv, ClientTypeOK, PeersInv, Fresh, Listening, Exiting, Served, Known, Tidy, Ending, SessionBeforeMessage, ExitOnce
  <1> QED
    BY <1>1, <1>2, <1>3 DEF ClientInv, PeersInv

(* A socket with nothing to say. *)
LEMMA VisitNothingKeeps ==
    ASSUME ClientInv, aborted = None, NEW p \in Peers, VisitNothing(p)
    PROVE  ClientInv'
  <1> USE ClientAssumption DEF VisitNothing, mainVars, ioVars, sessions, history, None, Idle, Ops, NoBlock, At, Goto
  <1>1. ClientTypeOK'
    BY DEF ClientInv, ClientTypeOK, PeersInv, Fresh
  <1>2. ASSUME NEW q \in Peers PROVE Fresh(q)' /\ Listening(q)' /\ Exiting(q)' /\ Served(q)' /\ Known(q)' /\ Tidy(q)'
    BY <1>2 DEF ClientInv, ClientTypeOK, PeersInv, Fresh, Listening, Exiting, Served, Known, Tidy, Ending
  <1>3. SessionBeforeMessage' /\ ExitOnce'
    BY DEF ClientInv, ClientTypeOK, PeersInv, Fresh, Listening, Exiting, Served, Known, Tidy, Ending, SessionBeforeMessage, ExitOnce
  <1> QED
    BY <1>1, <1>2, <1>3 DEF ClientInv, PeersInv

(* The session goes while the main loop is on its way to close the socket. *)
LEMMA ExitRemovesSessionKeeps ==
    ASSUME ClientInv, aborted = None, NEW p \in Peers, ExitRemovesSession(p)
    PROVE  ClientInv'
  <1> USE ClientAssumption DEF ExitRemovesSession, mainVars, ioVars, sessions, history, None, Idle, Ops, NoBlock, At, Goto
  <1>1. ClientTypeOK'
    BY DEF ClientInv, ClientTypeOK, PeersInv, Fresh
  <1>2. ASSUME NEW q \in Peers PROVE Fresh(q)' /\ Listening(q)' /\ Exiting(q)' /\ Served(q)' /\ Known(q)' /\ Tidy(q)'
    BY <1>2 DEF ClientInv, ClientTypeOK, PeersInv, Fresh, Listening, Exiting, Served, Known, Tidy, Ending
  <1>3. SessionBeforeMessage' /\ ExitOnce'
    BY DEF ClientInv, ClientTypeOK, PeersInv, Fresh, Listening, Exiting, Served, Known, Tidy, Ending, SessionBeforeMessage, ExitOnce
  <1> QED
    BY <1>1, <1>2, <1>3 DEF ClientInv, PeersInv

(* Nothing of the socket changes. *)
LEMMA ExitRemovesServerKeeps ==
    ASSUME ClientInv, aborted = None, NEW p \in Peers, ExitRemovesServer(p)
    PROVE  ClientInv'
  <1> USE ClientAssumption DEF ExitRemovesServer, mainVars, ioVars, sessions, history, None, Idle, Ops, NoBlock, At, Goto
  <1>1. ClientTypeOK'
    BY DEF ClientInv, ClientTypeOK, PeersInv, Fresh
  <1>2. ASSUME NEW q \in Peers PROVE Fresh(q)' /\ Listening(q)' /\ Exiting(q)' /\ Served(q)' /\ Known(q)' /\ Tidy(q)'
    BY <1>2 DEF ClientInv, ClientTypeOK, PeersInv, Fresh, Listening, Exiting, Served, Known, Tidy, Ending
  <1>3. SessionBeforeMessage' /\ ExitOnce'
    BY DEF ClientInv, ClientTypeOK, PeersInv, Fresh, Listening, Exiting, Served, Known, Tidy, Ending, SessionBeforeMessage, ExitOnce
  <1> QED
    BY <1>1, <1>2, <1>3 DEF ClientInv, PeersInv

(* What was outstanding makes the socket one closed here. *)
LEMMA DisconnectKeeps ==
    ASSUME ClientInv, aborted = None, NEW p \in Peers, Disconnect(p)
    PROVE  ClientInv'
  <1> USE ClientAssumption DEF Disconnect, mainVars, ioVars, sessions, history, None, Idle, Ops, NoBlock, At, Goto
  <1>1. ClientTypeOK'
    BY DEF ClientInv, ClientTypeOK, PeersInv, Fresh
  <1>2. ASSUME NEW q \in Peers PROVE Fresh(q)' /\ Listening(q)' /\ Exiting(q)' /\ Served(q)' /\ Known(q)' /\ Tidy(q)'
    BY <1>2 DEF ClientInv, ClientTypeOK, PeersInv, Fresh, Listening, Exiting, Served, Known, Tidy, Ending
  <1>3. SessionBeforeMessage' /\ ExitOnce'
    BY DEF ClientInv, ClientTypeOK, PeersInv, Fresh, Listening, Exiting, Served, Known, Tidy, Ending, SessionBeforeMessage, ExitOnce
  <1> QED
    BY <1>1, <1>2, <1>3 DEF ClientInv, PeersInv

(* After Clear nothing more can come, unless the socket was closed under an operation. *)
LEMMA ClearKeeps ==
    ASSUME ClientInv, aborted = None, NEW p \in Peers, Clear(p)
    PROVE  ClientInv'
  <1> USE ClientAssumption DEF Clear, mainVars, ioVars, sessions, history, None, Idle, Ops, NoBlock, At, Goto
  <1>1. ClientTypeOK'
    BY DEF ClientInv, ClientTypeOK, PeersInv, Fresh
  <1>2. ASSUME NEW q \in Peers PROVE Fresh(q)' /\ Listening(q)' /\ Exiting(q)' /\ Served(q)' /\ Known(q)' /\ Tidy(q)'
    BY <1>2 DEF ClientInv, ClientTypeOK, PeersInv, Fresh, Listening, Exiting, Served, Known, Tidy, Ending
  <1>3. SessionBeforeMessage' /\ ExitOnce'
    BY DEF ClientInv, ClientTypeOK, PeersInv, Fresh, Listening, Exiting, Served, Known, Tidy, Ending, SessionBeforeMessage, ExitOnce
  <1> QED
    BY <1>1, <1>2, <1>3 DEF ClientInv, PeersInv

(* The first read begins before there is a session, on a thread that is busy. *)
LEMMA HandleConnectKeeps ==
    ASSUME ClientInv, aborted = None, NEW p \in Peers, HandleConnect(p)
    PROVE  ClientInv'
  <1> USE ClientAssumption DEF HandleConnect, mainVars, ioVars, sessions, history, None, Idle, Ops, NoBlock, At, Goto
  <1>1. ClientTypeOK'
    BY DEF ClientInv, ClientTypeOK, PeersInv, Fresh
  <1>2. ASSUME NEW q \in Peers PROVE Fresh(q)' /\ Listening(q)' /\ Exiting(q)' /\ Served(q)' /\ Known(q)' /\ Tidy(q)'
    BY <1>2 DEF ClientInv, ClientTypeOK, PeersInv, Fresh, Listening, Exiting, Served, Known, Tidy, Ending
  <1>3. SessionBeforeMessage' /\ ExitOnce'
    BY DEF ClientInv, ClientTypeOK, PeersInv, Fresh, Listening, Exiting, Served, Known, Tidy, Ending, SessionBeforeMessage, ExitOnce
  <1> QED
    BY <1>1, <1>2, <1>3 DEF ClientInv, PeersInv

(* The session is made, without an ID. *)
LEMMA EnterCreatesKeeps ==
    ASSUME ClientInv, aborted = None, NEW p \in Peers, EnterCreates(p)
    PROVE  ClientInv'
  <1> USE ClientAssumption DEF EnterCreates, mainVars, ioVars, sessions, history, None, Idle, Ops, NoBlock, At, Goto
  <1>1. ClientTypeOK'
    BY DEF ClientInv, ClientTypeOK, PeersInv, Fresh
  <1>2. ASSUME NEW q \in Peers PROVE Fresh(q)' /\ Listening(q)' /\ Exiting(q)' /\ Served(q)' /\ Known(q)' /\ Tidy(q)'
    BY <1>2 DEF ClientInv, ClientTypeOK, PeersInv, Fresh, Listening, Exiting, Served, Known, Tidy, Ending
  <1>3. SessionBeforeMessage' /\ ExitOnce'
    BY DEF ClientInv, ClientTypeOK, PeersInv, Fresh, Listening, Exiting, Served, Known, Tidy, Ending, SessionBeforeMessage, ExitOnce
  <1> QED
    BY <1>1, <1>2, <1>3 DEF ClientInv, PeersInv

(* The session is ready before the thread reads. *)
LEMMA EnterInitsKeeps ==
    ASSUME ClientInv, aborted = None, NEW p \in Peers, EnterInits(p)
    PROVE  ClientInv'
  <1> USE ClientAssumption DEF EnterInits, mainVars, ioVars, sessions, history, None, Idle, Ops, NoBlock, At, Goto
  <1>1. ClientTypeOK'
    BY DEF ClientInv, ClientTypeOK, PeersInv, Fresh
  <1>2. ASSUME NEW q \in Peers PROVE Fresh(q)' /\ Listening(q)' /\ Exiting(q)' /\ Served(q)' /\ Known(q)' /\ Tidy(q)'
    BY <1>2 DEF ClientInv, ClientTypeOK, PeersInv, Fresh, Listening, Exiting, Served, Known, Tidy, Ending
  <1>3. SessionBeforeMessage' /\ ExitOnce'
    BY DEF ClientInv, ClientTypeOK, PeersInv, Fresh, Listening, Exiting, Served, Known, Tidy, Ending, SessionBeforeMessage, ExitOnce
  <1> QED
    BY <1>1, <1>2, <1>3 DEF ClientInv, PeersInv

(* An ID the map has already is that of a client deleted by mistake. *)
LEMMA EnterRepeatedKeeps ==
    ASSUME ClientInv, aborted = None, NEW p \in Peers, EnterRepeated(p)
    PROVE  ClientInv'
  <1> USE ClientAssumption DEF EnterRepeated, mainVars, ioVars, sessions, history, None, Idle, Ops, NoBlock, At, Goto
  <1>1. ClientTypeOK'
    BY DEF ClientInv, ClientTypeOK, PeersInv, Fresh
  <1>2. ASSUME NEW q \in Peers PROVE Fresh(q)' /\ Listening(q)' /\ Exiting(q)' /\ Served(q)' /\ Known(q)' /\ Tidy(q)'
    BY <1>2 DEF ClientInv, ClientTypeOK, PeersInv, Fresh, Listening, Exiting, Served, Known, Tidy, Ending
  <1>3. SessionBeforeMessage' /\ ExitOnce'
    BY DEF ClientInv, ClientTypeOK, PeersInv, Fresh, Listening, Exiting, Served, Known, Tidy, Ending, SessionBeforeMessage, ExitOnce
  <1> QED
    BY <1>1, <1>2, <1>3 DEF ClientInv, PeersInv

(* A read is completed only by a thread that has made the session. *)
LEMMA RecvMsgKeeps ==
    ASSUME ClientInv, aborted = None, NEW p \in Peers, NEW msg \in {"known", "unknown"}, RecvMsg(p, msg)
    PROVE  ClientInv'
  <1> USE ClientAssumption DEF RecvMsg, mainVars, ioVars, sessions, history, None, Idle, Ops, NoBlock, At, Goto
  <1>1. ClientTypeOK'
    BY DEF ClientInv, ClientTypeOK, PeersInv, Fresh
  <1>2. ASSUME NEW q \in Peers PROVE Fresh(q)' /\ Listening(q)' /\ Exiting(q)' /\ Served(q)' /\ Known(q)' /\ Tidy(q)'
    BY <1>2 DEF ClientInv, ClientTypeOK, PeersInv, Fresh, Listening, Exiting, Served, Known, Tidy, Ending
  <1>3. SessionBeforeMessage' /\ ExitOnce'
    BY DEF ClientInv, ClientTypeOK, PeersInv, Fresh, Listening, Exiting, Served, Known, Tidy, Ending, SessionBeforeMessage, ExitOnce
  <1> QED
    BY <1>1, <1>2, <1>3 DEF ClientInv, PeersInv

(* A write that ends leaves no more outstanding. *)
LEMMA WriteDoneKeeps ==
    ASSUME ClientInv, aborted = None, NEW p \in Peers, WriteDone(p)
    PROVE  ClientInv'
  <1> USE ClientAssumption DEF WriteDone, mainVars, ioVars, sessions, history, None, Idle, Ops, NoBlock, At, Goto
  <1>1. ClientTypeOK'
    BY DEF ClientInv, ClientTypeOK, PeersInv, Fresh
  <1>2. ASSUME NEW q \in Peers PROVE Fresh(q)' /\ Listening(q)' /\ Exiting(q)' /\ Served(q)' /\ Known(q)' /\ Tidy(q)'
    BY <1>2 DEF ClientInv, ClientTypeOK, PeersInv, Fresh, Listening, Exiting, Served, Known, Tidy, Ending
  <1>3. SessionBeforeMessage' /\ ExitOnce'
    BY DEF ClientInv, ClientTypeOK, PeersInv, Fresh, Listening, Exiting, Served, Known, Tidy, Ending, SessionBeforeMessage, ExitOnce
  <1> QED
    BY <1>1, <1>2, <1>3 DEF ClientInv, PeersInv

(* An error is that of a socket that has its session, or was closed here. *)
LEMMA HandleErrorKeeps ==
    ASSUME ClientInv, aborted = None, NEW p \in Peers, NEW op \in Ops, HandleError(p, op)
    PROVE  ClientInv'
  <1> USE ClientAssumption DEF HandleError, mainVars, ioVars, sessions, history, None, Idle, Ops, NoBlock, At, Goto
  <1>1. ClientTypeOK'
    BY DEF ClientInv, ClientTypeOK, PeersInv, Fresh
  <1>2. ASSUME NEW q \in Peers PROVE Fresh(q)' /\ Listening(q)' /\ Exiting(q)' /\ Served(q)' /\ Known(q)' /\ Tidy(q)'
    BY <1>2 DEF ClientInv, ClientTypeOK, PeersInv, Fresh, Listening, Exiting, Served, Known, Tidy, Ending
  <1>3. SessionBeforeMessage' /\ ExitOnce'
    BY DEF ClientInv, ClientTypeOK, PeersInv, Fresh, Listening, Exiting, Served, Known, Tidy, Ending, SessionBeforeMessage, ExitOnce
  <1> QED
    BY <1>1, <1>2, <1>3 DEF ClientInv, PeersInv

(* A thread that ends leaves nothing. *)
LEMMA RunReturnsKeeps ==
    ASSUME ClientInv, aborted = None, NEW p \in Peers, RunReturns(p)
    PROVE  ClientInv'
  <1> USE ClientAssumption DEF RunReturns, mainVars, ioVars, sessions, history, None, Idle, Ops, NoBlock, At, Goto
  <1>1. ClientTypeOK'
    BY DEF ClientInv, ClientTypeOK, PeersInv, Fresh
  <1>2. ASSUME NEW q \in Peers PROVE Fresh(q)' /\ Listening(q)' /\ Exiting(q)' /\ Served(q)' /\ Known(q)' /\ Tidy(q)'
    BY <1>2 DEF ClientInv, ClientTypeOK, PeersInv, Fresh, Listening, Exiting, Served, Known, Tidy, Ending
  <1>3. SessionBeforeMessage' /\ ExitOnce'
    BY DEF ClientInv, ClientTypeOK, PeersInv, Fresh, Listening, Exiting, Served, Known, Tidy, Ending, SessionBeforeMessage, ExitOnce
  <1> QED
    BY <1>1, <1>2, <1>3 DEF ClientInv, PeersInv

(* The process ends. *)
LEMMA IoUsesDeletedKeeps ==
    ASSUME ClientInv, aborted = None, NEW p \in Peers, IoUsesDeleted(p)
    PROVE  ClientInv'
  <1> USE ClientAssumption DEF IoUsesDeleted, mainVars, ioVars, sessions, history, None, Idle, Ops, NoBlock, At, Goto
  <1>1. ClientTypeOK'
    BY DEF ClientInv, ClientTypeOK, PeersInv, Fresh
  <1>2. ASSUME NEW q \in Peers PROVE Fresh(q)' /\ Listening(q)' /\ Exiting(q)' /\ Served(q)' /\ Known(q)' /\ Tidy(q)'
    BY <1>2 DEF ClientInv, ClientTypeOK, PeersInv, Fresh, Listening, Exiting, Served, Known, Tidy, Ending
  <1>3. SessionBeforeMessage' /\ ExitOnce'
    BY DEF ClientInv, ClientTypeOK, PeersInv, Fresh, Listening, Exiting, Served, Known, Tidy, Ending, SessionBeforeMessage, ExitOnce
  <1> QED
    BY <1>1, <1>2, <1>3 DEF ClientInv, PeersInv

(* An operation that failed is still outstanding. *)
LEMMA PeerClosesKeeps ==
    ASSUME ClientInv, aborted = None, NEW p \in Peers, NEW op \in Ops, PeerCloses(p, op)
    PROVE  ClientInv'
  <1> USE ClientAssumption DEF PeerCloses, mainVars, ioVars, sessions, history, None, Idle, Ops, NoBlock, At, Goto
  <1>1. ClientTypeOK'
    BY DEF ClientInv, ClientTypeOK, PeersInv, Fresh
  <1>2. ASSUME NEW q \in Peers PROVE Fresh(q)' /\ Listening(q)' /\ Exiting(q)' /\ Served(q)' /\ Known(q)' /\ Tidy(q)'
    BY <1>2 DEF ClientInv, ClientTypeOK, PeersInv, Fresh, Listening, Exiting, Served, Known, Tidy, Ending
  <1>3. SessionBeforeMessage' /\ ExitOnce'
    BY DEF ClientInv, ClientTypeOK, PeersInv, Fresh, Listening, Exiting, Served, Known, Tidy, Ending, SessionBeforeMessage, ExitOnce
  <1> QED
    BY <1>1, <1>2, <1>3 DEF ClientInv, PeersInv

(* No step of the main loop, of an io thread or of a peer breaks it. *)
LEMMA ClientInvStep == ClientInv /\ [ClientNext]_clientVars => ClientInv'
  <1> SUFFICES ASSUME ClientInv, [ClientNext]_clientVars PROVE ClientInv'
    OBVIOUS
  <1>1. CASE UNCHANGED clientVars
    BY <1>1 DEF clientVars, mainVars, ioVars, sessions, history, ClientInv, ClientTypeOK, PeersInv, Fresh,
       Listening, Exiting, Served, Known, Tidy, Ending, At, SessionBeforeMessage, ExitOnce
  <1>2. CASE ClientNext
    <2>1. aborted = None
      BY <1>2 DEF ClientNext
    <2>2. CASE MainNext
      BY <2>1, <2>2, UpdateStartKeeps, UpdateEndsKeeps, PushBackKeeps, VisitExitKeeps, VisitMessageKeeps,
         VisitNothingKeeps, ExitRemovesSessionKeeps, ExitRemovesServerKeeps, DisconnectKeeps, ClearKeeps
      DEF MainNext
    <2>3. CASE Environment
      BY <2>1, <2>3, ConnectToServerKeeps, RecvMsgKeeps, PeerClosesKeeps DEF Environment
    <2>4. ASSUME NEW p \in Peers, IoNext(p) PROVE ClientInv'
      BY <2>1, <2>4, HandleConnectKeeps, EnterCreatesKeeps, EnterInitsKeeps, EnterRepeatedKeeps, WriteDoneKeeps,
         RunReturnsKeeps, IoUsesDeletedKeeps, HandleErrorKeeps DEF IoNext
    <2> QED
      BY <1>2, <2>2, <2>3, <2>4 DEF ClientNext
  <1> QED
    BY <1>1, <1>2

(* The inductive invariant holds in every reachable state. *)
THEOREM ClientInvariant == ClientSpec => []ClientInv
  BY ClientInvInit, ClientInvStep, PTL DEF ClientSpec

(* Type correctness of the connections a server makes. *)
THEOREM ClientTypeCorrect == ClientSpec => []ClientTypeOK
  <1>1. ClientInv => ClientTypeOK
    BY DEF ClientInv
  <1> QED
    BY <1>1, ClientInvariant, PTL

(* NetClient.cpp:67: no message is dispatched for a socket without a       *)
(* session, for the io thread that would read it still makes the session.  *)
THEOREM MessageHasSession == ClientSpec => []SessionBeforeMessage
  <1>1. ClientInv => SessionBeforeMessage
    BY DEF ClientInv
  <1> QED
    BY <1>1, ClientInvariant, PTL

(* NetClient.cpp:105, BaseMsgHandler.h:167: an exit told for a session     *)
(* that is gone is that of a socket this side closed with work             *)
(* outstanding, and one told for a session without an ID that of a server  *)
(* whose last client was deleted by mistake.                               *)
THEOREM ExitToldOnce == ClientSpec => []ExitOnce
  <1>1. ClientInv => ExitOnce
    BY DEF ClientInv
  <1> QED
    BY <1>1, ClientInvariant, PTL
=============================================================================
