------------------------- MODULE NetSocketRecvProofs -------------------------
(***************************************************************************)
(* The receiving half delivers the messages that were framed, in order and *)
(* intact, for every set of bodies, every size of its buffers and every    *)
(* interleaving of the io thread and the main loop.  Framed and Follows    *)
(* speak of any sequence of cells that the stream is the front of, so that *)
(* they serve the connection too.  The inductive invariant is RecvInv.     *)
(***************************************************************************)
EXTENDS NetSocketRecv, SequenceTheorems, TLAPS

(* The cells are the frames of the messages, one after the other: pos says *)
(* where each starts, and where the next one will.                         *)
Framed(cells, msgs, pos) ==
    /\ pos \in [1 .. Len(msgs) + 1 -> Nat]
    /\ pos[1] = 0
    /\ pos[Len(msgs) + 1] = Len(cells)
    /\ \A i \in 1 .. Len(msgs) :
          /\ pos[i + 1] = pos[i] + 1 + Len(msgs[i])
          /\ pos[i + 1] <= Len(cells)
          /\ cells[pos[i] + 1] = Len(msgs[i])
          /\ \A j \in 1 .. Len(msgs[i]) : cells[pos[i] + 1 + j] = msgs[i][j]

(* One sequence is the front of another. *)
Front(s, t) == Len(s) <= Len(t) /\ \A i \in 1 .. Len(s) : s[i] = t[i]

(* The frame that m_cIBuffer starts with: the next one to deliver, or the  *)
(* one that the callback has just seen.                                    *)
Current == IF mainPc = "remove" THEN Len(delivered) ELSE Len(delivered) + 1

(* The handler of a read knows where in a frame the connection is. *)
AtFrame(msgs, pos, m) ==
    IF eRecvStage = "HEAD"
    THEN nRead = pos[m]
    ELSE m <= Len(msgs) /\ nRead = pos[m] + 1 /\ nBodyLen = Len(msgs[m])

(* A buffer holds the cells from position p on. *)
Holds(data, cells, p) ==
    /\ p + Len(data) <= Len(cells)
    /\ \A i \in 1 .. Len(data) : data[i] = cells[p + i]

(* What was delivered is the front of the messages, m_cIBuffer holds the   *)
(* cells from the current frame on, and while a read is pending those go   *)
(* up to where it is.                                                      *)
Follows(cells, msgs, pos) ==
    /\ Len(delivered) <= Len(msgs) /\ Current \in 1 .. Len(msgs) + 1
    /\ \A i \in 1 .. Len(delivered) : delivered[i] = msgs[i]
    /\ Holds(iBuffer.data, cells, pos[Current])
    /\ reading =>
          /\ nRead = pos[Current] + Len(iBuffer.data)
          /\ \E m \in 1 .. Len(msgs) + 1 : AtFrame(msgs, pos, m)

RecvInv ==
    /\ RecvTypeOK
    /\ MessageStable
    /\ \E pos : /\ Framed(stream \o outgoing, sent, pos)
                /\ Undamaged => Follows(stream \o outgoing, sent, pos)

-----------------------------------------------------------------------------
(* The container.                                                          *)

(* Write either appends all the cells or none, and never leaves the array: *)
(* the memcpy of NetIOBuffer::Write stays inside m_pBuffer.                *)
LEMMA WriteProperties ==
    ASSUME NEW Cell, NEW b \in Buffer(Cell), NEW cells \in Seq(Cell), InBounds(b)
    PROVE  /\ Write(b, cells) \in Buffer(Cell)
           /\ Write(b, cells).max = b.max
           /\ Write(b, cells).begin = b.begin
           /\ InBounds(Write(b, cells))
           /\ Write(b, cells).data = IF Fits(b, cells) THEN b.data \o cells ELSE b.data
  <1>1. /\ b.data \o cells \in Seq(Cell)
        /\ Len(b.data \o cells) = Len(b.data) + Len(cells)
    BY ConcatProperties DEF Buffer
  <1>2. Len(b.data) \in Nat /\ Len(cells) \in Nat
    BY LenProperties DEF Buffer
  <1>3. CASE Fits(b, cells)
    <2>1. Write(b, cells) = [max |-> b.max, begin |-> b.begin, data |-> b.data \o cells]
      BY <1>3 DEF Write, Buffer
    <2> QED
      BY <1>1, <1>2, <1>3, <2>1 DEF Buffer, InBounds, Fits, GetSpace, GetLen
  <1>4. CASE ~Fits(b, cells)
    BY <1>4 DEF Write
  <1> QED
    BY <1>3, <1>4

(* RemoveBuffer drops the first n cells, keeps the rest in order, and moves *)
(* m_nBegin so that the bounds still hold.                                 *)
LEMMA RemoveProperties ==
    ASSUME NEW Cell, NEW b \in Buffer(Cell), InBounds(b), NEW n \in 0 .. GetLen(b)
    PROVE  /\ RemoveBuffer(b, n) \in Buffer(Cell)
           /\ RemoveBuffer(b, n).max = b.max
           /\ InBounds(RemoveBuffer(b, n))
           /\ GetLen(RemoveBuffer(b, n)) = GetLen(b) - n
           /\ b.data = SubSeq(b.data, 1, n) \o RemoveBuffer(b, n).data
  <1> DEFINE rest == SubSeq(b.data, n + 1, Len(b.data))
             begin == IF rest = <<>> THEN 0 ELSE b.begin + n
  <1>1. b.data \in Seq(Cell) /\ Len(b.data) \in Nat /\ n \in 0 .. Len(b.data)
    BY LenProperties DEF Buffer, GetLen
  <1>2. /\ rest \in Seq(Cell)
        /\ Len(rest) = Len(b.data) - n
    <2>1. \A i \in n + 1 .. Len(b.data) : b.data[i] \in Cell
      BY <1>1, ElementOfSeq
    <2>2. /\ rest \in Seq(Cell)
          /\ Len(rest) = IF n + 1 <= Len(b.data) THEN Len(b.data) - (n + 1) + 1 ELSE 0
      BY <1>1, <2>1, SubSeqProperties
    <2> QED
      BY <1>1, <2>2
  <1>3. RemoveBuffer(b, n) = [max |-> b.max, begin |-> begin, data |-> rest]
    BY DEF RemoveBuffer
  <1>4. b.data = SubSeq(b.data, 1, n) \o rest
    <2>1. SubSeq(b.data, 1, n) \o SubSeq(b.data, n + 1, Len(b.data))
            = SubSeq(b.data, 1, Len(b.data))
      <3>1. /\ 1 \in 1 .. Len(b.data) + 1
            /\ n \in 1 - 1 .. Len(b.data)
            /\ Len(b.data) \in n .. Len(b.data)
        BY <1>1
      <3> QED
        BY ONLY <1>1, <3>1, ConcatAdjacentSubSeq
    <2> QED
      BY <1>1, <2>1, SubSeqFull
  <1>5. Len(rest) = 0 => rest = <<>>
    BY <1>2, EmptySeq
  <1>6. /\ b.max \in Nat
        /\ b.begin \in Nat
        /\ b.begin + Len(b.data) <= b.max
    BY DEF Buffer, InBounds, GetLen
  <1>7. begin \in Nat /\ begin + Len(rest) <= b.max
    BY <1>1, <1>2, <1>5, <1>6, EmptySeq, SMTT(30)
  <1> HIDE DEF rest, begin
  <1>8. RemoveBuffer(b, n) \in Buffer(Cell)
    BY <1>2, <1>3, <1>6, <1>7 DEF Buffer
  <1> QED
    BY <1>2, <1>3, <1>4, <1>7, <1>8 DEF InBounds, GetLen

-----------------------------------------------------------------------------
(* Types, and the message in the hand of the main loop.                    *)

LEMMA RecvParts ==
    ASSUME RecvTypeOK
    PROVE  /\ iBuffer \in Buffer(Nat) /\ iBuffer.data \in Seq(Nat)
           /\ GetLen(iBuffer) = Len(iBuffer.data) /\ GetLen(iBuffer) \in Nat
           /\ Len(stream) \in Nat /\ Len(sent) \in Nat /\ Len(delivered) \in Nat
           /\ nRead \in Nat /\ nBodyLen \in Nat /\ nSize \in Nat
  BY LenProperties, RecvAssumption DEF RecvTypeOK, Buffer, GetLen, RecvAssumption

(* The cells that RecvMsg stores after a body. *)
BodyGot == IF nBodyLen < BodySpace THEN nBodyLen ELSE BodySpace
BodyCells == [i \in 1 .. nBodyLen |-> IF i <= BodyGot THEN stream[nRead + i] ELSE 0]

LEMMA BodyCellsType ==
    ASSUME RecvTypeOK, nRead + BodyGot <= Len(stream)
    PROVE  /\ BodyGot \in 0 .. nBodyLen
           /\ BodyCells \in Seq(Nat) /\ Len(BodyCells) = nBodyLen
           /\ \A i \in 1 .. nBodyLen :
                BodyCells[i] = IF i <= BodyGot THEN stream[nRead + i] ELSE 0
  <1>1. /\ MaxRecv \in Nat /\ MaxRecv > 1
        /\ nBodyLen \in Nat /\ nRead \in Nat /\ stream \in Seq(Nat) /\ Len(stream) \in Nat
    BY RecvAssumption, RecvParts DEF RecvAssumption, RecvTypeOK
  <1>2. BodyGot \in 0 .. nBodyLen
    BY <1>1 DEF BodyGot, BodySpace
  <1>3. ASSUME NEW i \in 1 .. nBodyLen, i <= BodyGot PROVE stream[nRead + i] \in Nat
    <2>1. nRead + i \in 1 .. Len(stream)
      BY <1>1, <1>2, <1>3
    <2> QED
      BY <1>1, <2>1, ElementOfSeq
  <1>4. BodyCells \in [1 .. nBodyLen -> Nat]
    BY <1>3 DEF BodyCells
  <1>5. BodyCells \in Seq(Nat)
    BY <1>1, <1>4, SeqDef
  <1>6. Len(BodyCells) = nBodyLen
    <2>1. DOMAIN BodyCells = 1 .. nBodyLen /\ DOMAIN BodyCells = 1 .. Len(BodyCells)
          /\ Len(BodyCells) \in Nat
      BY <1>4, <1>5, LenProperties
    <2> QED
      BY <1>1, <2>1
  <1> QED
    BY <1>2, <1>5, <1>6 DEF BodyCells

LEMMA StoreType ==
    ASSUME RecvTypeOK, NEW cells \in Seq(Nat), Store(cells)
    PROVE  /\ iBuffer' \in Buffer(Nat) /\ iBuffer'.max = CacheSize /\ InBounds(iBuffer')
           /\ refused' \in BOOLEAN /\ cut' \in BOOLEAN
           /\ refused => refused'
           /\ cut => cut'
           /\ ~refused' => iBuffer'.data = iBuffer.data \o cells
           /\ iBuffer'.data = iBuffer.data \/ iBuffer'.data = iBuffer.data \o cells
           /\ ~cut' => Len(cells) <= BodySpace
  <1>1. /\ iBuffer \in Buffer(Nat) /\ iBuffer.max = CacheSize /\ InBounds(iBuffer)
        /\ refused \in BOOLEAN /\ cut \in BOOLEAN
    BY DEF RecvTypeOK
  <1>2. /\ iBuffer' = Write(iBuffer, cells)
        /\ refused' <=> (refused \/ ~Fits(iBuffer, cells))
        /\ cut' <=> (cut \/ Len(cells) > BodySpace)
        /\ refused' \in BOOLEAN /\ cut' \in BOOLEAN
    BY DEF Store
  <1>3. /\ Write(iBuffer, cells) \in Buffer(Nat)
        /\ Write(iBuffer, cells).max = iBuffer.max
        /\ InBounds(Write(iBuffer, cells))
        /\ Write(iBuffer, cells).data
             = IF Fits(iBuffer, cells) THEN iBuffer.data \o cells ELSE iBuffer.data
    BY <1>1, WriteProperties
  <1>4. Len(cells) \in Nat /\ BodySpace \in Int
    BY LenProperties, RecvAssumption DEF BodySpace, RecvAssumption
  <1> QED
    BY <1>1, <1>2, <1>3, <1>4

(* What the callback is given is a sequence of cells. *)
LEMMA MessageType ==
    ASSUME RecvTypeOK, MessageStable, mainPc = "call"
    PROVE  SubSeq(iBuffer.data, 2, nSize + 1) \in Seq(Nat)
  <1>1. /\ iBuffer.data \in Seq(Nat) /\ Len(iBuffer.data) \in Nat /\ nSize \in Nat
        /\ nSize + 1 <= Len(iBuffer.data)
    BY RecvParts DEF MessageStable
  <1>2. \A i \in 2 .. nSize + 1 : iBuffer.data[i] \in Nat
    BY <1>1, ElementOfSeq
  <1>3. 2 \in Int /\ nSize + 1 \in Int
    BY <1>1
  <1> QED
    BY <1>2, <1>3, SubSeqProperties

(* A step of the io thread or of the main loop. *)
LEMMA TypeStep ==
    ASSUME RecvTypeOK, MessageStable, IoNext \/ MainNext
    PROVE  RecvTypeOK'
  <1>0. /\ stream \in Seq(Nat) /\ nRead \in 0 .. Len(stream) /\ Len(stream) \in Nat
        /\ iBuffer \in Buffer(Nat) /\ iBuffer.max = CacheSize /\ InBounds(iBuffer)
        /\ eRecvStage \in {"HEAD", "BODY"}
        /\ nBodyLen \in 0 .. MaxRecv
        /\ reading \in BOOLEAN /\ bExit \in BOOLEAN /\ timerOn \in BOOLEAN
        /\ timerFired \in BOOLEAN /\ refused \in BOOLEAN /\ cut \in BOOLEAN
        /\ mainPc \in {"read", "call", "remove", "exit"}
        /\ nSize \in Nat
        /\ sent \in Seq(Bodies) /\ outgoing \in Seq(Nat) /\ delivered \in Seq(Seq(Nat))
        /\ Timeout \in BOOLEAN /\ MaxRecv \in Nat
        /\ GetLen(iBuffer) = Len(iBuffer.data) /\ GetLen(iBuffer) \in Nat
        /\ iBuffer.data \in Seq(Nat)
    BY LenProperties, RecvAssumption, RecvParts DEF RecvTypeOK, RecvAssumption
  <1>1. CASE RecvHead
    <2> DEFINE len == stream[nRead + 1]
    <2>1. nRead' = nRead + 1 /\ nRead' \in 0 .. Len(stream) /\ len \in Nat
      <3>1. nRead + 1 \in 1 .. Len(stream) /\ nRead' = nRead + 1
        BY <1>0, <1>1 DEF RecvHead
      <3> QED
        BY <1>0, <3>1, ElementOfSeq
    <2>2. CASE LengthOk(len)
      <3>1. /\ nBodyLen' = len /\ Store(<<len>>) /\ ReadNext("BODY")
            /\ UNCHANGED bExit /\ UNCHANGED <<stream, mainVars, peerVars>>
        BY <1>1, <2>2 DEF RecvHead
      <3>2. <<len>> \in Seq(Nat)
        BY <2>1
      <3>3. nBodyLen' \in 0 .. MaxRecv
        BY <1>0, <2>1, <2>2, <3>1 DEF LengthOk
      <3> HIDE DEF len
      <3>4. /\ iBuffer' \in Buffer(Nat) /\ iBuffer'.max = CacheSize /\ InBounds(iBuffer')
            /\ refused' \in BOOLEAN /\ cut' \in BOOLEAN
        BY <3>1, <3>2, StoreType
      <3> QED
        BY <1>0, <2>1, <3>1, <3>3, <3>4 DEF ReadNext, RecvTypeOK, mainVars, peerVars
    <2>3. CASE ~LengthOk(len)
      <3>1. /\ nBodyLen' = 0 /\ bExit' = TRUE /\ reading' = FALSE /\ TimeoutCancel
            /\ UNCHANGED <<eRecvStage, iBuffer, damage>>
            /\ UNCHANGED <<stream, mainVars, peerVars>>
        BY <1>1, <2>3 DEF RecvHead
      <3> HIDE DEF len
      <3> QED
        <4>1. /\ nBodyLen' \in 0 .. MaxRecv
              /\ {reading', bExit', timerOn', timerFired', refused', cut'} \subseteq BOOLEAN
              /\ UNCHANGED <<eRecvStage, iBuffer, stream, mainPc, nSize, delivered, sent, outgoing>>
          <5>1. /\ reading' = FALSE /\ bExit' = TRUE /\ timerOn' = FALSE
                /\ timerFired' = timerFired /\ refused' = refused /\ cut' = cut
                /\ UNCHANGED <<eRecvStage, iBuffer, stream, mainPc, nSize, delivered, sent, outgoing>>
            BY <3>1, Zenon DEF TimeoutCancel, mainVars, peerVars, damage
          <5>2. nBodyLen' \in 0 .. MaxRecv
            BY <1>0, <3>1
          <5> QED
            BY <1>0, <5>1, <5>2
        <4> QED
          BY <1>0, <2>1, <4>1 DEF RecvTypeOK
    <2> QED
      BY <2>2, <2>3
  <1>2. CASE RecvBody
    <2>1. /\ nRead + BodyGot <= Len(stream) /\ nRead' = nRead + BodyGot
          /\ Store(BodyCells) /\ ReadNext("HEAD")
          /\ UNCHANGED <<stream, nBodyLen, bExit, mainVars, peerVars>>
      BY <1>2 DEF RecvBody, BodyGot, BodyCells
    <2>2. BodyCells \in Seq(Nat) /\ BodyGot \in 0 .. nBodyLen
      BY <2>1, BodyCellsType
    <2>3. /\ iBuffer' \in Buffer(Nat) /\ iBuffer'.max = CacheSize /\ InBounds(iBuffer')
          /\ refused' \in BOOLEAN /\ cut' \in BOOLEAN
      BY <2>1, <2>2, StoreType
    <2>4. nRead' \in 0 .. Len(stream)
      BY <1>0, <2>1, <2>2
    <2> QED
      BY <1>0, <2>1, <2>3, <2>4 DEF ReadNext, RecvTypeOK, mainVars, peerVars
  <1>3. CASE RecvError
    BY <1>0, <1>3 DEF RecvError, TimeoutCancel, RecvTypeOK, mainVars, peerVars, damage
  <1>4. CASE TimerExpire
    BY <1>0, <1>4 DEF TimerExpire, RecvTypeOK, readVars, mainVars, peerVars, damage
  <1>5. CASE HandleWait
    BY <1>0, <1>5 DEF HandleWait, RecvTypeOK, readVars, mainVars, peerVars, damage
  <1>6. CASE ReadMsg
    <2>1. nSize' \in Nat
      <3>1. CASE bExit
        BY <1>0, <1>6, <3>1 DEF ReadMsg
      <3>2. CASE ~bExit
        <4>1. 1 \in 1 .. Len(iBuffer.data) /\ nSize' = iBuffer.data[1]
          BY <1>0, <1>6, <3>2 DEF ReadMsg
        <4> QED
          BY <1>0, <4>1, ElementOfSeq
      <3> QED
        BY <3>1, <3>2
    <2>2. mainPc' \in {"read", "call", "remove", "exit"}
      BY <1>6 DEF ReadMsg
    <2> QED
      BY <1>0, <1>6, <2>1, <2>2
         DEF ReadMsg, RecvTypeOK, readVars, timerVars, peerVars, damage
  <1>7. CASE OnMsg
    <2>1. SubSeq(iBuffer.data, 2, nSize + 1) \in Seq(Nat)
      BY <1>7, MessageType DEF OnMsg
    <2>2. delivered' \in Seq(Seq(Nat))
      BY <1>0, <1>7, <2>1, AppendProperties DEF OnMsg
    <2>3. bExit' \in BOOLEAN
      BY <1>0, <1>7 DEF OnMsg
    <2> QED
      BY <1>0, <1>7, <2>2, <2>3 DEF OnMsg, RecvTypeOK, readVars, timerVars, peerVars, damage
  <1>8. CASE RemoveMsg
    <2>1. nSize + 1 \in 0 .. GetLen(iBuffer)
      BY <1>0, <1>8 DEF RemoveMsg, MessageStable
    <2>2. /\ iBuffer' \in Buffer(Nat) /\ iBuffer'.max = CacheSize /\ InBounds(iBuffer')
      BY <1>0, <1>8, <2>1, RemoveProperties DEF RemoveMsg
    <2> QED
      BY <1>0, <1>8, <2>2 DEF RemoveMsg, RecvTypeOK, readVars, timerVars, peerVars, damage
  <1> QED
    BY <1>1, <1>2, <1>3, <1>4, <1>5, <1>6, <1>7, <1>8 DEF IoNext, RecvDone, MainNext

(* Storing more keeps the front of m_cIBuffer. *)
LEMMA FrontKept ==
    ASSUME NEW s \in Seq(Nat), NEW t \in Seq(Nat)
    PROVE  /\ Len(s \o t) >= Len(s)
           /\ \A i \in 1 .. Len(s) : (s \o t)[i] = s[i]
  <1>1. /\ Len(s) \in Nat /\ Len(t) \in Nat /\ Len(s \o t) = Len(s) + Len(t)
        /\ \A i \in 1 .. Len(s) + Len(t) : (s \o t)[i] = IF i <= Len(s) THEN s[i] ELSE t[i - Len(s)]
    BY LenProperties, ConcatProperties
  <1> QED
    BY <1>1

LEMMA StableStore ==
    ASSUME RecvTypeOK, MessageStable, NEW cells \in Seq(Nat), Store(cells),
           UNCHANGED <<mainPc, nSize>>
    PROVE  MessageStable'
  <1>1. iBuffer.data \in Seq(Nat) /\ Len(iBuffer.data) \in Nat /\ nSize \in Nat
    BY RecvParts
  <1>2. iBuffer'.data = iBuffer.data \/ iBuffer'.data = iBuffer.data \o cells
    BY StoreType
  <1>3. Len(iBuffer.data \o cells) >= Len(iBuffer.data)
        /\ \A i \in 1 .. Len(iBuffer.data) : (iBuffer.data \o cells)[i] = iBuffer.data[i]
    BY <1>1, FrontKept
  <1>4. iBuffer.data \o cells \in Seq(Nat) /\ Len(iBuffer.data \o cells) \in Nat
    BY <1>1, ConcatProperties, LenProperties
  <1> SUFFICES ASSUME mainPc \in {"call", "remove"}
               PROVE  Len(iBuffer'.data) >= nSize + 1 /\ iBuffer'.data[1] = nSize
    BY DEF MessageStable, GetLen
  <1>5. Len(iBuffer.data) >= nSize + 1 /\ iBuffer.data[1] = nSize
    BY DEF MessageStable, GetLen
  <1>6. 1 \in 1 .. Len(iBuffer.data)
    BY <1>1, <1>5
  <1> QED
    BY <1>1, <1>2, <1>3, <1>4, <1>5, <1>6

LEMMA StableStep ==
    ASSUME RecvTypeOK, MessageStable, IoNext \/ MainNext
    PROVE  MessageStable'
  <1>1. CASE RecvHead
    <2> DEFINE len == stream[nRead + 1]
    <2>1. len \in Nat
      <3>1. nRead + 1 \in 1 .. Len(stream) /\ stream \in Seq(Nat)
        BY <1>1, RecvParts DEF RecvHead, RecvTypeOK
      <3> QED
        BY <3>1, ElementOfSeq
    <2>2. CASE LengthOk(len)
      <3>1. Store(<<len>>) /\ UNCHANGED <<mainPc, nSize>>
        BY <1>1, <2>2 DEF RecvHead, mainVars
      <3>2. <<len>> \in Seq(Nat)
        BY <2>1
      <3> HIDE DEF len
      <3> QED
        BY <3>1, <3>2, StableStore
    <2>3. CASE ~LengthOk(len)
      <3>1. UNCHANGED <<iBuffer, mainPc, nSize>>
        BY <1>1, <2>3 DEF RecvHead, mainVars
      <3> QED
        BY <3>1 DEF MessageStable
    <2> QED
      BY <2>2, <2>3
  <1>2. CASE RecvBody
    <2>1. nRead + BodyGot <= Len(stream) /\ Store(BodyCells) /\ UNCHANGED <<mainPc, nSize>>
      BY <1>2 DEF RecvBody, BodyGot, BodyCells, mainVars
    <2> QED
      BY <2>1, BodyCellsType, StableStore
  <1>3. CASE RecvError \/ TimerExpire \/ HandleWait
    BY <1>3 DEF RecvError, TimerExpire, HandleWait, mainVars, MessageStable
  <1>4. CASE ReadMsg
    BY <1>4, RecvParts DEF ReadMsg, MessageStable
  <1>5. CASE OnMsg
    BY <1>5 DEF OnMsg, MessageStable
  <1>6. CASE RemoveMsg
    BY <1>6 DEF RemoveMsg, MessageStable
  <1> QED
    BY <1>1, <1>2, <1>3, <1>4, <1>5, <1>6 DEF IoNext, RecvDone, MainNext

-----------------------------------------------------------------------------
(* The framing.                                                            *)

(* A frame cannot start behind the last one, nor beyond the cells. *)
LEMMA FramedIndex ==
    ASSUME NEW cells \in Seq(Nat), NEW msgs \in Seq(Seq(Nat)), NEW pos,
           Framed(cells, msgs, pos), NEW m \in 1 .. Len(msgs) + 1
    PROVE  /\ pos[m] \in Nat /\ pos[m] <= Len(cells)
           /\ pos[m] < Len(cells) =>
                /\ m \in 1 .. Len(msgs)
                /\ cells[pos[m] + 1] = Len(msgs[m])
                /\ pos[m + 1] = pos[m] + 1 + Len(msgs[m])
                /\ pos[m + 1] <= Len(cells)
                /\ msgs[m] \in Seq(Nat) /\ Len(msgs[m]) \in Nat
                /\ \A j \in 1 .. Len(msgs[m]) : cells[pos[m] + 1 + j] = msgs[m][j]
  <1>1. Len(msgs) \in Nat /\ Len(cells) \in Nat
    BY LenProperties
  <1>2. pos[m] \in Nat
    BY DEF Framed
  <1>3. pos[m] <= Len(cells)
    <2>1. CASE m = 1
      BY <1>1, <2>1 DEF Framed
    <2>2. CASE m # 1
      <3> DEFINE k == m - 1
      <3>1. k \in 1 .. Len(msgs) /\ k + 1 = m
        BY <1>1, <2>2
      <3> HIDE DEF k
      <3> QED
        BY <3>1 DEF Framed
    <2> QED
      BY <2>1, <2>2
  <1>4. ASSUME pos[m] < Len(cells)
        PROVE  /\ m \in 1 .. Len(msgs)
               /\ msgs[m] \in Seq(Nat) /\ Len(msgs[m]) \in Nat
    <2>1. m # Len(msgs) + 1
      BY <1>1, <1>2, <1>4 DEF Framed
    <2>2. m \in 1 .. Len(msgs)
      BY <1>1, <2>1
    <2>3. msgs[m] \in Seq(Nat)
      BY <2>2, ElementOfSeq
    <2> QED
      BY <2>2, <2>3, LenProperties
  <1> QED
    BY <1>2, <1>3, <1>4 DEF Framed

(* When another message is framed behind the others. *)
LEMMA FramedAppend ==
    ASSUME NEW cells \in Seq(Nat), NEW msgs \in Seq(Seq(Nat)), NEW pos,
           Framed(cells, msgs, pos), NEW body \in Seq(Nat)
    PROVE  \E new : /\ Framed(cells \o Frame(body), Append(msgs, body), new)
                    /\ \A m \in 1 .. Len(msgs) + 1 : new[m] = pos[m]
  <1> DEFINE n == Len(msgs)
             c == cells \o Frame(body)
             l == Append(msgs, body)
             new == [m \in 1 .. n + 2 |-> IF m <= n + 1 THEN pos[m] ELSE pos[n + 1] + 1 + Len(body)]
  <1>1. n \in Nat /\ Len(cells) \in Nat /\ Len(body) \in Nat
    BY LenProperties
  <1>2. /\ l \in Seq(Seq(Nat)) /\ Len(l) = n + 1
        /\ \A i \in 1 .. n : l[i] = msgs[i]
        /\ l[n + 1] = body
    BY AppendProperties
  <1>3. /\ Frame(body) \in Seq(Nat) /\ Len(Frame(body)) = 1 + Len(body)
        /\ Frame(body)[1] = Len(body)
        /\ \A j \in 1 .. Len(body) : Frame(body)[1 + j] = body[j]
    <2> DEFINE h == <<Len(body)>>
    <2>1. h \in Seq(Nat) /\ Len(h) = 1 /\ h[1] = Len(body)
      BY <1>1
    <2> HIDE DEF h
    <2>2. /\ h \o body \in Seq(Nat) /\ Len(h \o body) = Len(h) + Len(body)
          /\ \A i \in 1 .. Len(h) + Len(body) :
                (h \o body)[i] = IF i <= Len(h) THEN h[i] ELSE body[i - Len(h)]
      BY <2>1, ConcatProperties
    <2>3. (h \o body)[1] = Len(body)
      BY <1>1, <2>1, <2>2
    <2>4. ASSUME NEW j \in 1 .. Len(body), NEW i, i = 1 + j
          PROVE  (h \o body)[i] = body[j]
      <3>1. i \in 1 .. Len(h) + Len(body) /\ ~(i <= Len(h)) /\ i - Len(h) = j
        BY <1>1, <2>1, <2>4
      <3> QED
        BY <2>2, <3>1
    <2>5. Frame(body) = h \o body
      BY DEF Frame, h
    <2> QED
      BY <2>1, <2>2, <2>3, <2>4, <2>5
  <1>4. /\ c \in Seq(Nat) /\ Len(c) = Len(cells) + 1 + Len(body)
        /\ \A i \in 1 .. Len(cells) : c[i] = cells[i]
        /\ \A j \in 1 .. 1 + Len(body) : c[Len(cells) + j] = Frame(body)[j]
    <2> DEFINE f == Frame(body)
    <2>0. f \in Seq(Nat) /\ Len(f) = 1 + Len(body)
      BY <1>3
    <2> HIDE DEF f, c, l, new
    <2>1. /\ cells \o f \in Seq(Nat) /\ Len(cells \o f) = Len(cells) + Len(f)
          /\ \A i \in 1 .. Len(cells) + Len(f) :
                (cells \o f)[i] = IF i <= Len(cells) THEN cells[i] ELSE f[i - Len(cells)]
      <3>1. f \in Seq(Nat)
        BY <2>0
      <3> QED
        BY <3>1, ConcatProperties
    <2>2. ASSUME NEW j \in 1 .. 1 + Len(body), NEW i, i = Len(cells) + j
          PROVE  (cells \o f)[i] = f[j]
      <3>1. i \in 1 .. Len(cells) + Len(f) /\ ~(i <= Len(cells)) /\ i - Len(cells) = j
        BY <1>1, <2>0, <2>2
      <3> QED
        BY <2>1, <3>1
    <2>3. \A i \in 1 .. Len(cells) : (cells \o f)[i] = cells[i]
      BY <1>1, <2>0, <2>1
    <2>4. Len(cells \o f) = Len(cells) + 1 + Len(body)
      BY <1>1, <2>0, <2>1
    <2> QED
      BY <2>1, <2>2, <2>3, <2>4 DEF f, c
  <1> HIDE DEF c, l
  <1>5. /\ pos \in [1 .. n + 1 -> Nat] /\ pos[1] = 0 /\ pos[n + 1] = Len(cells)
    BY DEF Framed
  <1>6. /\ new \in [1 .. n + 2 -> Nat]
        /\ \A m \in 1 .. n + 1 : new[m] = pos[m]
        /\ \A m : m = n + 2 => new[m] = Len(cells) + 1 + Len(body)
    BY <1>1, <1>5
  <1> HIDE DEF new
  <1>7. ASSUME NEW i \in 1 .. n + 1
        PROVE  /\ new[i + 1] = new[i] + 1 + Len(l[i])
               /\ new[i + 1] <= Len(c)
               /\ c[new[i] + 1] = Len(l[i])
               /\ \A j \in 1 .. Len(l[i]) : c[new[i] + 1 + j] = l[i][j]
    <2>1. CASE i <= n
      <3>1. i \in 1 .. n /\ i \in 1 .. n + 1 /\ i + 1 \in 1 .. n + 1
        BY <1>1, <2>1
      <3>2. /\ pos[i + 1] = pos[i] + 1 + Len(msgs[i])
            /\ pos[i + 1] <= Len(cells)
            /\ cells[pos[i] + 1] = Len(msgs[i])
            /\ \A j \in 1 .. Len(msgs[i]) : cells[pos[i] + 1 + j] = msgs[i][j]
        BY <3>1 DEF Framed
      <3>3. new[i] = pos[i] /\ new[i + 1] = pos[i + 1] /\ l[i] = msgs[i] /\ pos[i] \in Nat
        BY <1>2, <1>5, <1>6, <3>1
      <3>4. Len(msgs[i]) \in Nat
        <4>1. msgs[i] \in Seq(Nat)
          BY <3>1, ElementOfSeq
        <4> QED
          BY <4>1, LenProperties
      <3>5. pos[i] + 1 \in 1 .. Len(cells)
            /\ \A j \in 1 .. Len(msgs[i]) : pos[i] + 1 + j \in 1 .. Len(cells)
        <4>1. \A x, q \in Nat : x + 1 + q <= Len(cells) =>
                 x + 1 \in 1 .. Len(cells) /\ \A j \in 1 .. q : x + 1 + j \in 1 .. Len(cells)
          BY <1>1
        <4>2. pos[i] + 1 + Len(msgs[i]) <= Len(cells)
          BY <3>2
        <4> QED
          BY <3>3, <3>4, <4>1, <4>2
      <3>6. new[i + 1] = new[i] + 1 + Len(l[i]) /\ new[i + 1] <= Len(c)
        <4>1. new[i + 1] = new[i] + 1 + Len(l[i]) /\ new[i + 1] <= Len(cells) /\ new[i + 1] \in Nat
          <5>1. pos[i + 1] \in Nat /\ pos[i + 1] <= Len(cells)
            <6>1. pos[i + 1] = pos[i] + 1 + Len(msgs[i]) /\ pos[i + 1] <= Len(cells)
              BY <3>2
            <6>2. pos[i] \in Nat
              BY <3>3
            <6>4. \A x, q \in Nat : x + 1 + q \in Nat
              OBVIOUS
            <6>5. pos[i] + 1 + Len(msgs[i]) \in Nat
              BY <3>4, <6>2, <6>4
            <6> QED
              BY <6>1, <6>5
          <5>2. new[i + 1] = pos[i + 1]
            BY <3>3
          <5>3. pos[i + 1] = pos[i] + 1 + Len(msgs[i])
            BY <3>2
          <5>4. new[i + 1] = new[i] + 1 + Len(l[i])
            BY <3>3, <5>2, <5>3
          <5> QED
            BY <5>1, <5>2, <5>4
        <4>2. Len(c) = Len(cells) + 1 + Len(body)
          BY <1>4
        <4> QED
          BY <1>1, <4>1, <4>2
      <3>7. c[new[i] + 1] = Len(l[i])
        BY <1>4, <3>2, <3>3, <3>5
      <3>8. ASSUME NEW j \in 1 .. Len(l[i]) PROVE c[new[i] + 1 + j] = l[i][j]
        <4>1. j \in 1 .. Len(msgs[i])
          BY <3>3
        <4>2. c[pos[i] + 1 + j] = cells[pos[i] + 1 + j]
          BY <1>4, <3>5, <4>1
        <4> QED
          BY <3>2, <3>3, <4>1, <4>2
      <3> QED
        BY <3>6, <3>7, <3>8
    <2>2. CASE ~(i <= n)
      <3>1. i = n + 1 /\ i + 1 = n + 2 /\ i \in 1 .. n + 1
        BY <1>1, <2>2
      <3>2. new[i] = Len(cells) /\ new[i + 1] = Len(cells) + 1 + Len(body) /\ l[i] = body
        BY <1>2, <1>5, <1>6, <3>1
      <3>3. c[Len(cells) + 1] = Len(body)
        BY <1>1, <1>3, <1>4
      <3>4. ASSUME NEW j \in 1 .. Len(body), NEW k, k = Len(cells) + 1 + j
            PROVE  c[k] = body[j]
        <4>1. 1 + j \in 1 .. 1 + Len(body) /\ k = Len(cells) + (1 + j)
          BY <1>1, <3>4
        <4>2. c[k] = Frame(body)[1 + j]
          BY <1>4, <4>1
        <4> QED
          BY <1>3, <4>2
      <3>5. \A j \in 1 .. Len(body) : c[Len(cells) + 1 + j] = body[j]
        BY <3>4
      <3>6. new[i + 1] <= Len(c)
        BY <1>1, <1>4, <3>2
      <3> QED
        BY <3>2, <3>3, <3>5, <3>6
    <2> QED
      BY <2>1, <2>2
  <1>8. Framed(c, l, new)
    <2>1. Len(l) + 1 = n + 2
      BY <1>1, <1>2
    <2>2. new[1] = 0
      BY <1>1, <1>5, <1>6
    <2>3. new[Len(l) + 1] = Len(c)
      BY <1>4, <1>6, <2>1
    <2> QED
      BY <1>2, <1>6, <1>7, <2>1, <2>2, <2>3 DEF Framed
  <1> QED
    BY <1>6, <1>8 DEF c, l

-----------------------------------------------------------------------------
(* What a buffer holds, when cells are stored behind it, read at its front *)
(* or dropped there.                                                       *)

LEMMA HoldsMore ==
    ASSUME NEW data \in Seq(Nat), NEW new \in Seq(Nat), NEW cells \in Seq(Nat), NEW p \in Nat,
           Holds(data, cells, p),
           p + Len(data) + Len(new) <= Len(cells),
           \A j \in 1 .. Len(new) : new[j] = cells[p + Len(data) + j]
    PROVE  Holds(data \o new, cells, p) /\ Len(data \o new) = Len(data) + Len(new)
  <1>1. Len(data) \in Nat /\ Len(new) \in Nat /\ Len(cells) \in Nat
    BY LenProperties
  <1>2. /\ Len(data \o new) = Len(data) + Len(new)
        /\ \A i \in 1 .. Len(data) + Len(new) :
              (data \o new)[i] = IF i <= Len(data) THEN data[i] ELSE new[i - Len(data)]
    BY ConcatProperties
  <1>3. ASSUME NEW i \in 1 .. Len(data \o new) PROVE (data \o new)[i] = cells[p + i]
    <2>1. CASE i <= Len(data)
      <3>1. i \in 1 .. Len(data) /\ i \in 1 .. Len(data) + Len(new)
        BY <1>1, <1>2, <2>1
      <3> QED
        BY <1>2, <2>1, <3>1 DEF Holds
    <2>2. ASSUME ~(i <= Len(data)), NEW j, j = i - Len(data)
          PROVE  (data \o new)[i] = cells[p + i]
      <3>1. /\ j \in 1 .. Len(new) /\ i \in 1 .. Len(data) + Len(new)
            /\ p + Len(data) + j = p + i
        BY <1>1, <1>2, <2>2
      <3> QED
        BY <1>2, <2>2, <3>1
    <2> QED
      BY <2>1, <2>2
  <1> QED
    BY <1>1, <1>2, <1>3 DEF Holds

LEMMA HoldsRest ==
    ASSUME NEW data \in Seq(Nat), NEW cells \in Seq(Nat), NEW p \in Nat,
           NEW n \in Nat, n <= Len(data), Holds(data, cells, p)
    PROVE  /\ Holds(SubSeq(data, n + 1, Len(data)), cells, p + n)
           /\ Len(SubSeq(data, n + 1, Len(data))) = Len(data) - n
  <1> DEFINE rest == SubSeq(data, n + 1, Len(data))
  <1>1. Len(data) \in Nat /\ Len(cells) \in Nat
    BY LenProperties
  <1>2. /\ Len(rest) = IF n + 1 <= Len(data) THEN Len(data) - (n + 1) + 1 ELSE 0
        /\ \A i \in 1 .. Len(data) - (n + 1) + 1 : rest[i] = data[n + 1 + i - 1]
    <2>1. \A i \in n + 1 .. Len(data) : data[i] \in Nat
      BY <1>1, ElementOfSeq
    <2>2. n + 1 \in Int /\ Len(data) \in Int
      BY <1>1
    <2> QED
      BY <2>1, <2>2, SubSeqProperties
  <1> HIDE DEF rest
  <1>3. Len(rest) = Len(data) - n
    <2>1. Len(rest) = IF n + 1 <= Len(data) THEN Len(data) - (n + 1) + 1 ELSE 0
      BY <1>2
    <2> QED
      BY <1>1, <2>1
  <1>4. ASSUME NEW i \in 1 .. Len(rest) PROVE rest[i] = cells[p + n + i]
    <2>1. ASSUME NEW j, j = n + i PROVE rest[i] = cells[p + j]
      <3>1. i \in 1 .. Len(data) - (n + 1) + 1 /\ n + 1 + i - 1 = j /\ j \in 1 .. Len(data)
        BY <1>1, <1>3, <2>1
      <3> QED
        BY <1>2, <3>1 DEF Holds
    <2>2. p + n + i = p + (n + i)
      OBVIOUS
    <2> QED
      BY <2>1, <2>2
  <1>5. p + n + Len(rest) <= Len(cells)
    BY <1>1, <1>3 DEF Holds
  <1> QED
    BY <1>3, <1>4, <1>5 DEF Holds, rest

(* The buffer starts with a whole frame: what lies behind the length cell  *)
(* is the message.                                                         *)
LEMMA HoldsMessage ==
    ASSUME NEW data \in Seq(Nat), NEW cells \in Seq(Nat), NEW p \in Nat,
           NEW body \in Seq(Nat), Holds(data, cells, p), Len(body) + 1 <= Len(data),
           \A j \in 1 .. Len(body) : cells[p + 1 + j] = body[j]
    PROVE  SubSeq(data, 2, Len(body) + 1) = body
  <1> DEFINE got == SubSeq(data, 2, Len(body) + 1)
  <1>1. Len(data) \in Nat /\ Len(cells) \in Nat /\ Len(body) \in Nat
    BY LenProperties
  <1>2. /\ got \in Seq(Nat)
        /\ Len(got) = IF 2 <= Len(body) + 1 THEN Len(body) + 1 - 2 + 1 ELSE 0
        /\ \A i \in 1 .. Len(body) + 1 - 2 + 1 : got[i] = data[2 + i - 1]
    <2>1. \A i \in 2 .. Len(body) + 1 : data[i] \in Nat
      BY <1>1, ElementOfSeq
    <2>2. 2 \in Int /\ Len(body) + 1 \in Int
      BY <1>1
    <2> QED
      BY <2>1, <2>2, SubSeqProperties
  <1> HIDE DEF got
  <1>3. Len(got) = Len(body)
    BY <1>1, <1>2
  <1>4. ASSUME NEW i \in 1 .. Len(body) PROVE got[i] = body[i]
    <2>1. ASSUME NEW j, j = i + 1 PROVE got[i] = cells[p + j]
      <3>1. i \in 1 .. Len(body) + 1 - 2 + 1 /\ 2 + i - 1 = j /\ j \in 1 .. Len(data)
        BY <1>1, <2>1
      <3> QED
        BY <1>2, <3>1 DEF Holds
    <2>2. p + 1 + i = p + (i + 1)
      OBVIOUS
    <2> QED
      BY <2>1, <2>2
  <1>5. got = body
    BY <1>2, <1>3, <1>4, SeqEqual
  <1> QED
    BY <1>5 DEF got

(* The same cells, and more behind them. *)
LEMMA HoldsFront ==
    ASSUME NEW data \in Seq(Nat), NEW cells \in Seq(Nat), NEW more \in Seq(Nat), NEW p \in Nat,
           Holds(data, cells, p), Front(cells, more)
    PROVE  Holds(data, more, p)
  <1>1. Len(data) \in Nat /\ Len(cells) \in Nat /\ Len(more) \in Nat
    BY LenProperties
  <1>2. ASSUME NEW i \in 1 .. Len(data) PROVE data[i] = more[p + i]
    <2>1. p + i \in 1 .. Len(cells)
      BY <1>1 DEF Holds
    <2> QED
      BY <2>1 DEF Holds, Front
  <1>3. p + Len(data) <= Len(more)
    BY <1>1 DEF Holds, Front
  <1> QED
    BY <1>2, <1>3 DEF Holds

-----------------------------------------------------------------------------
(* Following the stream.                                                   *)

(* The receiver follows a longer sequence of cells as it did the front. *)
LEMMA FollowsGrow ==
    ASSUME RecvTypeOK,
           NEW cells \in Seq(Nat), NEW msgs \in Seq(Seq(Nat)), NEW pos,
           Framed(cells, msgs, pos), Follows(cells, msgs, pos),
           NEW more \in Seq(Nat), NEW msgs2 \in Seq(Seq(Nat)), NEW pos2,
           Front(cells, more), Front(msgs, msgs2),
           \A m \in 1 .. Len(msgs) + 1 : pos2[m] = pos[m]
    PROVE  Follows(more, msgs2, pos2)
  <1>1. /\ Len(msgs) \in Nat /\ Len(msgs2) \in Nat /\ Len(msgs) <= Len(msgs2)
        /\ \A i \in 1 .. Len(msgs) : msgs2[i] = msgs[i]
        /\ Len(delivered) \in Nat /\ iBuffer.data \in Seq(Nat)
    BY LenProperties, RecvParts DEF Front
  <1> DEFINE k == Current
  <1>2. k \in 1 .. Len(msgs) + 1 /\ pos2[k] = pos[k] /\ pos[k] \in Nat
    BY FramedIndex DEF Follows
  <1> HIDE DEF k
  <1>3. k \in 1 .. Len(msgs2) + 1
    BY <1>1, <1>2
  <1>4. Len(delivered) <= Len(msgs) /\ Len(delivered) <= Len(msgs2)
    BY <1>1 DEF Follows
  <1>5. \A i \in 1 .. Len(delivered) : delivered[i] = msgs2[i]
    <2>1. \A i \in 1 .. Len(delivered) : i \in 1 .. Len(msgs)
      BY <1>1, <1>4
    <2> QED
      BY <1>1, <2>1 DEF Follows
  <1>6. Holds(iBuffer.data, more, pos2[k])
    <2>1. Holds(iBuffer.data, cells, pos[k])
      BY DEF Follows, k
    <2> QED
      BY <1>1, <1>2, <2>1, HoldsFront
  <1>7. ASSUME reading
        PROVE  /\ nRead = pos2[k] + Len(iBuffer.data)
               /\ \E m \in 1 .. Len(msgs2) + 1 : AtFrame(msgs2, pos2, m)
    <2>1. nRead = pos[k] + Len(iBuffer.data)
      BY <1>7 DEF Follows, k
    <2>2. PICK m \in 1 .. Len(msgs) + 1 : AtFrame(msgs, pos, m)
      BY <1>7 DEF Follows
    <2>3. m \in 1 .. Len(msgs2) + 1 /\ pos2[m] = pos[m]
      BY <1>1
    <2>4. AtFrame(msgs2, pos2, m)
      <3>1. CASE eRecvStage = "HEAD"
        BY <2>2, <2>3, <3>1 DEF AtFrame
      <3>2. CASE eRecvStage # "HEAD"
        <4>1. m \in 1 .. Len(msgs)
          BY <1>1, <2>2, <3>2 DEF AtFrame
        <4> QED
          BY <1>1, <2>2, <2>3, <3>2, <4>1, SMTT(30) DEF AtFrame
      <3> QED
        BY <3>1, <3>2
    <2> QED
      BY <1>2, <2>1, <2>3, <2>4
  <1> QED
    BY <1>3, <1>4, <1>5, <1>6, <1>7 DEF Follows, k

(* A refused Write and a cut body are not forgotten. *)
LEMMA StoreMonotonic ==
    ASSUME RecvTypeOK, IoNext \/ MainNext
    PROVE  (refused => refused') /\ (cut => cut')
  <1>1. CASE RecvDone
    <2>1. (\E cells : Store(cells)) \/ UNCHANGED <<refused, cut>>
      BY <1>1 DEF RecvDone, RecvHead, RecvBody, damage
    <2>2. refused \in BOOLEAN /\ cut \in BOOLEAN
      BY DEF RecvTypeOK
    <2>3. ASSUME NEW cells, Store(cells) PROVE (refused => refused') /\ (cut => cut')
      BY <2>2, <2>3 DEF Store
    <2> QED
      BY <2>1, <2>3
  <1>2. CASE RecvError \/ TimerExpire \/ HandleWait \/ MainNext
    <2>1. UNCHANGED <<refused, cut>>
      BY <1>2 DEF RecvError, TimerExpire, HandleWait, MainNext, ReadMsg, OnMsg, RemoveMsg, damage
    <2> QED
      BY <2>1
  <1> QED
    BY <1>1, <1>2 DEF IoNext

(* What a step that goes on following may rely on. *)
LEMMA FollowsParts ==
    ASSUME RecvTypeOK,
           NEW cells \in Seq(Nat), NEW msgs \in Seq(Seq(Nat)), NEW pos,
           Framed(cells, msgs, pos), Front(stream, cells), Follows(cells, msgs, pos)
    PROVE  /\ iBuffer.data \in Seq(Nat) /\ Len(iBuffer.data) \in Nat
           /\ Len(stream) \in Nat /\ Len(delivered) \in Nat
           /\ Len(msgs) \in Nat /\ Len(cells) \in Nat
           /\ nRead \in Nat /\ nBodyLen \in Nat /\ nSize \in Nat
           /\ Current \in 1 .. Len(msgs) + 1
           /\ pos[Current] \in Nat
           /\ Holds(iBuffer.data, cells, pos[Current])
           /\ pos[Current] + Len(iBuffer.data) <= Len(cells)
           /\ Len(stream) <= Len(cells)
           /\ reading => nRead = pos[Current] + Len(iBuffer.data)
  <1>1. Current \in 1 .. Len(msgs) + 1
    BY DEF Follows
  <1>2. pos[Current] \in Nat
    BY <1>1, FramedIndex
  <1> QED
    BY <1>1, <1>2, RecvParts, LenProperties DEF Front, Follows, Holds

(* The header of a frame was read and stored. *)
LEMMA FollowsHead ==
    ASSUME RecvTypeOK,
           NEW cells \in Seq(Nat), NEW msgs \in Seq(Seq(Nat)), NEW pos,
           Framed(cells, msgs, pos), Front(stream, cells), Follows(cells, msgs, pos),
           RecvHead, Undamaged'
    PROVE  Follows(cells, msgs, pos)'
  <1> DEFINE k == Current
             data == iBuffer.data
             len == stream[nRead + 1]
  <1>1. /\ reading /\ eRecvStage = "HEAD" /\ nRead < Len(stream) /\ nRead' = nRead + 1
        /\ UNCHANGED <<mainPc, delivered>>
    BY DEF RecvHead, mainVars
  <1>2. /\ data \in Seq(Nat) /\ Len(data) \in Nat
        /\ Len(stream) \in Nat /\ Len(cells) \in Nat /\ nRead \in Nat
        /\ k \in 1 .. Len(msgs) + 1 /\ pos[k] \in Nat
        /\ Holds(data, cells, pos[k])
        /\ Len(stream) <= Len(cells)
        /\ nRead = pos[k] + Len(data)
    BY <1>1, FollowsParts
  <1>3. PICK m \in 1 .. Len(msgs) + 1 : nRead = pos[m]
    BY <1>1 DEF Follows, AtFrame
  <1>4. m \in 1 .. Len(msgs) /\ cells[nRead + 1] = Len(msgs[m])
    <2>1. pos[m] < Len(cells)
      BY <1>1, <1>2, <1>3
    <2> QED
      BY <1>3, <2>1, FramedIndex
  <1>5. len \in Nat /\ len = cells[nRead + 1]
    <2>1. nRead + 1 \in 1 .. Len(stream)
      <3>1. nRead \in Nat /\ Len(stream) \in Nat /\ nRead < Len(stream)
        BY <1>1, <1>2
      <3> QED
        BY <3>1
    <2>2. stream \in Seq(Nat)
      BY DEF RecvTypeOK
    <2> QED
      BY <2>1, <2>2, ElementOfSeq DEF Front
  <1>6. CASE LengthOk(len)
    <2>1. /\ nBodyLen' = len /\ Store(<<len>>) /\ reading' = TRUE /\ eRecvStage' = "BODY"
      BY <1>6 DEF RecvHead, ReadNext
    <2> DEFINE new == <<len>>
    <2>2. new \in Seq(Nat) /\ Len(new) = 1 /\ new[1] = len
      BY <1>5
    <2> HIDE DEF len, new, k, data
    <2>3. iBuffer'.data = data \o new
      BY <2>1, <2>2, StoreType DEF Undamaged, new, data
    <2>4. /\ pos[k] + Len(data) + Len(new) <= Len(cells)
          /\ nRead' = pos[k] + (Len(data) + Len(new))
      <3>1. /\ nRead' = nRead + 1 /\ nRead < Len(stream) /\ Len(stream) <= Len(cells)
            /\ nRead = pos[k] + Len(data) /\ Len(new) = 1
            /\ pos[k] \in Nat /\ Len(data) \in Nat /\ Len(stream) \in Nat /\ Len(cells) \in Nat
        BY <1>1, <1>2, <2>2
      <3> QED
        BY <3>1, SMTT(30)
    <2>5. \A j \in 1 .. Len(new) : new[j] = cells[pos[k] + Len(data) + j]
      BY <1>2, <1>5, <2>2
    <2>6. Holds(data \o new, cells, pos[k]) /\ Len(data \o new) = Len(data) + Len(new)
      BY <1>2, <2>2, <2>4, <2>5, HoldsMore
    <2>7. AtFrame(msgs, pos, m)'
      <3>1. nBodyLen' = Len(msgs[m]) /\ m <= Len(msgs) /\ nRead' = pos[m] + 1
        BY <1>1, <1>3, <1>4, <1>5, <2>1
      <3> QED
        BY <2>1, <3>1 DEF AtFrame
    <2>8. Current' = k
      BY <1>1 DEF Current, k
    <2> QED
      BY <1>1, <1>2, <1>3, <2>3, <2>4, <2>6, <2>7, <2>8 DEF Follows
  <1>7. CASE ~LengthOk(len)
    <2>1. reading' = FALSE /\ iBuffer' = iBuffer
      BY <1>7 DEF RecvHead
    <2>2. Current' = Current
      BY <1>1 DEF Current
    <2> QED
      BY <1>1, <2>1, <2>2 DEF Follows
  <1> QED
    BY <1>6, <1>7

(* The body was. *)
LEMMA FollowsBody ==
    ASSUME RecvTypeOK,
           NEW cells \in Seq(Nat), NEW msgs \in Seq(Seq(Nat)), NEW pos,
           Framed(cells, msgs, pos), Front(stream, cells), Follows(cells, msgs, pos),
           RecvBody, Undamaged'
    PROVE  Follows(cells, msgs, pos)'
  <1> DEFINE k == Current
             data == iBuffer.data
  <1>1. /\ reading /\ eRecvStage = "BODY"
        /\ nRead + BodyGot <= Len(stream) /\ nRead' = nRead + BodyGot
        /\ Store(BodyCells) /\ reading' = TRUE /\ eRecvStage' = "HEAD"
        /\ UNCHANGED <<mainPc, delivered>>
    BY DEF RecvBody, BodyGot, BodyCells, ReadNext, mainVars
  <1>2. /\ data \in Seq(Nat) /\ Len(data) \in Nat /\ Len(msgs) \in Nat
        /\ Len(stream) \in Nat /\ Len(cells) \in Nat /\ nRead \in Nat /\ nBodyLen \in Nat
        /\ k \in 1 .. Len(msgs) + 1 /\ pos[k] \in Nat
        /\ Holds(data, cells, pos[k])
        /\ Len(stream) <= Len(cells)
        /\ nRead = pos[k] + Len(data)
    BY <1>1, FollowsParts
  <1>3. /\ BodyCells \in Seq(Nat) /\ Len(BodyCells) = nBodyLen
        /\ \A i \in 1 .. nBodyLen : BodyCells[i] = IF i <= BodyGot THEN stream[nRead + i] ELSE 0
    BY <1>1, BodyCellsType
  <1>4. iBuffer'.data = data \o BodyCells /\ nBodyLen <= BodySpace
    <2>1. ~refused' /\ ~cut'
      BY DEF Undamaged
    <2> QED
      BY <1>1, <1>3, <2>1, StoreType
  <1>5. BodyGot = nBodyLen
    <2>1. MaxRecv \in Nat
      BY RecvAssumption DEF RecvAssumption
    <2> QED
      BY <1>2, <1>4, <2>1 DEF BodyGot, BodySpace
  <1>6. PICK m \in 1 .. Len(msgs) + 1 :
           m <= Len(msgs) /\ nRead = pos[m] + 1 /\ nBodyLen = Len(msgs[m])
    BY <1>1 DEF Follows, AtFrame
  <1>7. m \in 1 .. Len(msgs) /\ m + 1 \in 1 .. Len(msgs) + 1 /\ pos[m] \in Nat
    <2>1. pos[m] \in Nat
      BY FramedIndex
    <2> QED
      BY <1>2, <1>6, <2>1
  <1>8. nRead' = pos[m + 1]
    <2>1. pos[m + 1] = pos[m] + 1 + Len(msgs[m])
      BY <1>7 DEF Framed
    <2> QED
      BY <1>1, <1>5, <1>6, <2>1
  <1> HIDE DEF k, data
  <1>9. ASSUME NEW i \in 1 .. Len(BodyCells) PROVE BodyCells[i] = cells[pos[k] + Len(data) + i]
    <2>1. ASSUME NEW j, j = nRead + i PROVE BodyCells[i] = cells[j]
      <3>1. j \in 1 .. Len(stream) /\ i \in 1 .. nBodyLen /\ i <= BodyGot
        <4>1. /\ nRead + BodyGot <= Len(stream) /\ nRead \in Nat /\ Len(stream) \in Nat
              /\ BodyGot = nBodyLen /\ nBodyLen \in Nat /\ Len(BodyCells) = nBodyLen
          BY <1>1, <1>2, <1>3, <1>5
        <4> QED
          BY <2>1, <4>1
      <3>2. BodyCells[i] = stream[j]
        BY <1>3, <2>1, <3>1
      <3> QED
        BY <3>1, <3>2 DEF Front
    <2>2. nRead + i = pos[k] + Len(data) + i
      BY <1>2
    <2> QED
      BY <2>1, <2>2
  <1>10. /\ pos[k] + Len(data) + Len(BodyCells) <= Len(cells)
         /\ nRead' = pos[k] + (Len(data) + Len(BodyCells))
    <2>1. /\ nRead + BodyGot <= Len(stream) /\ nRead' = nRead + BodyGot
          /\ Len(stream) <= Len(cells) /\ nRead = pos[k] + Len(data)
          /\ BodyGot = nBodyLen /\ Len(BodyCells) = nBodyLen /\ nBodyLen \in Nat
          /\ pos[k] \in Nat /\ Len(data) \in Nat /\ Len(stream) \in Nat /\ Len(cells) \in Nat
      BY <1>1, <1>2, <1>3, <1>5
    <2> QED
      BY <2>1
  <1>11. /\ Holds(data \o BodyCells, cells, pos[k])
         /\ Len(data \o BodyCells) = Len(data) + Len(BodyCells)
    BY <1>2, <1>3, <1>9, <1>10, HoldsMore
  <1>12. AtFrame(msgs, pos, m + 1)'
    BY <1>1, <1>8 DEF AtFrame
  <1>13. Current' = k
    BY <1>1 DEF Current, k
  <1> QED
    BY <1>1, <1>2, <1>4, <1>7, <1>10, <1>11, <1>12, <1>13 DEF Follows

(* What the buffer starts with, once ReadMsg found a message there, is the  *)
(* current frame.                                                          *)
LEMMA CurrentMessage ==
    ASSUME RecvTypeOK, MessageStable, mainPc \in {"call", "remove"},
           NEW cells \in Seq(Nat), NEW msgs \in Seq(Seq(Nat)), NEW pos,
           Framed(cells, msgs, pos), Front(stream, cells), Follows(cells, msgs, pos),
           NEW k, k = Current
    PROVE  /\ k \in 1 .. Len(msgs) /\ msgs[k] \in Seq(Nat) /\ nSize = Len(msgs[k])
           /\ nSize + 1 <= Len(iBuffer.data)
           /\ pos[k + 1] = pos[k] + 1 + nSize
           /\ \A j \in 1 .. nSize : cells[pos[k] + 1 + j] = msgs[k][j]
  <1>1. nSize + 1 <= Len(iBuffer.data) /\ iBuffer.data[1] = nSize
    BY DEF MessageStable, GetLen
  <1>2. /\ Len(iBuffer.data) \in Nat /\ nSize \in Nat /\ Len(cells) \in Nat
        /\ k \in 1 .. Len(msgs) + 1 /\ pos[k] \in Nat
        /\ Holds(iBuffer.data, cells, pos[k])
        /\ pos[k] + Len(iBuffer.data) <= Len(cells)
    BY FollowsParts
  <1>3. pos[k] < Len(cells) /\ 1 \in 1 .. Len(iBuffer.data)
    BY <1>1, <1>2, SMTT(30)
  <1>4. nSize = cells[pos[k] + 1]
    BY <1>1, <1>2, <1>3 DEF Holds
  <1>5. /\ k \in 1 .. Len(msgs) /\ cells[pos[k] + 1] = Len(msgs[k])
        /\ pos[k + 1] = pos[k] + 1 + Len(msgs[k])
        /\ msgs[k] \in Seq(Nat)
        /\ \A j \in 1 .. Len(msgs[k]) : cells[pos[k] + 1 + j] = msgs[k][j]
    <2>1. k \in 1 .. Len(msgs) + 1 /\ pos[k] < Len(cells)
      BY <1>2, <1>3
    <2> QED
      BY <2>1, FramedIndex
  <1> QED
    BY <1>1, <1>4, <1>5

(* The callback sees that message. *)
LEMMA CallbackMessage ==
    ASSUME RecvTypeOK, MessageStable, mainPc = "call",
           NEW cells \in Seq(Nat), NEW msgs \in Seq(Seq(Nat)), NEW pos,
           Framed(cells, msgs, pos), Front(stream, cells), Follows(cells, msgs, pos),
           NEW k, k = Len(delivered) + 1
    PROVE  /\ k \in 1 .. Len(msgs) /\ msgs[k] \in Seq(Nat)
           /\ SubSeq(iBuffer.data, 2, nSize + 1) = msgs[k]
  <1>1. k = Current
    BY DEF Current
  <1>2. /\ k \in 1 .. Len(msgs) /\ msgs[k] \in Seq(Nat) /\ nSize = Len(msgs[k])
        /\ nSize + 1 <= Len(iBuffer.data)
        /\ \A j \in 1 .. nSize : cells[pos[k] + 1 + j] = msgs[k][j]
    BY <1>1, CurrentMessage
  <1>3. iBuffer.data \in Seq(Nat) /\ pos[k] \in Nat /\ Holds(iBuffer.data, cells, pos[k])
    BY <1>1, FollowsParts
  <1> QED
    BY <1>2, <1>3, HoldsMessage

(* The message was given to the callback. *)
LEMMA FollowsOnMsg ==
    ASSUME RecvTypeOK, MessageStable,
           NEW cells \in Seq(Nat), NEW msgs \in Seq(Seq(Nat)), NEW pos,
           Framed(cells, msgs, pos), Front(stream, cells), Follows(cells, msgs, pos),
           OnMsg
    PROVE  Follows(cells, msgs, pos)'
  <1> DEFINE k == Current
             data == iBuffer.data
  <1>1. /\ UNCHANGED <<iBuffer, reading, nRead, eRecvStage, nBodyLen>>
        /\ mainPc = "call" /\ mainPc' = "remove"
        /\ delivered' = Append(delivered, SubSeq(data, 2, nSize + 1))
    BY DEF OnMsg, readVars
  <1>2. /\ data \in Seq(Nat) /\ Len(delivered) \in Nat /\ Len(msgs) \in Nat
        /\ k \in 1 .. Len(msgs) + 1 /\ pos[k] \in Nat
        /\ Holds(data, cells, pos[k])
    BY FollowsParts
  <1>3. k = Len(delivered) + 1
    BY <1>1 DEF Current
  <1>4. /\ k \in 1 .. Len(msgs) /\ msgs[k] \in Seq(Nat)
        /\ SubSeq(data, 2, nSize + 1) = msgs[k]
    BY <1>1, <1>3, CallbackMessage
  <1>5. /\ delivered \in Seq(Seq(Nat))
        /\ \A i \in 1 .. Len(delivered) : delivered[i] = msgs[i]
    BY DEF Follows, RecvTypeOK
  <1> HIDE DEF k, data
  <1>6. /\ Len(delivered') = k
        /\ \A i \in 1 .. Len(delivered) : delivered'[i] = delivered[i]
        /\ delivered'[k] = msgs[k]
    <2>1. delivered' = Append(delivered, msgs[k])
      BY <1>1, <1>4
    <2> QED
      BY <1>3, <1>4, <1>5, <2>1, AppendProperties
  <1>7. Current' = k
    BY <1>1, <1>6 DEF Current
  <1>8. ASSUME NEW i \in 1 .. Len(delivered') PROVE delivered'[i] = msgs[i]
    <2>1. i = k \/ i \in 1 .. Len(delivered)
      BY <1>2, <1>3, <1>6
    <2> QED
      BY <1>5, <1>6, <2>1
  <1>9. reading => /\ nRead = pos[k] + Len(data)
                   /\ \E m \in 1 .. Len(msgs) + 1 : AtFrame(msgs, pos, m)
    BY DEF Follows, k, data
  <1>10. \A m : AtFrame(msgs, pos, m)' = AtFrame(msgs, pos, m)
    BY <1>1 DEF AtFrame
  <1>11. Len(delivered') <= Len(msgs)
    BY <1>2, <1>4, <1>6
  <1>12. iBuffer'.data = data
    BY <1>1 DEF data
  <1> QED
    BY <1>1, <1>2, <1>7, <1>8, <1>9, <1>10, <1>11, <1>12 DEF Follows

(* It was dropped from the buffer. *)
LEMMA FollowsRemove ==
    ASSUME RecvTypeOK, MessageStable,
           NEW cells \in Seq(Nat), NEW msgs \in Seq(Seq(Nat)), NEW pos,
           Framed(cells, msgs, pos), Front(stream, cells), Follows(cells, msgs, pos),
           RemoveMsg
    PROVE  Follows(cells, msgs, pos)'
  <1> DEFINE k == Current
             data == iBuffer.data
             rest == SubSeq(data, nSize + 1 + 1, Len(data))
  <1>1. /\ UNCHANGED <<reading, nRead, eRecvStage, nBodyLen, delivered>>
        /\ mainPc = "remove" /\ mainPc' = "read"
        /\ iBuffer' = RemoveBuffer(iBuffer, nSize + 1)
    BY DEF RemoveMsg, readVars
  <1>2. /\ data \in Seq(Nat) /\ Len(data) \in Nat /\ Len(msgs) \in Nat /\ nSize \in Nat
        /\ k \in 1 .. Len(msgs) + 1 /\ pos[k] \in Nat
        /\ Holds(data, cells, pos[k])
        /\ reading => nRead = pos[k] + Len(data)
    BY FollowsParts
  <1>3. Current' = k + 1
    BY <1>1 DEF Current
  <1>4. k \in 1 .. Len(msgs) /\ nSize + 1 <= Len(data) /\ pos[k + 1] = pos[k] + 1 + nSize
    BY <1>1, CurrentMessage
  <1>5. iBuffer'.data = rest
    <2>1. Len(data) = GetLen(iBuffer)
      BY DEF GetLen
    <2> QED
      BY <1>1, <2>1 DEF RemoveBuffer
  <1>6. Holds(rest, cells, pos[k] + (nSize + 1)) /\ Len(rest) = Len(data) - (nSize + 1)
    <2> HIDE DEF k, data
    <2>1. ASSUME NEW n \in Nat, n = nSize + 1
          PROVE  /\ Holds(SubSeq(data, n + 1, Len(data)), cells, pos[k] + n)
                 /\ Len(SubSeq(data, n + 1, Len(data))) = Len(data) - n
      <3>1. n <= Len(data)
        BY <1>4, <2>1
      <3>2. data \in Seq(Nat) /\ pos[k] \in Nat /\ Holds(data, cells, pos[k])
        BY <1>2
      <3> QED
        BY <2>1, <3>1, <3>2, HoldsRest
    <2>2. nSize + 1 \in Nat
      BY <1>2
    <2> QED
      BY <2>1, <2>2 DEF rest
  <1> HIDE DEF k, data, rest
  <1>7. pos[k + 1] = pos[k] + (nSize + 1) /\ k + 1 \in 1 .. Len(msgs) + 1
    <2>1. /\ pos[k] \in Nat /\ nSize \in Nat /\ Len(msgs) \in Nat /\ k \in 1 .. Len(msgs)
          /\ pos[k + 1] = pos[k] + 1 + nSize
      BY <1>2, <1>4
    <2>2. \A x, n \in Nat : x + 1 + n = x + (n + 1)
      OBVIOUS
    <2>3. k + 1 \in 1 .. Len(msgs) + 1
      BY <2>1
    <2> QED
      BY <2>1, <2>2, <2>3
  <1>8. reading => nRead = pos[k + 1] + Len(rest)
    BY <1>2, <1>6, <1>7, SMTT(30)
  <1>9. reading => \E m \in 1 .. Len(msgs) + 1 : AtFrame(msgs, pos, m)
    BY DEF Follows
  <1>10. \A m : AtFrame(msgs, pos, m)' = AtFrame(msgs, pos, m)
    BY <1>1 DEF AtFrame
  <1>11. /\ Len(delivered) <= Len(msgs)
         /\ \A i \in 1 .. Len(delivered) : delivered[i] = msgs[i]
    BY DEF Follows
  <1> QED
    BY <1>1, <1>3, <1>5, <1>6, <1>7, <1>8, <1>9, <1>10, <1>11 DEF Follows

(* A step of the io thread or of the main loop goes on following. *)
LEMMA FollowsStep ==
    ASSUME RecvTypeOK, MessageStable,
           NEW cells \in Seq(Nat), NEW msgs \in Seq(Seq(Nat)), NEW pos,
           Framed(cells, msgs, pos), Front(stream, cells),
           Undamaged => Follows(cells, msgs, pos),
           IoNext \/ MainNext
    PROVE  Undamaged' => Follows(cells, msgs, pos)'
  <1> SUFFICES ASSUME Undamaged' PROVE Follows(cells, msgs, pos)'
    OBVIOUS
  <1>1. Follows(cells, msgs, pos)
    BY StoreMonotonic DEF Undamaged
  <1>2. CASE RecvHead
    BY <1>1, <1>2, FollowsHead
  <1>3. CASE RecvBody
    BY <1>1, <1>3, FollowsBody
  <1>4. CASE RecvError \/ TimerExpire \/ HandleWait
    <2>1. /\ UNCHANGED <<iBuffer, nRead, eRecvStage, nBodyLen, mainPc, delivered>>
          /\ reading' => reading
      BY <1>4 DEF RecvError, TimerExpire, HandleWait, readVars, mainVars
    <2> QED
      BY <1>1, <2>1 DEF Follows, Current, AtFrame
  <1>5. CASE ReadMsg
    <2>1. /\ UNCHANGED <<iBuffer, reading, nRead, eRecvStage, nBodyLen, delivered>>
          /\ mainPc = "read" /\ mainPc' \in {"exit", "call"}
      BY <1>5 DEF ReadMsg, readVars
    <2>2. Current' = Current
      BY <2>1 DEF Current
    <2> QED
      BY <1>1, <2>1, <2>2 DEF Follows, AtFrame
  <1>6. CASE OnMsg
    BY <1>1, <1>6, FollowsOnMsg
  <1>7. CASE RemoveMsg
    BY <1>1, <1>7, FollowsRemove
  <1> QED
    BY <1>2, <1>3, <1>4, <1>5, <1>6, <1>7 DEF IoNext, RecvDone, MainNext

-----------------------------------------------------------------------------
(* The peer and the network.                                               *)

LEMMA SentMessages ==
    ASSUME RecvTypeOK
    PROVE  sent \in Seq(Seq(Nat))
  <1>1. sent \in [1 .. Len(sent) -> Bodies] /\ Len(sent) \in Nat
    BY LenProperties DEF RecvTypeOK
  <1>2. sent \in [1 .. Len(sent) -> Seq(Nat)]
    BY <1>1, RecvAssumption DEF RecvAssumption
  <1> QED
    BY <1>1, <1>2, SeqDef

(* What has arrived is the front of all that was sent. *)
LEMMA StreamFront ==
    ASSUME NEW s \in Seq(Nat), NEW t \in Seq(Nat)
    PROVE  s \o t \in Seq(Nat) /\ Front(s, s \o t)
  <1>1. s \o t \in Seq(Nat)
    BY ConcatProperties
  <1> QED
    BY <1>1, FrontKept DEF Front

(* The frame of a message is behind all others until it arrives. *)
LEMMA PeerSendStep ==
    ASSUME RecvInv, NEW body \in Bodies, PeerSend(body)
    PROVE  RecvInv'
  <1>1. /\ stream \in Seq(Nat) /\ outgoing = <<>> /\ body \in Seq(Nat)
        /\ sent \in Seq(Bodies) /\ sent \in Seq(Seq(Nat)) /\ RecvTypeOK
        /\ sent' = Append(sent, body) /\ outgoing' = Frame(body)
        /\ UNCHANGED <<stream, nRead, eRecvStage, nBodyLen, reading, iBuffer, bExit,
                       timerOn, timerFired, mainPc, nSize, delivered, refused, cut>>
    BY SentMessages, RecvAssumption
       DEF RecvInv, RecvTypeOK, PeerSend, RecvAssumption, readVars, timerVars, mainVars, damage
  <1>2. stream \o outgoing = stream
    BY <1>1, ConcatEmptySeq
  <1>3. PICK pos : Framed(stream, sent, pos) /\ (Undamaged => Follows(stream, sent, pos))
    BY <1>2 DEF RecvInv
  <1>4. PICK new : /\ Framed(stream \o Frame(body), Append(sent, body), new)
                   /\ \A m \in 1 .. Len(sent) + 1 : new[m] = pos[m]
    BY <1>1, <1>3, FramedAppend
  <1>5. Frame(body) \in Seq(Nat)
    <2>1. Len(body) \in Nat /\ <<Len(body)>> \in Seq(Nat)
      BY <1>1, LenProperties
    <2> QED
      BY <1>1, <2>1, ConcatProperties DEF Frame
  <1>6. stream \o Frame(body) \in Seq(Nat) /\ Front(stream, stream \o Frame(body))
    BY <1>1, <1>5, StreamFront
  <1>7. Append(sent, body) \in Seq(Seq(Nat)) /\ Front(sent, Append(sent, body))
    <2>1. Len(sent) \in Nat
      BY <1>1, LenProperties
    <2> QED
      BY <1>1, <2>1, AppendProperties DEF Front
  <1>8. Undamaged => Follows(stream \o Frame(body), Append(sent, body), new)
    BY <1>1, <1>3, <1>4, <1>6, <1>7, FollowsGrow
  <1>9. (Undamaged => Follows(stream \o outgoing, sent, new))'
    <2> DEFINE cells == stream \o outgoing
    <2>1. cells' = stream \o Frame(body) /\ sent' = Append(sent, body)
      BY <1>1
    <2> HIDE DEF cells
    <2>2. (Undamaged => Follows(cells, sent, new))'
      <3>1. Undamaged' => Undamaged
        BY <1>1 DEF Undamaged
      <3> QED
        BY <1>1, <1>8, <2>1, <3>1 DEF Follows, Current, AtFrame, Holds
    <2> QED
      BY <2>2 DEF cells
  <1>10. RecvTypeOK'
    <2>1. sent' \in Seq(Bodies)
      BY <1>1, AppendProperties
    <2> QED
      BY <1>1, <1>5, <2>1 DEF RecvTypeOK
  <1>11. MessageStable'
    BY <1>1 DEF RecvInv, MessageStable
  <1>12. Framed(stream \o outgoing, sent, new)'
    BY <1>1, <1>4 DEF Framed
  <1> QED
    BY <1>9, <1>10, <1>11, <1>12 DEF RecvInv

(* A piece of it arrives. *)
LEMMA ArriveStep ==
    ASSUME RecvInv, Arrive
    PROVE  RecvInv'
  <1>1. /\ stream \in Seq(Nat) /\ outgoing \in Seq(Nat) /\ RecvTypeOK
        /\ nRead \in 0 .. Len(stream)
        /\ UNCHANGED <<nRead, eRecvStage, nBodyLen, reading, iBuffer, bExit, sent,
                       timerOn, timerFired, mainPc, nSize, delivered, refused, cut>>
    BY DEF RecvInv, RecvTypeOK, Arrive, readVars, timerVars, mainVars, damage
  <1>2. PICK n \in 1 .. Len(outgoing) :
           /\ stream' = stream \o SubSeq(outgoing, 1, n)
           /\ outgoing' = SubSeq(outgoing, n + 1, Len(outgoing))
    BY DEF Arrive
  <1> DEFINE a == SubSeq(outgoing, 1, n)
             b == SubSeq(outgoing, n + 1, Len(outgoing))
  <1>3. Len(outgoing) \in Nat /\ n \in Nat /\ n <= Len(outgoing)
    BY <1>1, LenProperties
  <1>4. a \in Seq(Nat) /\ b \in Seq(Nat)
    <2>1. \A i \in 1 .. n : outgoing[i] \in Nat
      BY <1>1, <1>3, ElementOfSeq
    <2>2. \A i \in n + 1 .. Len(outgoing) : outgoing[i] \in Nat
      BY <1>1, <1>3, ElementOfSeq
    <2>3. 1 \in Int /\ n \in Int /\ n + 1 \in Int /\ Len(outgoing) \in Int
      BY <1>3
    <2> QED
      BY <2>1, <2>2, <2>3, SubSeqProperties
  <1>5. a \o b = outgoing
    <2>1. a \o b = SubSeq(outgoing, 1, Len(outgoing))
      <3>1. 1 \in 1 .. Len(outgoing) + 1 /\ n \in 1 - 1 .. Len(outgoing)
            /\ Len(outgoing) \in n .. Len(outgoing)
        BY <1>3
      <3> QED
        BY ONLY <1>1, <3>1, ConcatAdjacentSubSeq
    <2> QED
      BY <1>1, <2>1, SubSeqFull
  <1> HIDE DEF a, b
  <1>6. (stream \o outgoing)' = stream \o outgoing
    <2>1. (stream \o a) \o b = stream \o (a \o b)
      <3>1. stream \in Seq(Nat) /\ a \in Seq(Nat) /\ b \in Seq(Nat)
        BY <1>1, <1>4
      <3> QED
        BY ONLY <3>1, ConcatAssociative, SMTT(30)
    <2> QED
      BY <1>2, <1>5, <2>1 DEF a, b
  <1>7. stream' \in Seq(Nat) /\ nRead \in 0 .. Len(stream') /\ outgoing' \in Seq(Nat)
    <2>1. stream \o a \in Seq(Nat) /\ Front(stream, stream \o a)
      BY <1>1, <1>4, StreamFront
    <2>2. Len(stream) \in Nat /\ Len(stream \o a) \in Nat
      BY <1>1, <2>1, LenProperties
    <2> QED
      BY <1>1, <1>2, <1>4, <2>1, <2>2 DEF Front, a, b
  <1>8. RecvTypeOK'
    BY <1>1, <1>7 DEF RecvTypeOK
  <1>9. MessageStable'
    BY <1>1 DEF RecvInv, MessageStable
  <1>10. PICK pos : /\ Framed(stream \o outgoing, sent, pos)
                    /\ Undamaged => Follows(stream \o outgoing, sent, pos)
    BY DEF RecvInv
  <1>11. Framed(stream \o outgoing, sent, pos)' /\ (Undamaged => Follows(stream \o outgoing, sent, pos))'
    <2> DEFINE cells == stream \o outgoing
    <2>1. cells' = cells
      BY <1>6
    <2> HIDE DEF cells
    <2>2. Framed(cells, sent, pos) /\ (Undamaged => Follows(cells, sent, pos))
      BY <1>10 DEF cells
    <2>3. Framed(cells, sent, pos)' /\ (Undamaged => Follows(cells, sent, pos))'
      BY <1>1, <2>1, <2>2 DEF Framed, Undamaged, Follows, Current, AtFrame, Holds
    <2> QED
      BY <2>3 DEF cells
  <1> QED
    BY <1>8, <1>9, <1>11 DEF RecvInv

-----------------------------------------------------------------------------
LEMMA RecvInvInit ==
    ASSUME RecvInit
    PROVE  RecvInv
  <1>1. RecvTypeOK
    <2>1. Len(<<>>) = 0 /\ \A S : <<>> \in Seq(S)
      BY EmptySeq
    <2>2. /\ iBuffer \in Buffer(Nat) /\ iBuffer.max = CacheSize /\ InBounds(iBuffer)
      <3>1. <<>> \in Seq(Nat) /\ CacheSize \in Nat
        BY RecvAssumption, <2>1 DEF RecvAssumption
      <3> QED
        BY <2>1, <3>1 DEF RecvInit, InitBuffer, Buffer, InBounds, GetLen
    <2>3. Timeout \in BOOLEAN /\ 0 \in 0 .. MaxRecv
      BY RecvAssumption DEF RecvAssumption
    <2>4. /\ stream \in Seq(Nat) /\ sent \in Seq(Bodies)
          /\ outgoing \in Seq(Nat) /\ delivered \in Seq(Seq(Nat))
      BY <2>1 DEF RecvInit
    <2>5. nRead \in 0 .. Len(stream)
      BY <2>1 DEF RecvInit
    <2>6. /\ eRecvStage \in {"HEAD", "BODY"} /\ nBodyLen \in 0 .. MaxRecv
          /\ {reading, bExit, timerOn, timerFired, refused, cut} \subseteq BOOLEAN
          /\ mainPc \in {"read", "call", "remove", "exit"} /\ nSize \in Nat
      BY <2>3 DEF RecvInit
    <2> QED
      BY <2>2, <2>4, <2>5, <2>6 DEF RecvTypeOK
  <1>2. MessageStable
    BY DEF RecvInit, MessageStable
  <1> DEFINE pos == [m \in 1 .. 1 |-> 0]
  <1>3. stream \o outgoing = <<>> /\ sent = <<>> /\ Len(sent) = 0 /\ Len(<<>>) = 0
    BY EmptySeq, ConcatEmptySeq DEF RecvInit
  <1>4. Framed(stream \o outgoing, sent, pos)
    BY <1>3 DEF Framed
  <1>5. Follows(stream \o outgoing, sent, pos)
    <2>1. Current = 1 /\ Len(delivered) = 0 /\ Len(iBuffer.data) = 0
          /\ nRead = 0 /\ eRecvStage = "HEAD"
      BY EmptySeq DEF RecvInit, Current, InitBuffer
    <2>2. AtFrame(sent, pos, 1)
      BY <2>1 DEF AtFrame
    <2> QED
      BY <1>3, <2>1, <2>2 DEF Follows, Holds
  <1> QED
    BY <1>1, <1>2, <1>4, <1>5 DEF RecvInv

LEMMA RecvInvStep ==
    ASSUME RecvInv, [RecvNext]_recvVars
    PROVE  RecvInv'
  <1>1. CASE IoNext \/ MainNext
    <2>1. /\ stream \in Seq(Nat) /\ outgoing \in Seq(Nat)
          /\ RecvTypeOK /\ MessageStable /\ sent \in Seq(Seq(Nat))
      BY SentMessages DEF RecvInv, RecvTypeOK
    <2>2. UNCHANGED <<stream, outgoing, sent>>
      BY <1>1 DEF IoNext, MainNext, RecvDone, RecvHead, RecvBody, RecvError, TimerExpire,
                  HandleWait, ReadMsg, OnMsg, RemoveMsg, peerVars
    <2>3. RecvTypeOK' /\ MessageStable'
      BY <1>1, <2>1, TypeStep, StableStep
    <2>4. PICK pos : /\ Framed(stream \o outgoing, sent, pos)
                     /\ Undamaged => Follows(stream \o outgoing, sent, pos)
      BY DEF RecvInv
    <2>5. ASSUME NEW cells, cells = stream \o outgoing, NEW msgs, msgs = sent
          PROVE  Undamaged' => Follows(cells, msgs, pos)'
      <3>1. cells \in Seq(Nat) /\ Front(stream, cells) /\ msgs \in Seq(Seq(Nat))
        BY <2>1, <2>5, StreamFront
      <3>2. Framed(cells, msgs, pos) /\ (Undamaged => Follows(cells, msgs, pos))
        BY <2>4, <2>5
      <3> QED
        BY <1>1, <2>1, <3>1, <3>2, FollowsStep
    <2>6. Framed(stream \o outgoing, sent, pos)' /\ (Undamaged => Follows(stream \o outgoing, sent, pos))'
      BY <2>2, <2>4, <2>5 DEF Framed, Follows
    <2> QED
      BY <2>3, <2>6 DEF RecvInv
  <1>2. CASE PeerNext
    BY <1>2, PeerSendStep, ArriveStep DEF PeerNext
  <1>3. CASE UNCHANGED recvVars
    <2>1. UNCHANGED <<stream, nRead, eRecvStage, nBodyLen, reading, iBuffer, bExit, timerOn, timerFired,
                      mainPc, nSize, delivered, sent, outgoing, refused, cut>>
      BY <1>3 DEF recvVars, readVars, timerVars, mainVars, peerVars, damage
    <2>2. RecvTypeOK'
      BY <2>1 DEF RecvInv, RecvTypeOK, InBounds, GetLen
    <2>3. MessageStable'
      BY <2>1 DEF RecvInv, MessageStable
    <2>4. PICK pos : /\ Framed(stream \o outgoing, sent, pos)
                     /\ Undamaged => Follows(stream \o outgoing, sent, pos)
      BY DEF RecvInv
    <2>5. Framed(stream \o outgoing, sent, pos)'
      BY <2>1, <2>4 DEF Framed
    <2>6. (Undamaged => Follows(stream \o outgoing, sent, pos))'
      BY <2>1, <2>4 DEF Undamaged, Follows, Current, AtFrame, Holds
    <2> QED
      BY <2>2, <2>3, <2>5, <2>6 DEF RecvInv
  <1> QED
    BY <1>1, <1>2, <1>3 DEF RecvNext

THEOREM RecvInvariant == RecvSpec => []RecvInv
  <1>1. RecvInit => RecvInv
    BY RecvInvInit
  <1>2. RecvInv /\ [RecvNext]_recvVars => RecvInv'
    BY RecvInvStep
  <1> QED
    BY <1>1, <1>2, PTL DEF RecvSpec

(* m_cIBuffer never reaches past its array, nor m_nBodyLen past the size   *)
(* that the connection was made for, whatever lengths the peer announces.  *)
THEOREM RecvTypeCorrect == RecvSpec => []RecvTypeOK
  <1>1. RecvInv => RecvTypeOK
    BY DEF RecvInv
  <1> QED
    BY <1>1, RecvInvariant, PTL

(* The callback's pointer into m_cIBuffer stays good while the io thread   *)
(* stores more behind it, and RemoveBuffer finds what it is to drop.       *)
THEOREM MessageStaysPut == RecvSpec => []MessageStable
  <1>1. RecvInv => MessageStable
    BY DEF RecvInv
  <1> QED
    BY <1>1, RecvInvariant, PTL

(* As long as nothing was cut or refused, the callbacks have seen the      *)
(* front of what the peer sent: in order, each message once and intact.    *)
LEMMA FollowsInOrder ==
    ASSUME RecvTypeOK, NEW cells, NEW msgs \in Seq(Seq(Nat)), NEW pos,
           Follows(cells, msgs, pos)
    PROVE  Len(delivered) <= Len(msgs) /\ delivered = SubSeq(msgs, 1, Len(delivered))
  <1>1. /\ Len(delivered) \in Nat /\ Len(msgs) \in Nat /\ Len(delivered) <= Len(msgs)
        /\ delivered \in Seq(Seq(Nat))
        /\ \A i \in 1 .. Len(delivered) : delivered[i] = msgs[i]
    BY LenProperties DEF RecvTypeOK, Follows
  <1> DEFINE front == SubSeq(msgs, 1, Len(delivered))
  <1>2. /\ front \in Seq(Seq(Nat))
        /\ Len(front) = IF 1 <= Len(delivered) THEN Len(delivered) - 1 + 1 ELSE 0
        /\ \A i \in 1 .. Len(delivered) - 1 + 1 : front[i] = msgs[1 + i - 1]
    <2>1. \A i \in 1 .. Len(delivered) : msgs[i] \in Seq(Nat)
      BY <1>1, ElementOfSeq
    <2>2. 1 \in Int /\ Len(delivered) \in Int
      BY <1>1
    <2> QED
      BY <2>1, <2>2, SubSeqProperties
  <1> HIDE DEF front
  <1>3. Len(front) = Len(delivered)
    BY <1>1, <1>2
  <1>4. \A i \in 1 .. Len(delivered) : front[i] = delivered[i]
    <2> TAKE i \in 1 .. Len(delivered)
    <2>1. i \in 1 .. Len(delivered) - 1 + 1 /\ 1 + i - 1 = i
      BY <1>1
    <2> QED
      BY <1>1, <1>2, <2>1
  <1>5. front = delivered
    BY <1>1, <1>2, <1>3, <1>4, SeqEqual
  <1> QED
    BY <1>1, <1>5 DEF front

THEOREM DeliveredInOrder == RecvSpec => []DeliveredPrefix
  <1>1. RecvInv => DeliveredPrefix
    <2> SUFFICES ASSUME RecvInv, Undamaged PROVE InOrder
      BY DEF DeliveredPrefix
    <2>1. RecvTypeOK /\ sent \in Seq(Seq(Nat))
      BY SentMessages DEF RecvInv
    <2>2. PICK pos : Follows(stream \o outgoing, sent, pos)
      BY DEF RecvInv
    <2> QED
      BY <2>1, <2>2, FollowsInOrder DEF InOrder
  <1> QED
    BY <1>1, RecvInvariant, PTL
=============================================================================
