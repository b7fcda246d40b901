------------------------- MODULE NetSocketSendProofs -------------------------
(***************************************************************************)
(* The sending half keeps the cells it accepted: for every set of bodies,  *)
(* every buffer and chunk size and every interleaving of the two threads.  *)
(* The inductive invariant is SendInv of NetSocketSend.                    *)
(***************************************************************************)
EXTENDS NetSocketSend, SequenceTheorems, TLAPS

-----------------------------------------------------------------------------
(* The container: what its operations preserve and return, for every size  *)
(* and every kind of cell.                                                 *)

(* A fresh or cleared container is empty and within its array. *)
LEMMA InitBufferType ==
    ASSUME NEW Cell, NEW max \in Nat
    PROVE  /\ InitBuffer(max) \in Buffer(Cell)
           /\ InitBuffer(max).max = max
           /\ InBounds(InitBuffer(max))
           /\ InitBuffer(max).data = <<>>
  BY EmptySeq DEF InitBuffer, Buffer, InBounds, GetLen

(* Write either appends all the cells or none, and never leaves the array: *)
(* the memcpy of NetIOBuffer::Write stays inside m_pBuffer.                *)
LEMMA WriteProperties ==
    ASSUME NEW Cell, NEW b \in Buffer(Cell), NEW cells \in Seq(Cell), InBounds(b)
    PROVE  /\ Write(b, cells) \in Buffer(Cell)
           /\ Write(b, cells).max = b.max
           /\ Write(b, cells).begin = b.begin
           /\ InBounds(Write(b, cells))
           /\ Write(b, cells).data = IF Fits(b, cells) THEN b.data \o cells ELSE b.data
  <1>1. /\ b.data \o cells \in Seq(Cell)
        /\ Len(b.data \o cells) = Len(b.data) + Len(cells)
    BY ConcatProperties DEF Buffer
  <1>2. Len(b.data) \in Nat /\ Len(cells) \in Nat
    BY LenProperties DEF Buffer
  <1>3. CASE Fits(b, cells)
    <2>1. Write(b, cells) = [max |-> b.max, begin |-> b.begin, data |-> b.data \o cells]
      BY <1>3 DEF Write, Buffer
    <2> QED
      BY <1>1, <1>2, <1>3, <2>1 DEF Buffer, InBounds, Fits, GetSpace, GetLen
  <1>4. CASE ~Fits(b, cells)
    BY <1>4 DEF Write
  <1> QED
    BY <1>3, <1>4

(* RemoveBuffer drops the first n cells, keeps the rest in order, and moves *)
(* m_nBegin so that the bounds still hold.                                 *)
LEMMA RemoveProperties ==
    ASSUME NEW Cell, NEW b \in Buffer(Cell), InBounds(b), NEW n \in 0 .. GetLen(b)
    PROVE  /\ RemoveBuffer(b, n) \in Buffer(Cell)
           /\ RemoveBuffer(b, n).max = b.max
           /\ InBounds(RemoveBuffer(b, n))
           /\ GetLen(RemoveBuffer(b, n)) = GetLen(b) - n
           /\ b.data = SubSeq(b.data, 1, n) \o RemoveBuffer(b, n).data
  <1> DEFINE rest == SubSeq(b.data, n + 1, Len(b.data))
             begin == IF rest = <<>> THEN 0 ELSE b.begin + n
  <1>1. b.data \in Seq(Cell) /\ Len(b.data) \in Nat /\ n \in 0 .. Len(b.data)
    BY LenProperties DEF Buffer, GetLen
  <1>2. /\ rest \in Seq(Cell)
        /\ Len(rest) = Len(b.data) - n
    <2>1. \A i \in n + 1 .. Len(b.data) : b.data[i] \in Cell
      BY <1>1, ElementOfSeq
    <2>2. /\ rest \in Seq(Cell)
          /\ Len(rest) = IF n + 1 <= Len(b.data) THEN Len(b.data) - (n + 1) + 1 ELSE 0
      BY <1>1, <2>1, SubSeqProperties
    <2> QED
      BY <1>1, <2>2
  <1>3. RemoveBuffer(b, n) = [max |-> b.max, begin |-> begin, data |-> rest]
    BY DEF RemoveBuffer
  <1>4. b.data = SubSeq(b.data, 1, n) \o rest
    <2>1. SubSeq(b.data, 1, n) \o SubSeq(b.data, n + 1, Len(b.data))
            = SubSeq(b.data, 1, Len(b.data))
      <3>1. /\ 1 \in 1 .. Len(b.data) + 1
            /\ n \in 1 - 1 .. Len(b.data)
            /\ Len(b.data) \in n .. Len(b.data)
        BY <1>1
      <3> QED
        BY ONLY <1>1, <3>1, ConcatAdjacentSubSeq
    <2> QED
      BY <1>1, <2>1, SubSeqFull
  <1>5. Len(rest) = 0 => rest = <<>>
    BY <1>2, EmptySeq
  <1>6. /\ b.max \in Nat
        /\ b.begin \in Nat
        /\ b.begin + Len(b.data) <= b.max
    BY DEF Buffer, InBounds, GetLen
  <1>7. begin \in Nat /\ begin + Len(rest) <= b.max
    BY <1>1, <1>2, <1>5, <1>6, EmptySeq
  <1> HIDE DEF rest, begin
  <1>8. RemoveBuffer(b, n) \in Buffer(Cell)
    BY <1>2, <1>3, <1>6, <1>7 DEF Buffer
  <1> QED
    BY <1>2, <1>3, <1>4, <1>7, <1>8 DEF InBounds, GetLen

(* ReadRemove hands out a prefix of the contents and keeps the rest. *)
LEMMA ReadRemoveProperties ==
    ASSUME NEW Cell, NEW b \in Buffer(Cell), InBounds(b), NEW n \in Nat
    PROVE  /\ ReadSize(b, n) \in 0 .. n
           /\ ReadSize(b, n) \in 0 .. GetLen(b)
           /\ ReadCells(b, n) \in Seq(Cell)
           /\ Len(ReadCells(b, n)) = ReadSize(b, n)
           /\ ReadRemove(b, n) \in Buffer(Cell)
           /\ ReadRemove(b, n).max = b.max
           /\ InBounds(ReadRemove(b, n))
           /\ b.data = ReadCells(b, n) \o ReadRemove(b, n).data
  <1>1. b.data \in Seq(Cell) /\ GetLen(b) \in Nat /\ GetLen(b) = Len(b.data)
    BY LenProperties DEF Buffer, GetLen
  <1>2. ReadSize(b, n) \in 0 .. n /\ ReadSize(b, n) \in 0 .. GetLen(b)
    BY <1>1 DEF ReadSize
  <1>3. /\ SubSeq(b.data, 1, ReadSize(b, n)) \in Seq(Cell)
        /\ Len(SubSeq(b.data, 1, ReadSize(b, n))) = ReadSize(b, n)
    <2>1. \A i \in 1 .. ReadSize(b, n) : b.data[i] \in Cell
      BY <1>1, <1>2, ElementOfSeq
    <2> QED
      BY <1>1, <1>2, <2>1, SubSeqProperties
  <1> QED
    BY <1>2, <1>3, RemoveProperties DEF ReadCells, ReadRemove

-----------------------------------------------------------------------------
(* Sequences of cells.                                                     *)

(* A sequence is the front of itself followed by anything. *)
LEMMA FrontOfConcat ==
    ASSUME NEW S, NEW s \in Seq(S), NEW t \in Seq(S)
    PROVE  SubSeq(s \o t, 1, Len(s)) = s
  <1>1. Len(s) \in Nat
    BY LenProperties
  <1>2. CASE Len(s) = 0
    <2>1. s = <<>>
      BY <1>2, EmptySeq
    <2> QED
      BY <1>2, <2>1, SubSeqEmpty
  <1>3. CASE Len(s) > 0
    <2>1. SubSeq(s \o t, 1, Len(s)) = SubSeq(s, 1, Len(s))
      BY <1>1, <1>3, SubSeqOfConcat1
    <2> QED
      BY <2>1, SubSeqFull
  <1> QED
    BY <1>1, <1>2, <1>3

(* A prefix stays a prefix when cells are appended behind it. *)
LEMMA PrefixOfConcat ==
    ASSUME NEW S, NEW s \in Seq(S), NEW t \in Seq(S), NEW n \in 0 .. Len(s)
    PROVE  SubSeq(s \o t, 1, n) = SubSeq(s, 1, n)
  <1>1. Len(s) \in Nat
    BY LenProperties
  <1>2. CASE n = 0
    BY <1>2, SubSeqEmpty
  <1>3. CASE n > 0
    BY <1>1, <1>3, SubSeqOfConcat1
  <1> QED
    BY <1>1, <1>2, <1>3

(* Concatenation of cells is associative. *)
LEMMA CellsAssociative ==
    \A r, s, t \in Seq(Nat) : (r \o s) \o t = r \o (s \o t)
  BY ConcatAssociative, SMTT(30)

(* The front of a sequence of cells is a sequence of cells. *)
LEMMA FrontType ==
    ASSUME NEW S, NEW s \in Seq(S), NEW n \in 0 .. Len(s)
    PROVE  SubSeq(s, 1, n) \in Seq(S) /\ Len(SubSeq(s, 1, n)) = n
  <1>1. Len(s) \in Nat
    BY LenProperties
  <1>2. \A i \in 1 .. n : s[i] \in S
    BY <1>1, ElementOfSeq
  <1> QED
    BY <1>1, <1>2, SubSeqProperties

(* memcpy puts the cells in front of whatever lay behind them. *)
LEMMA OverlayProperties ==
    ASSUME NEW cells \in Seq(Nat), arrSendBuffer \in Seq(Nat)
    PROVE  /\ Overlay(cells) \in Seq(Nat)
           /\ Len(Overlay(cells)) >= Len(cells)
           /\ SubSeq(Overlay(cells), 1, Len(cells)) = cells
  <1> DEFINE back == SubSeq(arrSendBuffer, Len(cells) + 1, Len(arrSendBuffer))
  <1>1. Len(cells) \in Nat /\ Len(arrSendBuffer) \in Nat
    BY LenProperties
  <1>2. back \in Seq(Nat)
    <2>1. \A i \in Len(cells) + 1 .. Len(arrSendBuffer) : arrSendBuffer[i] \in Nat
      BY <1>1, ElementOfSeq
    <2> QED
      BY <1>1, <2>1, SubSeqProperties
  <1> HIDE DEF back
  <1>3. Len(back) \in Nat
    BY <1>2, LenProperties
  <1>4. cells \o back \in Seq(Nat) /\ Len(cells \o back) = Len(cells) + Len(back)
    BY <1>2, ConcatProperties
  <1>5. SubSeq(cells \o back, 1, Len(cells)) = cells
    BY <1>2, FrontOfConcat
  <1>6. Overlay(cells) = cells \o back
    BY DEF Overlay, back
  <1> QED
    BY <1>1, <1>3, <1>4, <1>5, <1>6

(* Whatever the front of m_arrSendBuffer holds, it is cells. *)
LEMMA FrontCellsType ==
    ASSUME NEW n \in Nat, arrSendBuffer \in Seq(Nat)
    PROVE  FrontCells(n) \in Seq(Nat) /\ Len(FrontCells(n)) = n
  <1>1. FrontCells(n) \in [1 .. n -> Nat]
    BY ElementOfSeq, LenProperties DEF FrontCells
  <1>2. FrontCells(n) \in Seq(Nat)
    BY <1>1, SeqDef
  <1>3. DOMAIN FrontCells(n) = 1 .. n /\ DOMAIN FrontCells(n) = 1 .. Len(FrontCells(n))
    BY <1>1, <1>2, LenProperties
  <1>4. Len(FrontCells(n)) \in Nat
    BY <1>2, LenProperties
  <1> QED
    BY <1>2, <1>3, <1>4

(* ReadRemove into m_arrSendBuffer: the cells copied are the front of the  *)
(* buffer, and the write about to start covers exactly those.              *)
LEMMA CopyOutProperties ==
    ASSUME SendTypeOK, SendAssumption, CopyOut
    PROVE  /\ oBuffer' \in Buffer(Nat)
           /\ oBuffer'.max = oBuffer.max
           /\ InBounds(oBuffer')
           /\ arrSendBuffer' \in Seq(Nat)
           /\ nSend' \in 0 .. SendoutSize
           /\ nSend' <= Len(arrSendBuffer')
           /\ SubSeq(arrSendBuffer', 1, nSend') \in Seq(Nat)
           /\ oBuffer.data = SubSeq(arrSendBuffer', 1, nSend') \o oBuffer'.data
  <1> DEFINE cells == ReadCells(oBuffer, SendoutSize)
  <1>1. /\ oBuffer \in Buffer(Nat)
        /\ InBounds(oBuffer)
        /\ SendoutSize \in Nat
        /\ arrSendBuffer \in Seq(Nat)
    BY DEF SendTypeOK, SendAssumption
  <1>2. /\ ReadSize(oBuffer, SendoutSize) \in 0 .. SendoutSize
        /\ cells \in Seq(Nat)
        /\ Len(cells) = ReadSize(oBuffer, SendoutSize)
        /\ ReadRemove(oBuffer, SendoutSize) \in Buffer(Nat)
        /\ ReadRemove(oBuffer, SendoutSize).max = oBuffer.max
        /\ InBounds(ReadRemove(oBuffer, SendoutSize))
        /\ oBuffer.data = cells \o ReadRemove(oBuffer, SendoutSize).data
    BY <1>1, ReadRemoveProperties
  <1> HIDE DEF cells
  <1>3. /\ Overlay(cells) \in Seq(Nat)
        /\ Len(Overlay(cells)) >= Len(cells)
        /\ SubSeq(Overlay(cells), 1, Len(cells)) = cells
    BY <1>1, <1>2, OverlayProperties
  <1>4. /\ oBuffer' = ReadRemove(oBuffer, SendoutSize)
        /\ arrSendBuffer' = Overlay(cells)
        /\ nSend' = Len(cells)
    BY <1>2 DEF CopyOut, cells
  <1> QED
    BY <1>2, <1>3, <1>4
----------------------------------------------------------------------------
(* The initial state satisfies the invariant. *)
LEMMA SendInvInit == SendInit => SendInv
  <1> SUFFICES ASSUME SendInit PROVE SendInv
    OBVIOUS
  <1>1. CacheSize \in Nat /\ SendoutSize \in Nat \ {0}
    BY SendAssumption DEF SendAssumption
  <1>2. /\ InitBuffer(CacheSize) \in Buffer(Nat)
        /\ InitBuffer(CacheSize).max = CacheSize
        /\ InBounds(InitBuffer(CacheSize))
        /\ InitBuffer(CacheSize).data = <<>>
    BY <1>1, InitBufferType
  <1>3. <<>> \in Seq(Nat) /\ <<>> \in Seq(Bodies)
    BY EmptySeq
  <1>4. SendTypeOK
    <2>1. oBuffer = InitBuffer(CacheSize)
      BY DEF SendInit
    <2>2. oBuffer \in Buffer(Nat) /\ oBuffer.max = CacheSize /\ InBounds(oBuffer)
      BY <1>2, <2>1
    <2>3. /\ bSending \in BOOLEAN /\ bExit \in BOOLEAN
          /\ refused \in BOOLEAN /\ resent \in BOOLEAN
      BY Zenon DEF SendInit
    <2>6. nSend \in 0 .. SendoutSize
      <3>1. nSend = 0
        BY DEF SendInit
      <3> QED
        BY <1>1, <3>1
    <2>4. mainPc \in MainSteps /\ ioPc \in IoSteps
      BY DEF SendInit, MainSteps, IoSteps
    <2>5. /\ arrSendBuffer \in Seq(Nat) /\ stream \in Seq(Nat)
          /\ parked \in Seq(Bodies) /\ accepted \in Seq(Nat)
      BY <1>3 DEF SendInit
    <2> QED
      BY <2>2, <2>3, <2>4, <2>5, <2>6 DEF SendTypeOK
  <1>5. StreamIntegrity
    <2>1. (stream \o Owed) \o oBuffer.data = accepted
      BY <1>2, <1>3, ConcatEmptySeq DEF SendInit, Owed
    <2> QED
      BY <2>1 DEF StreamIntegrity, SendInit
  <1>6. nSend <= Len(arrSendBuffer)
    BY EmptySeq DEF SendInit
  <1> QED
    BY <1>4, <1>5, <1>6 DEF SendInv, SingleWriter, SendInit

(* A Write of ParkMsg keeps the types, and appends to the buffer what it   *)
(* appends to the history.                                                 *)
LEMMA ParkWriteProperties ==
    ASSUME SendTypeOK, NEW cells \in Seq(Nat), ParkWrite(cells)
    PROVE  /\ oBuffer' \in Buffer(Nat)
           /\ oBuffer'.max = CacheSize
           /\ InBounds(oBuffer')
           /\ accepted' \in Seq(Nat)
           /\ refused' \in BOOLEAN
           /\ \/ oBuffer'.data = oBuffer.data /\ accepted' = accepted
              \/ oBuffer'.data = oBuffer.data \o cells /\ accepted' = accepted \o cells
  <1>1. /\ oBuffer \in Buffer(Nat)
        /\ oBuffer.max = CacheSize
        /\ InBounds(oBuffer)
        /\ accepted \in Seq(Nat)
        /\ refused \in BOOLEAN
    BY DEF SendTypeOK
  <1>2. /\ Write(oBuffer, cells) \in Buffer(Nat)
        /\ Write(oBuffer, cells).max = oBuffer.max
        /\ InBounds(Write(oBuffer, cells))
        /\ Write(oBuffer, cells).data
              = IF Fits(oBuffer, cells) THEN oBuffer.data \o cells ELSE oBuffer.data
    BY <1>1, WriteProperties
  <1>3. accepted \o cells \in Seq(Nat)
    BY <1>1, ConcatProperties
  <1> QED
    BY <1>1, <1>2, <1>3 DEF ParkWrite, Fits

(* The bodies a main loop parks are sequences of cells. *)
LEMMA ParkCells ==
    /\ \A body \in Bodies : body \in Seq(Nat) /\ <<Len(body)>> \in Seq(Nat)
    /\ SendInv /\ mainPc = "body" => parked[Len(parked)] \in Bodies
  <1>1. \A body \in Bodies : body \in Seq(Nat) /\ <<Len(body)>> \in Seq(Nat)
    <2> TAKE body \in Bodies
    <2>1. body \in Seq(Nat)
      BY SendAssumption DEF SendAssumption
    <2>2. Len(body) \in Nat
      BY <2>1, LenProperties
    <2> QED
      BY <2>1, <2>2
  <1>2. ASSUME SendInv, mainPc = "body" PROVE parked[Len(parked)] \in Bodies
    <2>1. parked \in Seq(Bodies) /\ parked # <<>>
      BY <1>2 DEF SendInv, SendTypeOK
    <2>2. Len(parked) \in 1 .. Len(parked)
      BY <2>1, EmptySeq, LenProperties
    <2> QED
      BY <2>1, <2>2, ElementOfSeq
  <1> QED
    BY <1>1, <1>2

(* Every step keeps the types, the bounds of m_cOBuffer included. *)
LEMMA TypeStep ==
    ASSUME SendInv, [SendNext]_sendVars
    PROVE  /\ SendTypeOK'
           /\ (nSend <= Len(arrSendBuffer))'
           /\ (mainPc = "body" => parked # <<>>)'
  <1> USE DEF SendInv
  <1>1. ASSUME NEW body \in Bodies, ParkHead(body)
        PROVE  /\ SendTypeOK'
               /\ (nSend <= Len(arrSendBuffer))'
               /\ (mainPc = "body" => parked # <<>>)'
    <2>1. ParkWrite(<<Len(body)>>)
      BY <1>1 DEF ParkHead
    <2>2. /\ oBuffer' \in Buffer(Nat) /\ oBuffer'.max = CacheSize /\ InBounds(oBuffer')
          /\ accepted' \in Seq(Nat) /\ refused' \in BOOLEAN
      BY <2>1, ParkCells, ParkWriteProperties
    <2>3. Append(parked, body) \in Seq(Bodies) /\ Append(parked, body) # <<>>
      BY AppendProperties, SMTT(30) DEF SendTypeOK
    <2> QED
      BY <1>1, <2>1, <2>2, <2>3 DEF ParkHead, ParkWrite, SendTypeOK, MainSteps
  <1>2. CASE ParkBody
    <2>1. ParkWrite(parked[Len(parked)]) /\ mainPc = "body"
      BY <1>2 DEF ParkBody
    <2>2. /\ oBuffer' \in Buffer(Nat) /\ oBuffer'.max = CacheSize /\ InBounds(oBuffer')
          /\ accepted' \in Seq(Nat) /\ refused' \in BOOLEAN
      BY <2>1, ParkCells, ParkWriteProperties
    <2> QED
      BY <1>2, <2>1, <2>2 DEF ParkBody, ParkWrite, SendTypeOK, MainSteps
  <1>3. CASE TestSending
    BY <1>3 DEF TestSending, bufferVars, historyVars, SendTypeOK, MainSteps
  <1>4. CASE MainTake
    <2>1. CASE GetLen(oBuffer) = 0
      BY <1>4, <2>1 DEF MainTake, bufferVars, historyVars, SendTypeOK, MainSteps
    <2>2. CASE GetLen(oBuffer) # 0
      <3>1. CopyOut
        BY <1>4, <2>2 DEF MainTake
      <3> QED
        BY <1>4, <2>2, <3>1, CopyOutProperties, SendAssumption
           DEF MainTake, historyVars, SendTypeOK, MainSteps
    <2> QED
      BY <2>1, <2>2
  <1>5. CASE MainFlag
    BY <1>5 DEF MainFlag, bufferVars, historyVars, SendTypeOK, MainSteps
  <1>6. CASE MainWrite
    BY <1>6 DEF MainWrite, bufferVars, historyVars, SendTypeOK, MainSteps, IoSteps
  <1>7. CASE WriteDone
    <2>1. nSend \in 0 .. Len(arrSendBuffer)
      BY LenProperties DEF SendTypeOK
    <2>2. Sent \in Seq(Nat)
      BY <2>1, FrontType DEF Sent, SendTypeOK
    <2>3. stream \o Sent \in Seq(Nat)
      BY <2>2, ConcatProperties DEF SendTypeOK
    <2> QED
      BY <1>7, <2>3 DEF WriteDone, bufferVars, historyVars, SendTypeOK, IoSteps
  <1>8. CASE WriteFail
    <2>1. PICK n \in 0 .. nSend : stream' = stream \o SubSeq(arrSendBuffer, 1, n)
      BY <1>8 DEF WriteFail
    <2>2. n \in 0 .. Len(arrSendBuffer)
      BY LenProperties DEF SendTypeOK
    <2>3. SubSeq(arrSendBuffer, 1, n) \in Seq(Nat)
      BY <2>2, FrontType DEF SendTypeOK
    <2>4. stream' \in Seq(Nat)
      BY <2>1, <2>3, ConcatProperties DEF SendTypeOK
    <2> QED
      BY <1>8, <2>4 DEF WriteFail, bufferVars, historyVars, SendTypeOK, IoSteps
  <1>9. CASE IoTake
    <2>1. CopyOut
      BY <1>9 DEF IoTake
    <2> QED
      BY <1>9, <2>1, CopyOutProperties, SendAssumption
         DEF IoTake, historyVars, SendTypeOK, IoSteps
  <1>10. CASE IoSeeEmpty
    BY <1>10 DEF IoSeeEmpty, bufferVars, historyVars, SendTypeOK, IoSteps
  <1>11. CASE IoReload
    <2> DEFINE n == ReadSize(oBuffer, SendoutSize)
    <2>1. n \in 0 .. SendoutSize
      BY ReadRemoveProperties, SendAssumption DEF SendTypeOK, SendAssumption
    <2>2. FrontCells(n) \in Seq(Nat) /\ Len(FrontCells(n)) = n
      BY <2>1, FrontCellsType DEF SendTypeOK
    <2>3. Overlay(FrontCells(n)) \in Seq(Nat) /\ Len(Overlay(FrontCells(n))) >= n
      BY <2>2, OverlayProperties DEF SendTypeOK
    <2> HIDE DEF n
    <2>4. CASE GetLen(oBuffer) = 0
      BY <1>11, <2>4 DEF IoReload, historyVars, SendTypeOK, IoSteps
    <2>5. CASE GetLen(oBuffer) # 0
      <3>1. /\ nSend' = n
            /\ arrSendBuffer' = Overlay(FrontCells(n))
            /\ ioPc' = "wait"
            /\ resent' = TRUE
            /\ UNCHANGED <<oBuffer, parked, accepted, refused, bSending, mainPc, bExit, stream>>
        BY <1>11, <2>5 DEF IoReload, n
      <3> QED
        BY <2>1, <2>3, <3>1 DEF SendTypeOK, IoSteps
    <2> QED
      BY <2>4, <2>5
  <1>12. CASE IoClear
    BY <1>12 DEF IoClear, bufferVars, historyVars, SendTypeOK, IoSteps
  <1>13. CASE UNCHANGED sendVars
    BY <1>13 DEF sendVars, bufferVars, historyVars, SendTypeOK
  <1> QED
    BY <1>1, <1>2, <1>3, <1>4, <1>5, <1>6, <1>7, <1>8, <1>9, <1>10, <1>11, <1>12, <1>13
       DEF SendNext, MainNext, IoNext
(* Every step keeps m_arrSendBuffer and the write chain in one hand. *)
LEMMA WriterStep ==
    ASSUME SendInv, [SendNext]_sendVars
    PROVE  SingleWriter'
  <1> USE DEF SendInv, SingleWriter
  <1>1. ASSUME NEW body \in Bodies, ParkHead(body) PROVE SingleWriter'
    BY <1>1 DEF ParkHead, ParkWrite
  <1>2. CASE ParkBody
    BY <1>2 DEF ParkBody, ParkWrite
  <1>3. CASE TestSending
    BY <1>3 DEF TestSending
  <1>4. CASE MainTake
    BY <1>4 DEF MainTake
  <1>5. CASE MainFlag
    BY <1>5 DEF MainFlag
  <1>6. CASE MainWrite
    BY <1>6 DEF MainWrite
  <1>7. CASE WriteDone
    BY <1>7 DEF WriteDone
  <1>8. CASE WriteFail
    BY <1>8 DEF WriteFail
  <1>9. CASE IoTake
    BY <1>9 DEF IoTake
  <1>10. CASE IoSeeEmpty
    BY <1>10 DEF IoSeeEmpty
  <1>11. CASE IoReload
    BY <1>11 DEF IoReload
  <1>12. CASE IoClear
    BY <1>12 DEF IoClear
  <1>13. CASE UNCHANGED sendVars
    BY <1>13 DEF sendVars
  <1> QED
    BY <1>1, <1>2, <1>3, <1>4, <1>5, <1>6, <1>7, <1>8, <1>9, <1>10, <1>11, <1>12, <1>13
       DEF SendNext, MainNext, IoNext

(* The cells in the pending write are cells. *)
LEMMA OwedType ==
    ASSUME SendInv
    PROVE  Sent \in Seq(Nat) /\ Owed \in Seq(Nat)
  <1>1. nSend \in 0 .. Len(arrSendBuffer)
    BY LenProperties DEF SendInv, SendTypeOK
  <1>2. Sent \in Seq(Nat)
    BY <1>1, FrontType DEF Sent, SendInv, SendTypeOK
  <1>3. <<>> \in Seq(Nat)
    BY EmptySeq
  <1> QED
    BY <1>2, <1>3 DEF Owed

(* A step that changes neither the cells on their way nor the history      *)
(* keeps the stream intact.                                                *)
LEMMA StreamUnmoved ==
    ASSUME StreamIntegrity, UNCHANGED <<stream, accepted, resent, bExit>>,
           Owed' = Owed, oBuffer'.data = oBuffer.data
    PROVE  StreamIntegrity'
  BY DEF StreamIntegrity

(* A Write of ParkMsg appends at the end, behind everything on its way. *)
LEMMA StreamPark ==
    ASSUME SendInv, NEW cells \in Seq(Nat), ParkWrite(cells),
           mainPc \in {"idle", "body"}, mainPc' \in {"body", "test"}
    PROVE  StreamIntegrity'
  <1>1. /\ stream \in Seq(Nat) /\ oBuffer.data \in Seq(Nat) /\ accepted \in Seq(Nat)
        /\ bExit \in BOOLEAN
    BY DEF SendInv, SendTypeOK, Buffer
  <1>2. Owed \in Seq(Nat) /\ Owed' = Owed
    BY OwedType DEF Owed, Sent, ParkWrite
  <1>3. /\ UNCHANGED <<stream, resent, bExit>>
        /\ \/ oBuffer'.data = oBuffer.data /\ accepted' = accepted
           \/ oBuffer'.data = oBuffer.data \o cells /\ accepted' = accepted \o cells
    BY ParkWriteProperties DEF SendInv, ParkWrite
  <1>4. CASE oBuffer'.data = oBuffer.data /\ accepted' = accepted
    BY <1>2, <1>3, <1>4, StreamUnmoved DEF SendInv
  <1>5. CASE oBuffer'.data = oBuffer.data \o cells /\ accepted' = accepted \o cells
    <2>1. stream \o Owed \in Seq(Nat)
      BY <1>1, <1>2, ConcatProperties
    <2>2. (stream \o Owed) \o (oBuffer.data \o cells)
            = ((stream \o Owed) \o oBuffer.data) \o cells
      BY <1>1, <2>1, CellsAssociative, Zenon
    <2>3. ASSUME ~resent, ~bExit
          PROVE  (stream \o Owed) \o (oBuffer.data \o cells) = accepted \o cells
      BY <2>2, <2>3 DEF SendInv, StreamIntegrity
    <2>4. ASSUME ~resent, bExit
          PROVE  /\ Len(stream) <= Len(accepted \o cells)
                 /\ stream = SubSeq(accepted \o cells, 1, Len(stream))
      <3>1. stream = SubSeq(accepted, 1, Len(stream))
        BY <2>4 DEF SendInv, StreamIntegrity
      <3>2. Len(stream) \in 0 .. Len(accepted)
        <4>1. Len(stream) \in Nat /\ Len(accepted) \in Nat
          BY <1>1, LenProperties
        <4> QED
          BY <4>1, <2>4 DEF SendInv, StreamIntegrity
      <3>3. Len(accepted \o cells) = Len(accepted) + Len(cells)
        BY <1>1, ConcatProperties
      <3> QED
        BY <1>1, <3>1, <3>2, <3>3, PrefixOfConcat, LenProperties
    <2> QED
      BY <1>2, <1>3, <1>5, <2>3, <2>4 DEF StreamIntegrity
  <1> QED
    BY <1>3, <1>4, <1>5
(* A read of m_cOBuffer into m_arrSendBuffer moves cells from the buffer to *)
(* the pending write, and no cell anywhere else.                           *)
LEMMA StreamCopy ==
    ASSUME SendInv, CopyOut, ~bExit, Owed = <<>>, Owed' = Sent',
           UNCHANGED <<stream, accepted, resent, bExit>>
    PROVE  StreamIntegrity'
  <1>1. stream \in Seq(Nat)
    BY DEF SendInv, SendTypeOK
  <1>2. /\ Sent' \in Seq(Nat)
        /\ oBuffer'.data \in Seq(Nat)
        /\ oBuffer.data = Sent' \o oBuffer'.data
    BY CopyOutProperties, SendAssumption DEF SendInv, Sent, Buffer
  <1>3. (stream \o Owed) \o oBuffer.data = (stream \o Sent') \o oBuffer'.data
    <2>1. stream \o Owed = stream
      BY <1>1, ConcatEmptySeq
    <2>2. stream \o (Sent' \o oBuffer'.data) = (stream \o Sent') \o oBuffer'.data
      BY <1>1, <1>2, CellsAssociative, Zenon
    <2> QED
      BY <1>2, <2>1, <2>2
  <1> QED
    BY <1>3 DEF SendInv, StreamIntegrity

(* The system took the whole write: its cells move to the stream. *)
LEMMA StreamDone ==
    ASSUME SendInv, WriteDone
    PROVE  StreamIntegrity'
  <1>1. Owed = Sent /\ ~bExit /\ mainPc \notin {"flag", "write"}
    BY DEF WriteDone, Owed, SendInv, SingleWriter
  <1>2. Owed' = <<>>
    BY <1>1 DEF WriteDone, Owed
  <1>3. stream \o Sent \in Seq(Nat)
    BY OwedType, ConcatProperties DEF SendInv, SendTypeOK
  <1>4. stream' \o Owed' = stream \o Sent
    BY <1>2, <1>3, ConcatEmptySeq DEF WriteDone
  <1> QED
    BY <1>1, <1>4 DEF SendInv, StreamIntegrity, WriteDone, bufferVars, historyVars

(* The write broke: what the system took is a prefix of the accepted cells. *)
LEMMA StreamFail ==
    ASSUME SendInv, WriteFail
    PROVE  StreamIntegrity'
  <1>1. Owed = Sent /\ ~bExit
    BY DEF WriteFail, Owed, SendInv, SingleWriter
  <1>2. PICK n \in 0 .. nSend : stream' = stream \o SubSeq(arrSendBuffer, 1, n)
    BY DEF WriteFail
  <1>3. /\ stream \in Seq(Nat) /\ arrSendBuffer \in Seq(Nat) /\ oBuffer.data \in Seq(Nat)
        /\ nSend \in 0 .. Len(arrSendBuffer)
        /\ n \in 0 .. Len(arrSendBuffer)
    BY LenProperties DEF SendInv, SendTypeOK, Buffer
  <1> DEFINE front == SubSeq(arrSendBuffer, 1, n)
             back == SubSeq(arrSendBuffer, n + 1, nSend)
  <1>4. front \in Seq(Nat)
    BY <1>3, FrontType
  <1>5. back \in Seq(Nat)
    <2>1. \A i \in n + 1 .. nSend : arrSendBuffer[i] \in Nat
      BY <1>3, ElementOfSeq, LenProperties
    <2> QED
      BY <1>3, <2>1, SubSeqProperties
  <1>6. Sent = front \o back
    <2>1. /\ 1 \in 1 .. Len(arrSendBuffer) + 1
          /\ n \in 1 - 1 .. Len(arrSendBuffer)
          /\ nSend \in n .. Len(arrSendBuffer)
      BY <1>3, LenProperties
    <2>2. front \o back = SubSeq(arrSendBuffer, 1, nSend)
      BY <1>3, <2>1, ConcatAdjacentSubSeq
    <2> QED
      BY <2>2 DEF Sent
  <1> HIDE DEF front, back
  <1>7. CASE resent
    BY <1>7 DEF WriteFail, historyVars, StreamIntegrity
  <1>8. CASE ~resent
    <2> DEFINE rest == back \o oBuffer.data
    <2>1. rest \in Seq(Nat) /\ stream \o front \in Seq(Nat)
      BY <1>3, <1>4, <1>5, ConcatProperties
    <2>2. accepted = (stream \o front) \o rest
      <3>1. accepted = (stream \o (front \o back)) \o oBuffer.data
        BY <1>1, <1>6, <1>8 DEF SendInv, StreamIntegrity
      <3>2. stream \o (front \o back) = (stream \o front) \o back
        BY <1>3, <1>4, <1>5, CellsAssociative, ZenonT(30)
      <3>3. ((stream \o front) \o back) \o oBuffer.data = (stream \o front) \o rest
        <4> DEFINE head == stream \o front
        <4>1. head \in Seq(Nat) /\ back \in Seq(Nat) /\ oBuffer.data \in Seq(Nat)
          BY <1>3, <1>5, <2>1
        <4> HIDE DEF head
        <4>2. (head \o back) \o oBuffer.data = head \o (back \o oBuffer.data)
          BY <4>1, CellsAssociative, Zenon
        <4> QED
          BY <4>2 DEF head
      <3> QED
        BY <3>1, <3>2, <3>3
    <2>3. stream' = stream \o front
      BY <1>2 DEF front
    <2> HIDE DEF rest
    <2>4. SubSeq(accepted, 1, Len(stream')) = stream'
      BY <2>1, <2>2, <2>3, FrontOfConcat
    <2>5. Len(stream') <= Len(accepted)
      BY <2>1, <2>2, <2>3, ConcatProperties, LenProperties
    <2> QED
      BY <2>4, <2>5 DEF WriteFail, historyVars, StreamIntegrity
  <1> QED
    BY <1>7, <1>8

(* Every step keeps each accepted cell in one place, in order. *)
LEMMA StreamStep ==
    ASSUME SendInv, [SendNext]_sendVars
    PROVE  StreamIntegrity'
  <1>1. ASSUME NEW body \in Bodies, ParkHead(body) PROVE StreamIntegrity'
    BY <1>1, ParkCells, StreamPark DEF ParkHead
  <1>2. CASE ParkBody
    <2>1. parked[Len(parked)] \in Seq(Nat)
      BY <1>2, ParkCells DEF ParkBody
    <2> QED
      BY <1>2, <2>1, StreamPark DEF ParkBody
  <1>3. CASE TestSending
    BY <1>3, StreamUnmoved
       DEF SendInv, TestSending, Owed, Sent, bufferVars, historyVars
  <1>4. CASE MainTake
    <2>1. Owed = <<>> /\ ~bExit /\ ioPc # "wait"
      BY <1>4 DEF SendInv, SingleWriter, MainTake, Owed
    <2>2. CASE GetLen(oBuffer) = 0
      BY <1>4, <2>1, <2>2, StreamUnmoved
         DEF SendInv, MainTake, Owed, Sent, bufferVars, historyVars
    <2>3. CASE GetLen(oBuffer) # 0
      <3>1. /\ CopyOut
            /\ mainPc' = "flag"
            /\ UNCHANGED <<stream, accepted, resent, bExit>>
        BY <1>4, <2>3 DEF MainTake, historyVars
      <3> QED
        BY <2>1, <3>1, StreamCopy DEF Owed
    <2> QED
      BY <2>2, <2>3
  <1>5. CASE MainFlag
    BY <1>5, StreamUnmoved DEF SendInv, MainFlag, Owed, Sent, bufferVars, historyVars
  <1>6. CASE MainWrite
    BY <1>6, StreamUnmoved DEF SendInv, MainWrite, Owed, Sent, bufferVars, historyVars
  <1>7. CASE WriteDone
    BY <1>7, StreamDone
  <1>8. CASE WriteFail
    BY <1>8, StreamFail
  <1>9. CASE IoTake
    <2>1. Owed = <<>> /\ ~bExit
      BY <1>9 DEF SendInv, SingleWriter, IoTake, Owed
    <2>2. /\ CopyOut
          /\ ioPc' = "wait"
          /\ UNCHANGED <<stream, accepted, resent, bExit>>
      BY <1>9 DEF IoTake, historyVars
    <2> QED
      BY <2>1, <2>2, StreamCopy DEF Owed
  <1>10. CASE IoSeeEmpty
    BY <1>10, StreamUnmoved
       DEF SendInv, IoSeeEmpty, SingleWriter, Owed, Sent, bufferVars, historyVars
  <1>11. CASE IoReload
    <2>1. CASE GetLen(oBuffer) = 0
      BY <1>11, <2>1, StreamUnmoved
         DEF SendInv, IoReload, SingleWriter, Owed, Sent, bufferVars, historyVars
    <2>2. CASE GetLen(oBuffer) # 0
      BY <1>11, <2>2 DEF IoReload, StreamIntegrity
    <2> QED
      BY <2>1, <2>2
  <1>12. CASE IoClear
    BY <1>12, StreamUnmoved
       DEF SendInv, IoClear, SingleWriter, Owed, Sent, bufferVars, historyVars
  <1>13. CASE UNCHANGED sendVars
    BY <1>13, StreamUnmoved DEF SendInv, sendVars, Owed, Sent, bufferVars, historyVars
  <1> QED
    BY <1>1, <1>2, <1>3, <1>4, <1>5, <1>6, <1>7, <1>8, <1>9, <1>10, <1>11, <1>12, <1>13
       DEF SendNext, MainNext, IoNext

----------------------------------------------------------------------------
(* The invariant is inductive. *)
LEMMA SendInvStep ==
    ASSUME SendInv, [SendNext]_sendVars
    PROVE  SendInv'
  BY TypeStep, WriterStep, StreamStep DEF SendInv

THEOREM SendInvariant == SendSpec => []SendInv
  <1>1. SendInit => SendInv
    BY SendInvInit
  <1>2. SendInv /\ [SendNext]_sendVars => SendInv'
    BY SendInvStep
  <1> QED
    BY <1>1, <1>2, PTL DEF SendSpec

(* The memory the sending half touches stays inside its arrays, for all    *)
(* sizes and all interleavings of the main loop and the io thread.         *)
THEOREM SendTypeCorrect == SendSpec => []SendTypeOK
  <1>1. SendInv => SendTypeOK
    BY DEF SendInv
  <1> QED
    BY <1>1, SendInvariant, PTL

(* At most one thread owns m_arrSendBuffer, and one write is pending. *)
THEOREM OneWriter == SendSpec => []SingleWriter
  <1>1. SendInv => SingleWriter
    BY DEF SendInv
  <1> QED
    BY <1>1, SendInvariant, PTL

(* The accepted cells go out once each and in order. *)
THEOREM NoCellLost == SendSpec => []StreamIntegrity
  <1>1. SendInv => StreamIntegrity
    BY DEF SendInv
  <1> QED
    BY <1>1, SendInvariant, PTL

(* In a build that loads m_nLen once the condition is never met, and the   *)
(* stream is a prefix of what was accepted without it.                     *)
THEOREM OptimisedNeverResends ==
    ASSUME LenLoads = 1
    PROVE  SendSpec => []~resent
  <1> DEFINE Quiet == ~resent /\ ioPc # "reload"
  <1>1. SendInit => Quiet
    BY DEF SendInit
  <1>2. Quiet /\ [SendNext]_sendVars => Quiet'
    <2> SUFFICES ASSUME Quiet, [SendNext]_sendVars PROVE Quiet'
      OBVIOUS
    <2> USE DEF historyVars
    <2>1. ASSUME NEW body \in Bodies, ParkHead(body) PROVE Quiet'
      BY <2>1 DEF ParkHead, ParkWrite
    <2>2. CASE ParkBody
      BY <2>2 DEF ParkBody, ParkWrite
    <2>3. CASE TestSending \/ MainTake \/ MainFlag \/ MainWrite
      BY <2>3 DEF TestSending, MainTake, MainFlag, MainWrite
    <2>4. CASE WriteDone \/ WriteFail \/ IoTake \/ IoSeeEmpty \/ IoClear
      BY <2>4 DEF WriteDone, WriteFail, IoTake, IoSeeEmpty, IoClear
    <2>5. CASE IoReload
      BY <2>5 DEF IoReload
    <2>6. CASE UNCHANGED sendVars
      BY <2>6 DEF sendVars
    <2> QED
      BY <2>1, <2>2, <2>3, <2>4, <2>5, <2>6 DEF SendNext, MainNext, IoNext
  <1>3. Quiet => ~resent
    OBVIOUS
  <1> QED
    BY <1>1, <1>2, <1>3, PTL DEF SendSpec
=============================================================================
