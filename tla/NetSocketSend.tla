--------------------------- MODULE NetSocketSend ---------------------------
(***************************************************************************)
(* The sending half of one connected NetSocket (DyNetSocket/NetSocket.cpp).*)
(* Two threads touch it: the main loop, which parks a message in           *)
(* m_cOBuffer and then calls SendMsg(), and the io_service thread that     *)
(* runs the completion SendMsg(ec, bytes) of each async_write.  m_bSending *)
(* and m_nLen are read without the buffer's mutex, so every such access is *)
(* a step of its own.                                                      *)
(*                                                                         *)
(* A message body is a sequence of cells (naturals); on the wire a frame   *)
(* is one length cell followed by the body.                                *)
(***************************************************************************)
EXTENDS NetIOBuffer

CONSTANTS
    Bodies,       \* the message bodies the main loop may send
    MaxParks,     \* how many messages it sends: bounds the model only
    CacheSize,    \* nMaxSendoutCacheSize, in cells
    SendoutSize,  \* m_nMaxSendoutSize, in cells
    LenLoads      \* loads of m_nLen by "if(!m_nLen) return m_nLen": 1 in the
                  \* optimised builds, 2 in Debug|Win32

ASSUME SendAssumption ==
    /\ Bodies \subseteq Seq(Nat)
    /\ MaxParks \in Nat
    /\ CacheSize \in Nat \ {0}
    /\ SendoutSize \in Nat \ {0}
    /\ LenLoads \in {1, 2}

VARIABLES
    oBuffer,        \* m_cOBuffer
    bSending,       \* m_bSending
    arrSendBuffer,  \* m_arrSendBuffer: the last cells copied over the older ones
    nSend,          \* how many of them the current async_write covers
    mainPc,         \* where the main loop is inside ParkMsg and SendMsg()
    ioPc,           \* the write chain: none, wait (async_write pending), or a handler's step
    bExit,          \* m_bExit
    stream,         \* history: every cell the operating system took, in order
    parked,         \* history: the bodies passed to ParkMsg
    accepted,       \* history: every cell a Write of ParkMsg stored
    refused,        \* history: whether a Write of ParkMsg returned false
    resent          \* history: whether cells never read from m_cOBuffer were sent

bufferVars == <<oBuffer, arrSendBuffer, nSend>>
historyVars == <<parked, accepted, refused, resent>>
sendVars == <<bufferVars, historyVars, bSending, mainPc, ioPc, bExit, stream>>

MainSteps == {"idle", "body", "test", "take", "flag", "write"}
IoSteps == {"none", "wait", "take", "reload", "clear"}

(* Every variable has its type, and m_cOBuffer never reaches past its       *)
(* array: the check of NetIOBuffer::Write counts the dead space in front.  *)
SendTypeOK ==
    /\ oBuffer \in Buffer(Nat)
    /\ oBuffer.max = CacheSize
    /\ InBounds(oBuffer)
    /\ bSending \in BOOLEAN
    /\ arrSendBuffer \in Seq(Nat)
    /\ nSend \in 0 .. SendoutSize
    /\ mainPc \in MainSteps
    /\ ioPc \in IoSteps
    /\ bExit \in BOOLEAN
    /\ stream \in Seq(Nat)
    /\ parked \in Seq(Bodies)
    /\ accepted \in Seq(Nat)
    /\ refused \in BOOLEAN
    /\ resent \in BOOLEAN

SendInit ==
    /\ oBuffer = InitBuffer(CacheSize)
    /\ bSending = FALSE
    /\ arrSendBuffer = <<>>
    /\ nSend = 0
    /\ mainPc = "idle"
    /\ ioPc = "none"
    /\ bExit = FALSE
    /\ stream = <<>>
    /\ parked = <<>>
    /\ accepted = <<>>
    /\ refused = FALSE
    /\ resent = FALSE

(* The cells handed to async_write. *)
Sent == SubSeq(arrSendBuffer, 1, nSend)

(* memcpy over the front of m_arrSendBuffer. *)
Overlay(cells) ==
    cells \o SubSeq(arrSendBuffer, Len(cells) + 1, Len(arrSendBuffer))

(* n cells from the front of m_arrSendBuffer, whatever they are.  Cells    *)
(* never copied to are uninitialised; any value stands for them.           *)
FrontCells(n) ==
    [i \in 1 .. n |-> IF i <= Len(arrSendBuffer) THEN arrSendBuffer[i] ELSE 0]

----------------------------------------------------------------------------
(* The main loop: ParkMsg then SendMsg().                                  *)

(* ParkMsg makes two separate Writes and looks at the result of neither. *)
ParkWrite(cells) ==
    /\ oBuffer' = Write(oBuffer, cells)
    /\ accepted' = IF Fits(oBuffer, cells) THEN accepted \o cells ELSE accepted
    /\ refused' = (refused \/ ~Fits(oBuffer, cells))
    /\ UNCHANGED <<resent, bSending, arrSendBuffer, nSend, ioPc, bExit, stream>>

ParkHead(body) ==
    /\ mainPc = "idle"
    /\ Len(parked) < MaxParks
    /\ ParkWrite(<<Len(body)>>)
    /\ parked' = Append(parked, body)
    /\ mainPc' = "body"

ParkBody ==
    /\ mainPc = "body"
    /\ ParkWrite(parked[Len(parked)])
    /\ mainPc' = "test"
    /\ UNCHANGED parked

TestSendingMutant ==
    /\ mainPc = "test"
    /\ mainPc' = "take"
    /\ UNCHANGED <<bufferVars, historyVars, bSending, ioPc, bExit, stream>>

TestSending ==
    /\ mainPc = "test"
    /\ mainPc' = IF bSending THEN "idle" ELSE "take"
    /\ UNCHANGED <<bufferVars, historyVars, bSending, ioPc, bExit, stream>>

CopyOutMutant ==
    /\ arrSendBuffer' = Overlay(ReadCells(oBuffer, SendoutSize))
    /\ nSend' = ReadSize(oBuffer, SendoutSize)
    /\ oBuffer' = RemoveBuffer(oBuffer, SendoutSize + 1)

(* ReadRemove into m_arrSendBuffer. *)
CopyOut ==
    /\ arrSendBuffer' = Overlay(ReadCells(oBuffer, SendoutSize))
    /\ nSend' = ReadSize(oBuffer, SendoutSize)
    /\ oBuffer' = ReadRemove(oBuffer, SendoutSize)

MainTake ==
    /\ mainPc = "take"
    /\ IF GetLen(oBuffer) = 0
       THEN /\ mainPc' = "idle"
            /\ UNCHANGED bufferVars
       ELSE /\ mainPc' = "flag"
            /\ CopyOut
    /\ UNCHANGED <<historyVars, bSending, ioPc, bExit, stream>>

MainFlag ==
    /\ mainPc = "flag"
    /\ bSending' = TRUE
    /\ mainPc' = "write"
    /\ UNCHANGED <<bufferVars, historyVars, ioPc, bExit, stream>>

MainWrite ==
    /\ mainPc = "write"
    /\ ioPc' = "wait"
    /\ mainPc' = "idle"
    /\ UNCHANGED <<bufferVars, historyVars, bSending, bExit, stream>>

----------------------------------------------------------------------------
(* The completion handler SendMsg(ec, bytes_transferred).                  *)

WriteDone ==
    /\ ioPc = "wait"
    /\ stream' = stream \o Sent
    /\ ioPc' = "take"
    /\ UNCHANGED <<bufferVars, historyVars, bSending, mainPc, bExit>>

(* The connection breaks part way: m_bExit is set, m_bSending stays. *)
WriteFail ==
    /\ ioPc = "wait"
    /\ \E n \in 0 .. nSend : stream' = stream \o SubSeq(arrSendBuffer, 1, n)
    /\ bExit' = TRUE
    /\ ioPc' = "none"
    /\ UNCHANGED <<bufferVars, historyVars, bSending, mainPc>>

IoTake ==
    /\ ioPc = "take"
    /\ GetLen(oBuffer) > 0
    /\ CopyOut
    /\ ioPc' = "wait"
    /\ UNCHANGED <<historyVars, bSending, mainPc, bExit, stream>>

(* The unlocked "if(!m_nLen)" of ReadRemove found nothing to send. *)
IoSeeEmpty ==
    /\ ioPc = "take"
    /\ GetLen(oBuffer) = 0
    /\ ioPc' = IF LenLoads = 2 THEN "reload" ELSE "clear"
    /\ UNCHANGED <<bufferVars, historyVars, bSending, mainPc, bExit, stream>>

(* "return m_nLen" loads it again: cells parked since are reported as read, *)
(* though none was copied and none removed.                                *)
IoReload ==
    /\ ioPc = "reload"
    /\ IF GetLen(oBuffer) = 0
       THEN /\ ioPc' = "clear"
            /\ UNCHANGED <<arrSendBuffer, nSend, resent>>
       ELSE /\ ioPc' = "wait"
            /\ nSend' = ReadSize(oBuffer, SendoutSize)
            /\ arrSendBuffer' = Overlay(FrontCells(ReadSize(oBuffer, SendoutSize)))
            /\ resent' = TRUE
    /\ UNCHANGED <<oBuffer, parked, accepted, refused, bSending, mainPc, bExit, stream>>

IoClearMutant ==
    /\ ioPc = "clear"
    /\ ioPc' = "none"
    /\ UNCHANGED <<bufferVars, historyVars, bSending, mainPc, bExit, stream>>

IoClear ==
    /\ ioPc = "clear"
    /\ bSending' = FALSE
    /\ ioPc' = "none"
    /\ UNCHANGED <<bufferVars, historyVars, mainPc, bExit, stream>>

----------------------------------------------------------------------------
MainNext ==
    \/ \E body \in Bodies : ParkHead(body)
    \/ ParkBody
    \/ TestSending
    \/ MainTake
    \/ MainFlag
    \/ MainWrite

IoNext ==
    \/ WriteDone
    \/ WriteFail
    \/ IoTake
    \/ IoSeeEmpty
    \/ IoReload
    \/ IoClear

SendNext == MainNext \/ IoNext

SendSpec == SendInit /\ [][SendNext]_sendVars

(* A call of SendMsg that has begun runs to its end, and io_service runs    *)
(* every completion; nothing makes the main loop send another message.     *)
MainContinue == ParkBody \/ TestSending \/ MainTake \/ MainFlag \/ MainWrite

FairSendSpec == SendSpec /\ WF_sendVars(MainContinue) /\ WF_sendVars(IoNext)

----------------------------------------------------------------------------
(* m_arrSendBuffer and the async_write over it have one owner at a time:    *)
(* while a write is pending or its handler runs m_bSending is set, and the *)
(* main loop copies into the array only when neither is the case.  A       *)
(* failed write ends both for good: m_bSending stays.                      *)
SingleWriter ==
    /\ ioPc # "none" => bSending
    /\ mainPc \in {"take", "flag"} => ~bSending
    /\ mainPc = "write" => bSending /\ ioPc = "none"
    /\ bExit => bSending /\ ioPc = "none" /\ mainPc # "write"

(* Cells copied out of the buffer and not yet taken by the system. *)
Owed == IF ioPc = "wait" \/ mainPc \in {"flag", "write"} THEN Sent ELSE <<>>

(* Unless ReadRemove reported cells it had not read, the cells the buffer  *)
(* accepted go out once each and in order: what is on the stream, in the   *)
(* pending write and in the buffer is exactly what was accepted.  After a  *)
(* failed write the stream is a prefix of it.                              *)
StreamIntegrity ==
    ~resent =>
        IF bExit THEN /\ Len(stream) <= Len(accepted)
                      /\ stream = SubSeq(accepted, 1, Len(stream))
                 ELSE (stream \o Owed) \o oBuffer.data = accepted

(* The inductive invariant behind the three: the cells a write covers were *)
(* copied, and ParkMsg is entered with a message.                          *)
SendInv ==
    /\ SendTypeOK
    /\ SingleWriter
    /\ nSend <= Len(arrSendBuffer)
    /\ mainPc = "body" => parked # <<>>
    /\ StreamIntegrity

(* NetSocket.h:177 says of the completion handler that, finding new data   *)
(* after a send, it goes on sending.  So once the chain has ended and the  *)
(* main loop is out of SendMsg, nothing parked is left behind.             *)
NothingLeftBehind ==
    mainPc = "idle" /\ ioPc = "none" /\ ~bExit => GetLen(oBuffer) = 0

=============================================================================
