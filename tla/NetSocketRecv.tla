--------------------------- MODULE NetSocketRecv ---------------------------
(***************************************************************************)
(* The receiving half of one connected NetSocket: the io_service thread    *)
(* alternates ReadHead and ReadBody and stores what it reads in m_cIBuffer,*)
(* the deadline timer watches each read, and the main loop takes one       *)
(* message at a time with ReadMsg, the message callback and RemoveMsg.     *)
(* Sizes are in cells of four bytes (NetIOBuffer): a frame is one length   *)
(* cell and a body.                                                        *)
(***************************************************************************)
EXTENDS NetIOBuffer

CONSTANTS
    Bodies,     \* the message bodies the peer may send
    MaxSends,   \* how many messages it sends: bounds the model only
    CacheSize,  \* nMaxRecivedCacheSize
    MaxRecv,    \* m_nMaxRecivedSize
    MinBody,    \* sizeof(NetMsgHead)
    Timeout     \* whether SetTimeout was called (m_nTimeout # 0)

ASSUME RecvAssumption ==
    /\ Bodies \subseteq Seq(Nat)
    /\ MaxSends \in Nat
    /\ CacheSize \in Nat
    /\ MinBody \in Nat \ {0}
    /\ MaxRecv \in Nat
    /\ MaxRecv > MinBody
    /\ Timeout \in BOOLEAN

VARIABLES
    stream,      \* every cell the peer put on the connection, in order
    nRead,       \* how many of them the async_reads have consumed
    iBuffer,     \* m_cIBuffer
    eRecvStage,  \* m_eRecvStage
    nBodyLen,    \* m_nBodyLen
    reading,     \* whether an async_read is pending
    bExit,       \* m_bExit
    timerOn,     \* m_cTimer is waiting
    timerFired,  \* HandleWait is queued with success: cancel comes too late
    mainPc,      \* where the main loop is in OnUpdateRecived
    nSize,       \* nMsgBodyLen there: the length ReadMsg returned
    sent,        \* history: the bodies the peer framed
    outgoing,    \* the cells of its last frame that are still on their way
    delivered,   \* history: the bodies given to the message callback
    refused,     \* history: a Write of RecvMsg returned false
    cut          \* history: a body outgrew m_cBodyBuffer

peerVars == <<sent, outgoing>>
timerVars == <<timerOn, timerFired>>
readVars == <<nRead, eRecvStage, nBodyLen, reading>>
mainVars == <<mainPc, nSize, delivered>>
damage == <<refused, cut>>
recvVars == <<stream, readVars, iBuffer, bExit, timerVars, mainVars, peerVars, damage>>

Frame(body) == <<Len(body)>> \o body

(* Every variable has its type, and m_cIBuffer never reaches past its      *)
(* array, whatever sizes the peer announces.                               *)
RecvTypeOK ==
    /\ stream \in Seq(Nat)
    /\ nRead \in 0 .. Len(stream)
    /\ iBuffer \in Buffer(Nat)
    /\ iBuffer.max = CacheSize
    /\ InBounds(iBuffer)
    /\ eRecvStage \in {"HEAD", "BODY"}
    /\ nBodyLen \in 0 .. MaxRecv
    /\ {reading, bExit, timerOn, timerFired, refused, cut} \subseteq BOOLEAN
    /\ mainPc \in {"read", "call", "remove", "exit"}
    /\ nSize \in Nat
    /\ sent \in Seq(Bodies)
    /\ outgoing \in Seq(Nat)
    /\ delivered \in Seq(Seq(Nat))

(* m_cBodyBuffer lies behind the header in an array of nMaxRecivedSize. *)
BodySpace == MaxRecv - 1

RecvInit ==
    /\ stream = <<>>
    /\ nRead = 0
    /\ iBuffer = InitBuffer(CacheSize)
    /\ eRecvStage = "HEAD"
    /\ nBodyLen = 0
    /\ reading = TRUE
    /\ bExit = FALSE
    /\ timerOn = Timeout
    /\ timerFired = FALSE
    /\ mainPc = "read"
    /\ nSize = 0
    /\ sent = <<>>
    /\ outgoing = <<>>
    /\ delivered = <<>>
    /\ refused = FALSE
    /\ cut = FALSE

----------------------------------------------------------------------------
(* The peer: whole frames, which the network may deliver in any pieces.    *)

PeerSend(body) ==
    /\ outgoing = <<>>
    /\ Len(sent) < MaxSends
    /\ sent' = Append(sent, body)
    /\ outgoing' = Frame(body)
    /\ UNCHANGED <<stream, readVars, iBuffer, bExit, timerVars, mainVars, damage>>

Arrive ==
    /\ \E n \in 1 .. Len(outgoing) :
          /\ stream' = stream \o SubSeq(outgoing, 1, n)
          /\ outgoing' = SubSeq(outgoing, n + 1, Len(outgoing))
    /\ UNCHANGED <<readVars, iBuffer, bExit, timerVars, mainVars, sent, damage>>

----------------------------------------------------------------------------
(* The completion handler RecvMsg(ec, bytes_transferred).                  *)

(* TimeoutCancel stops a waiting timer, not a HandleWait already queued.   *)
TimeoutCancel == timerOn' = FALSE /\ UNCHANGED timerFired

ReadNextMutant(stage) ==
    /\ eRecvStage' = stage
    /\ reading' = TRUE
    /\ timerOn' = (Timeout /\ stage = "HEAD")
    /\ UNCHANGED timerFired

ReadNextDeaf(stage) ==
    /\ eRecvStage' = stage
    /\ reading' = (stage = "BODY")
    /\ timerOn' = (Timeout /\ stage = "BODY")
    /\ UNCHANGED timerFired

(* The next read is started, and the timer with it. *)
ReadNext(stage) ==
    /\ eRecvStage' = stage
    /\ reading' = TRUE
    /\ timerOn' = Timeout
    /\ UNCHANGED timerFired

Store(cells) ==
    /\ iBuffer' = Write(iBuffer, cells)
    /\ refused' = (refused \/ ~Fits(iBuffer, cells))
    /\ cut' = (cut \/ Len(cells) > BodySpace)

LengthOk(len) == len >= MinBody /\ len <= MaxRecv

RecvHead ==
    /\ reading
    /\ eRecvStage = "HEAD"
    /\ nRead < Len(stream)
    /\ nRead' = nRead + 1
    /\ LET len == stream[nRead + 1] IN
       IF LengthOk(len)
       THEN /\ nBodyLen' = len
            /\ Store(<<len>>)
            /\ ReadNext("BODY")
            /\ UNCHANGED bExit
       ELSE /\ nBodyLen' = 0
            /\ bExit' = TRUE
            /\ reading' = FALSE
            /\ TimeoutCancel
            /\ UNCHANGED <<eRecvStage, iBuffer, damage>>
    /\ UNCHANGED <<stream, mainVars, peerVars>>

(* async_read stops when m_cBodyBuffer is full, yet m_nBodyLen cells are   *)
(* stored: the rest is what the array holds behind it.                     *)
RecvBody ==
    /\ reading
    /\ eRecvStage = "BODY"
    /\ LET got == IF nBodyLen < BodySpace THEN nBodyLen ELSE BodySpace IN
       /\ nRead + got <= Len(stream)
       /\ nRead' = nRead + got
       /\ Store([i \in 1 .. nBodyLen |-> IF i <= got THEN stream[nRead + i] ELSE 0])
    /\ ReadNext("HEAD")
    /\ UNCHANGED <<stream, nBodyLen, bExit, mainVars, peerVars>>

(* End of file, a reset, a cancelled read. *)
RecvError ==
    /\ reading
    /\ reading' = FALSE
    /\ bExit' = TRUE
    /\ TimeoutCancel
    /\ UNCHANGED <<stream, nRead, eRecvStage, nBodyLen, iBuffer, mainVars, peerVars, damage>>

TimerExpire ==
    /\ timerOn
    /\ timerOn' = FALSE
    /\ timerFired' = TRUE
    /\ UNCHANGED <<stream, readVars, iBuffer, bExit, mainVars, peerVars, damage>>

HandleWait ==
    /\ timerFired
    /\ timerFired' = FALSE
    /\ bExit' = TRUE
    /\ UNCHANGED <<stream, readVars, iBuffer, timerOn, mainVars, peerVars, damage>>

----------------------------------------------------------------------------
(* The main loop: ReadMsg, the callback, RemoveMsg.                        *)

ReadMsgMutant ==
    /\ mainPc = "read"
    /\ ~bExit
    /\ GetLen(iBuffer) > 0
    /\ nSize' = iBuffer.data[1]
    /\ mainPc' = "call"
    /\ UNCHANGED <<stream, readVars, iBuffer, bExit, timerVars, delivered, peerVars, damage>>

ReadMsg ==
    /\ mainPc = "read"
    /\ IF bExit
       THEN mainPc' = "exit" /\ UNCHANGED nSize
       ELSE /\ GetLen(iBuffer) > 0
            /\ GetLen(iBuffer) >= iBuffer.data[1] + 1
            /\ nSize' = iBuffer.data[1]
            /\ mainPc' = "call"
    /\ UNCHANGED <<stream, readVars, iBuffer, bExit, timerVars, delivered, peerVars, damage>>

(* The callback reads the message in place, and may call SetWillColse. *)
OnMsg ==
    /\ mainPc = "call"
    /\ delivered' = Append(delivered, SubSeq(iBuffer.data, 2, nSize + 1))
    /\ bExit' \in {bExit, TRUE}
    /\ mainPc' = "remove"
    /\ UNCHANGED <<stream, readVars, iBuffer, timerVars, nSize, peerVars, damage>>

RemoveMsgMutant ==
    /\ mainPc = "remove"
    /\ iBuffer' = RemoveBuffer(iBuffer, nSize)
    /\ mainPc' = "read"
    /\ UNCHANGED <<stream, readVars, bExit, timerVars, nSize, delivered, peerVars, damage>>

RemoveMsg ==
    /\ mainPc = "remove"
    /\ iBuffer' = RemoveBuffer(iBuffer, nSize + 1)
    /\ mainPc' = "read"
    /\ UNCHANGED <<stream, readVars, bExit, timerVars, nSize, delivered, peerVars, damage>>

----------------------------------------------------------------------------
PeerNext == Arrive \/ \E body \in Bodies : PeerSend(body)
RecvDone == RecvHead \/ RecvBody
IoNext == RecvDone \/ RecvError \/ TimerExpire \/ HandleWait
MainNext == ReadMsg \/ OnMsg \/ RemoveMsg
RecvNext == PeerNext \/ IoNext \/ MainNext

RecvSpec == RecvInit /\ [][RecvNext]_recvVars

(* The main loop never stops calling Update; io_service runs a read whose   *)
(* cells have arrived, an expired timer and its handler; the peer and the  *)
(* network owe nothing.                                                    *)
FairRecvSpec ==
    /\ RecvSpec
    /\ WF_recvVars(MainNext)
    /\ WF_recvVars(RecvDone)
    /\ WF_recvVars(TimerExpire)
    /\ WF_recvVars(HandleWait)
----------------------------------------------------------------------------
(* From the moment ReadMsg found a message until RemoveMsg dropped it, the  *)
(* buffer starts with that whole message, however much the io thread       *)
(* stores meanwhile: the callback's pointer stays good, and RemoveBuffer   *)
(* never subtracts more than m_nLen.                                       *)
MessageStable ==
    mainPc \in {"call", "remove"} =>
        /\ GetLen(iBuffer) >= nSize + 1
        /\ iBuffer.data[1] = nSize

(* No Write was refused and no body cut. *)
Undamaged == ~refused /\ ~cut

(* What was delivered is the front of what the peer sent. *)
InOrder == Len(delivered) <= Len(sent) /\ delivered = SubSeq(sent, 1, Len(delivered))

(* The callbacks see the peer's messages in order, each once and intact.   *)
DeliveredPrefix == Undamaged => InOrder

(* Every message that has arrived is delivered, unless the connection ends *)
(* or the stream was damaged.                                              *)
AllDelivered ==
    \A n \in 1 .. MaxSends :
        (Len(sent) = n /\ outgoing = <<>>) ~> (Len(delivered) >= n \/ bExit \/ ~Undamaged)

(* With a timeout set, a peer that falls silent, between frames or inside  *)
(* one, is dropped.                                                        *)
SilenceEnds == Timeout => <>bExit
=============================================================================
