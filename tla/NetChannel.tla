----------------------------- MODULE NetChannel -----------------------------
(***************************************************************************)
(* Two connected NetSockets: the sending half of one (NetSocketSend) and   *)
(* the receiving half of the other (NetSocketRecv) joined by the stream    *)
(* the operating system carries, and the promise they keep together        *)
(* (MessageChannel).                                                       *)
(***************************************************************************)
EXTENDS Integers, Sequences

CONSTANTS
    Bodies, MaxParks, OutCacheSize, SendoutSize, LenLoads,
    InCacheSize, MaxRecv, MinBody, Timeout

ASSUME ChannelAssumption ==
    /\ Bodies \subseteq Seq(Nat)
    /\ MaxParks \in Nat
    /\ OutCacheSize \in Nat \ {0}
    /\ SendoutSize \in Nat \ {0}
    /\ LenLoads \in {1, 2}
    /\ InCacheSize \in Nat
    /\ MinBody \in Nat \ {0}
    /\ MaxRecv \in Nat
    /\ MaxRecv > MinBody
    /\ Timeout \in BOOLEAN

VARIABLES
    oBuffer, bSending, arrSendBuffer, nSend, sendPc, ioPc, sendExit,
    parked, accepted, sendRefused, resent,
    stream,
    nRead, iBuffer, eRecvStage, nBodyLen, reading, recvExit, timerOn, timerFired,
    recvPc, nSize, delivered, recvRefused, cut

sendOnly == <<oBuffer, bSending, arrSendBuffer, nSend, sendPc, ioPc, sendExit,
              parked, accepted, sendRefused, resent>>
recvOnly == <<nRead, iBuffer, eRecvStage, nBodyLen, reading, recvExit, timerOn, timerFired,
              recvPc, nSize, delivered, recvRefused, cut>>
vars == <<sendOnly, stream, recvOnly>>

S == INSTANCE NetSocketSend WITH
         CacheSize <- OutCacheSize, mainPc <- sendPc, bExit <- sendExit, refused <- sendRefused

R == INSTANCE NetSocketRecv WITH
         CacheSize <- InCacheSize, mainPc <- recvPc, bExit <- recvExit, refused <- recvRefused,
         MaxSends <- MaxParks, sent <- parked, outgoing <- <<>>

Init == S!SendInit /\ R!RecvInit

Sender == S!SendNext /\ UNCHANGED recvOnly
Receiver == (R!IoNext \/ R!MainNext) /\ UNCHANGED sendOnly

Next == Sender \/ Receiver

Spec == Init /\ [][Next]_vars

FairSpec ==
    /\ Spec
    /\ WF_vars(S!MainContinue /\ UNCHANGED recvOnly)
    /\ WF_vars(S!IoNext /\ UNCHANGED recvOnly)
    /\ WF_vars(R!MainNext /\ UNCHANGED sendOnly)
    /\ WF_vars(R!RecvDone /\ UNCHANGED sendOnly)

----------------------------------------------------------------------------
(* What breaks the framing: a Write refused at either end, a body cut by   *)
(* m_cBodyBuffer, stale cells sent by a build that loads m_nLen twice.     *)
Faulty == sendRefused \/ resent \/ recvRefused \/ cut

Promise == INSTANCE MessageChannel WITH
               Messages <- Bodies, sent <- parked, faulty <- Faulty

(* The pair of sockets implements MessageChannel: in order, at most once,  *)
(* intact, until one of the faults above.                                  *)
KeepsPromise == Promise!ChannelSpec

(* Cells wait in m_cOBuffer, and no thread is going to send them.          *)
Stranded ==
    sendPc = "idle" /\ ioPc = "none" /\ ~bSending /\ oBuffer.data # <<>>

(* The lost wake-up of SendMsg is the only way to lose a message on a      *)
(* connection that neither ends nor breaks its framing: otherwise all that *)
(* was parked is in the end delivered.                                     *)
DeliveredOrStranded ==
    <>[](delivered = parked \/ Faulty \/ sendExit \/ recvExit \/ Stranded)
=============================================================================
