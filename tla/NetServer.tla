----------------------------- MODULE NetServer -----------------------------
(***************************************************************************)
(* The slots of a NetServer (DyNetSocket/NetServer.cpp) and the life of    *)
(* one NetSocket in them: accept, Run, the callbacks, Disconnect, Clear,   *)
(* SetAccept.  The main loop calls Update; MAX_THREAD io threads run the   *)
(* completion handlers, any ready one next.  What a connection carries is  *)
(* NetSocketSend and NetSocketRecv; here a read stands for the reads of    *)
(* one message, and writes, which end like reads, are left out.            *)
(***************************************************************************)
EXTENDS Integers, Sequences, SequencesExt, FiniteSets

CONSTANTS
    Slots,      \* the NetSockets of m_arrSocket
    Platforms,  \* the builds: "win32" closes at once and, released, has no assert;
                \* "linux" shuts down, closes a second later, and asserts
    MaxTimeouts,\* how often a read times out: bounds the model, 0 if SetTimeout was not called
    MaxConns,   \* how many connections peers make: bounds the model only
    MaxMsgs     \* how many messages they send: bounds the model only

ASSUME ServerAssumption ==
    /\ IsFiniteSet(Slots)
    /\ Platforms \subseteq {"win32", "linux"}
    /\ MaxTimeouts \in Nat
    /\ MaxConns \in Nat
    /\ MaxMsgs \in Nat

VARIABLES
    platform,
    sock,        \* the descriptor of each slot: closed, open, shut
    acceptOps,   \* the accept operations the acceptor holds, oldest first
    reading,     \* async_reads pending on each slot
    rxTimer,     \* m_cTimer is waiting
    closeTimer,  \* m_cCloseTimer is waiting
    ready,       \* how often each completion handler is ready to run
    bExit,       \* m_bExit
    stage,       \* m_eRecvStage: NULL, or RUN for HEAD and BODY
    inbox,       \* complete messages in m_cIBuffer
    vecAccept,   \* m_vecAcceptSocket
    vecUsed,     \* m_vecUsedSocket
    mainPc,      \* where the main loop is in Update
    nIndex,      \* the loop variable of OnUpdateRecived, from 1
    before,      \* history: m_vecUsedSocket when this pass of it began
    visited,     \* history: the slots this pass has looked at
    nConns, nMsgs, nTimeouts,
    aborted      \* an assert failed and the process is gone

osVars == <<sock, acceptOps, reading>>
timers == <<rxTimer, closeTimer>>
slotVars == <<bExit, stage, inbox>>
passVars == <<mainPc, nIndex, before, visited>>
boundVars == <<platform, nConns, nMsgs, nTimeouts>>
serverVars == <<osVars, timers, ready, slotVars, vecAccept, vecUsed, passVars, boundVars, aborted>>

(* accepted, refused: HandleAccept; data, failed, storing: RecvMsg, the    *)
(* last past its tests; waited: HandleWait; closing: HandleClose.          *)
Kinds == {"accepted", "refused", "data", "failed", "storing", "waited", "closing"}

(* Every variable has its type. *)
ServerTypeOK ==
    /\ platform \in Platforms
    /\ sock \in [Slots -> {"closed", "open", "shut"}]
    /\ acceptOps \in Seq(Slots)
    /\ reading \in [Slots -> Nat]
    /\ rxTimer \in [Slots -> BOOLEAN]
    /\ closeTimer \in [Slots -> BOOLEAN]
    /\ ready \in [Kinds \X Slots -> Nat]
    /\ bExit \in [Slots -> BOOLEAN]
    /\ stage \in [Slots -> {"NULL", "RUN"}]
    /\ inbox \in [Slots -> Nat]
    /\ {vecAccept, vecUsed, before, visited} \subseteq Seq(Slots)
    /\ mainPc \in {"update", "visit", "disconnect", "clear", "accept"}
    /\ nIndex \in Nat
    /\ nConns \in 0 .. MaxConns
    /\ nMsgs \in 0 .. MaxMsgs
    /\ nTimeouts \in 0 .. MaxTimeouts
    /\ aborted \in BOOLEAN

(* HandleStart has called SetAccept for every slot. *)
ServerInit ==
    /\ platform \in Platforms
    /\ sock = [s \in Slots |-> "closed"]
    /\ acceptOps = SetToSeq(Slots)
    /\ reading = [s \in Slots |-> 0]
    /\ rxTimer = [s \in Slots |-> FALSE]
    /\ closeTimer = [s \in Slots |-> FALSE]
    /\ ready = [h \in Kinds \X Slots |-> 0]
    /\ bExit = [s \in Slots |-> FALSE]
    /\ stage = [s \in Slots |-> "NULL"]
    /\ inbox = [s \in Slots |-> 0]
    /\ vecAccept = <<>>
    /\ vecUsed = <<>>
    /\ mainPc = "update"
    /\ nIndex = 1
    /\ before = <<>>
    /\ visited = <<>>
    /\ nConns = 0
    /\ nMsgs = 0
    /\ nTimeouts = 0
    /\ aborted = FALSE

InUse(s) == s \in ToSet(vecAccept) \cup ToSet(vecUsed)

IsReady(kind, s) == ready[<<kind, s>>] > 0
Posted(r, kind, s, n) == [r EXCEPT ![<<kind, s>>] = @ + n]
Taken(kind, s) == Posted(ready, kind, s, -1)

(* async_read fails at once on a closed socket; TimeoutStart goes with it. *)
StartRead(s, r) ==
    /\ rxTimer' = [rxTimer EXCEPT ![s] = MaxTimeouts > 0]
    /\ IF sock[s] = "closed"
       THEN ready' = Posted(r, "failed", s, 1) /\ UNCHANGED reading
       ELSE reading' = [reading EXCEPT ![s] = @ + 1] /\ ready' = r

(* async_accept refuses a socket that is still open. *)
SetAccept(s, r) ==
    IF sock[s] = "closed"
    THEN acceptOps' = Append(acceptOps, s) /\ ready' = r
    ELSE ready' = Posted(r, "refused", s, 1) /\ UNCHANGED acceptOps

(* Closing a descriptor aborts what is pending on it. *)
Close(s, r) ==
    /\ sock' = [sock EXCEPT ![s] = "closed"]
    /\ reading' = [reading EXCEPT ![s] = 0]
    /\ ready' = Posted(r, "failed", s, reading[s])

----------------------------------------------------------------------------
(* The peers, the operating system and the timers.                         *)

Connect ==
    /\ acceptOps # <<>>
    /\ nConns < MaxConns
    /\ nConns' = nConns + 1
    /\ sock' = [sock EXCEPT ![Head(acceptOps)] = "open"]
    /\ acceptOps' = Tail(acceptOps)
    /\ ready' = Posted(ready, "accepted", Head(acceptOps), 1)
    /\ UNCHANGED <<reading, timers, slotVars, vecAccept, vecUsed, passVars, platform, nMsgs, nTimeouts, aborted>>

DataArrives(s) ==
    /\ sock[s] = "open"
    /\ reading[s] > 0
    /\ nMsgs < MaxMsgs
    /\ nMsgs' = nMsgs + 1
    /\ reading' = [reading EXCEPT ![s] = @ - 1]
    /\ ready' = Posted(ready, "data", s, 1)
    /\ UNCHANGED <<sock, acceptOps, timers, slotVars, vecAccept, vecUsed, passVars, platform, nConns, nTimeouts, aborted>>

(* End of file from the peer or after our own shutdown, or a reset. *)
ReadEnds(s) ==
    /\ reading[s] > 0
    /\ reading' = [reading EXCEPT ![s] = @ - 1]
    /\ ready' = Posted(ready, "failed", s, 1)
    /\ UNCHANGED <<sock, acceptOps, timers, slotVars, vecAccept, vecUsed, passVars, boundVars, aborted>>

RxTimerExpires(s) ==
    /\ rxTimer[s]
    /\ nTimeouts < MaxTimeouts
    /\ nTimeouts' = nTimeouts + 1
    /\ rxTimer' = [rxTimer EXCEPT ![s] = FALSE]
    /\ ready' = Posted(ready, "waited", s, 1)
    /\ UNCHANGED <<osVars, closeTimer, slotVars, vecAccept, vecUsed, passVars, platform, nConns, nMsgs, aborted>>

CloseTimerExpires(s) ==
    /\ closeTimer[s]
    /\ closeTimer' = [closeTimer EXCEPT ![s] = FALSE]
    /\ ready' = Posted(ready, "closing", s, 1)
    /\ UNCHANGED <<osVars, rxTimer, slotVars, vecAccept, vecUsed, passVars, boundVars, aborted>>

----------------------------------------------------------------------------
(* The completion handlers, on the io threads.                             *)

HandleAcceptFailedMutant(s) ==
    /\ IsReady("refused", s)
    /\ ready' = Taken("refused", s)
    /\ UNCHANGED <<osVars, timers, slotVars, vecAccept, vecUsed, passVars, boundVars, aborted>>

HandleAcceptFailed(s) ==
    /\ IsReady("refused", s)
    /\ SetAccept(s, Taken("refused", s))
    /\ UNCHANGED <<sock, reading, timers, slotVars, vecAccept, vecUsed, passVars, boundVars, aborted>>

(* Under m_cClientListMutex: push_back, then Run. *)
HandleAccept(s) ==
    /\ IsReady("accepted", s)
    /\ vecAccept' = Append(vecAccept, s)
    /\ stage' = [stage EXCEPT ![s] = "RUN"]
    /\ StartRead(s, Taken("accepted", s))
    /\ UNCHANGED <<sock, acceptOps, closeTimer, bExit, inbox, vecUsed, passVars, boundVars, aborted>>

(* RecvMsg with an error, or with a length it rejects. *)
RecvFailed(s) ==
    /\ IsReady("failed", s)
    /\ ready' = Taken("failed", s)
    /\ rxTimer' = [rxTimer EXCEPT ![s] = FALSE]
    /\ bExit' = [bExit EXCEPT ![s] = TRUE]
    /\ UNCHANGED <<osVars, closeTimer, stage, inbox, vecAccept, vecUsed, passVars, boundVars, aborted>>

(* RecvMsg with data: the switch has no case for NULL but an ASSERT. *)
RecvMsg(s) ==
    /\ IsReady("data", s)
    /\ rxTimer' = [rxTimer EXCEPT ![s] = FALSE]
    /\ IF stage[s] = "NULL"
       THEN ready' = Taken("data", s) /\ aborted' = (platform = "linux")
       ELSE ready' = Posted(Taken("data", s), "storing", s, 1) /\ UNCHANGED aborted
    /\ UNCHANGED <<osVars, closeTimer, slotVars, vecAccept, vecUsed, passVars, boundVars>>

RecvStoreMutant(s) ==
    /\ IsReady("storing", s)
    /\ inbox' = [inbox EXCEPT ![s] = @ + 1]
    /\ stage' = [stage EXCEPT ![s] = "RUN"]
    /\ ready' = Taken("storing", s)
    /\ UNCHANGED <<osVars, timers, bExit, vecAccept, vecUsed, passVars, boundVars, aborted>>

(* The rest of RecvMsg: Write, the next stage, the next read. *)
RecvStore(s) ==
    /\ IsReady("storing", s)
    /\ inbox' = [inbox EXCEPT ![s] = @ + 1]
    /\ stage' = [stage EXCEPT ![s] = "RUN"]
    /\ StartRead(s, Taken("storing", s))
    /\ UNCHANGED <<sock, acceptOps, closeTimer, bExit, vecAccept, vecUsed, passVars, boundVars, aborted>>

HandleWait(s) ==
    /\ IsReady("waited", s)
    /\ ready' = Taken("waited", s)
    /\ bExit' = [bExit EXCEPT ![s] = TRUE]
    /\ UNCHANGED <<osVars, timers, stage, inbox, vecAccept, vecUsed, passVars, boundVars, aborted>>

HandleClose(s) ==
    /\ IsReady("closing", s)
    /\ Close(s, Taken("closing", s))
    /\ UNCHANGED <<acceptOps, timers, slotVars, vecAccept, vecUsed, passVars, boundVars, aborted>>

----------------------------------------------------------------------------
(* The main loop: Update.                                                  *)

OnUpdateAcceptMutant ==
    /\ mainPc = "update"
    /\ vecAccept # <<>> \/ vecUsed # <<>>
    /\ vecUsed' = vecUsed \o vecAccept
    /\ before' = vecUsed'
    /\ mainPc' = "visit"
    /\ UNCHANGED <<osVars, timers, ready, slotVars, vecAccept, nIndex, visited, boundVars, aborted>>

(* OnUpdateAccept under the mutex, then OnUpdateRecived begins. *)
OnUpdateAccept ==
    /\ mainPc = "update"
    /\ vecAccept # <<>> \/ vecUsed # <<>>
    /\ vecUsed' = vecUsed \o vecAccept
    /\ vecAccept' = <<>>
    /\ before' = vecUsed'
    /\ mainPc' = "visit"
    /\ UNCHANGED <<osVars, timers, ready, slotVars, nIndex, visited, boundVars, aborted>>

Visiting(s) ==
    /\ mainPc = "visit"
    /\ nIndex <= Len(vecUsed)
    /\ s = vecUsed[nIndex]
    /\ visited' = Append(visited, s)

VisitExitMutant(s) ==
    /\ Visiting(s)
    /\ bExit[s]
    /\ vecUsed' = RemoveAt(vecUsed, nIndex)
    /\ nIndex' = nIndex + 1
    /\ mainPc' = "disconnect"
    /\ UNCHANGED <<osVars, timers, ready, slotVars, vecAccept, before, boundVars, aborted>>

(* MSG_READ_INVALID: m_pOnExit, erase, and nIndex-- against the ++nIndex.  *)
VisitExit(s) ==
    /\ Visiting(s)
    /\ bExit[s]
    /\ vecUsed' = RemoveAt(vecUsed, nIndex)
    /\ mainPc' = "disconnect"
    /\ UNCHANGED <<osVars, timers, ready, slotVars, vecAccept, nIndex, before, boundVars, aborted>>

(* MSG_READ_OK: m_pOnMsg, which may call SetWillColse on any session's     *)
(* socket, then RemoveMsg.                                                 *)
VisitMessage(s) ==
    /\ Visiting(s)
    /\ ~bExit[s]
    /\ inbox[s] > 0
    /\ \E closed \in {{}} \cup {{t} : t \in ToSet(vecUsed)} :
          bExit' = [t \in Slots |-> bExit[t] \/ t \in closed]
    /\ inbox' = [inbox EXCEPT ![s] = @ - 1]
    /\ nIndex' = nIndex + 1
    /\ UNCHANGED <<osVars, timers, ready, stage, vecAccept, vecUsed, mainPc, before, boundVars, aborted>>

VisitNothing(s) ==
    /\ Visiting(s)
    /\ ~bExit[s]
    /\ inbox[s] = 0
    /\ nIndex' = nIndex + 1
    /\ UNCHANGED <<osVars, timers, ready, slotVars, vecAccept, vecUsed, mainPc, before, boundVars, aborted>>

PassEnds ==
    /\ mainPc = "visit"
    /\ nIndex > Len(vecUsed)
    /\ mainPc' = "update"
    /\ nIndex' = 1
    /\ before' = <<>>
    /\ visited' = <<>>
    /\ UNCHANGED <<osVars, timers, ready, slotVars, vecAccept, vecUsed, boundVars, aborted>>

(* The pSocket of OnUpdateRecived. *)
pSocket == visited[Len(visited)]

DisconnectMutant ==
    /\ mainPc = "disconnect"
    /\ Close(pSocket, ready)
    /\ closeTimer' = [closeTimer EXCEPT ![pSocket] = (platform = "linux")]
    /\ mainPc' = "clear"
    /\ UNCHANGED <<acceptOps, rxTimer, slotVars, vecAccept, vecUsed, nIndex, before, visited, boundVars, aborted>>

Disconnect ==
    /\ mainPc = "disconnect"
    /\ IF platform = "win32"
       THEN Close(pSocket, ready) /\ UNCHANGED closeTimer
       ELSE /\ sock' = [sock EXCEPT ![pSocket] = "shut"]
            /\ closeTimer' = [closeTimer EXCEPT ![pSocket] = TRUE]
            /\ UNCHANGED <<reading, ready>>
    /\ mainPc' = "clear"
    /\ UNCHANGED <<acceptOps, rxTimer, slotVars, vecAccept, vecUsed, nIndex, before, visited, boundVars, aborted>>

(* m_bSending and m_cOBuffer are set back as well: NetSocketSend models    *)
(* them, for one connection.                                               *)
Clear ==
    /\ mainPc = "clear"
    /\ bExit' = [bExit EXCEPT ![pSocket] = FALSE]
    /\ stage' = [stage EXCEPT ![pSocket] = "NULL"]
    /\ inbox' = [inbox EXCEPT ![pSocket] = 0]
    /\ mainPc' = "accept"
    /\ UNCHANGED <<osVars, timers, ready, vecAccept, vecUsed, nIndex, before, visited, boundVars, aborted>>

Reaccept ==
    /\ mainPc = "accept"
    /\ SetAccept(pSocket, ready)
    /\ mainPc' = "visit"
    /\ UNCHANGED <<sock, reading, timers, slotVars, vecAccept, vecUsed, nIndex, before, visited, boundVars, aborted>>

----------------------------------------------------------------------------
OsNext ==
    \/ Connect
    \/ \E s \in Slots : DataArrives(s) \/ ReadEnds(s) \/ RxTimerExpires(s) \/ CloseTimerExpires(s)

Handler(s) ==
    \/ HandleAcceptFailed(s)
    \/ HandleAccept(s)
    \/ RecvFailed(s)
    \/ RecvMsg(s)
    \/ RecvStore(s)
    \/ HandleWait(s)
    \/ HandleClose(s)

Update ==
    \/ OnUpdateAccept
    \/ \E s \in Slots : VisitExit(s) \/ VisitMessage(s) \/ VisitNothing(s)
    \/ PassEnds
    \/ Disconnect
    \/ Clear
    \/ Reaccept

ServerNext == ~aborted /\ (OsNext \/ Update \/ \E s \in Slots : Handler(s))

ServerSpec == ServerInit /\ [][ServerNext]_serverVars

(* The main loop never stops calling Update, the io threads run every      *)
(* ready handler and timers expire; the peers owe nothing.                 *)
FairServerSpec ==
    /\ ServerSpec
    /\ WF_serverVars(~aborted /\ Update)
    /\ \A s \in Slots :
          /\ WF_serverVars(~aborted /\ CloseTimerExpires(s))
          /\ WF_serverVars(~aborted /\ HandleAcceptFailed(s))
          /\ WF_serverVars(~aborted /\ HandleClose(s))

----------------------------------------------------------------------------
(* Where a slot can be: waiting with the acceptor, in a HandleAccept that  *)
(* is ready, in one of the two vectors, or in the hands of OnUpdateRecived.*)
Copies(s) ==
    LET Occurrences(seq) == Cardinality({i \in DOMAIN seq : seq[i] = s}) IN
    Occurrences(acceptOps) + ready[<<"accepted", s>>] + ready[<<"refused", s>>]
      + Occurrences(vecAccept) + Occurrences(vecUsed)
      + (IF mainPc \in {"disconnect", "clear", "accept"} /\ pSocket = s THEN 1 ELSE 0)

(* No slot is ever lost or held twice: it is not accepted twice at once,    *)
(* entered twice or exited twice, and none drops out of the pool.          *)
SlotsConserved == \A s \in Slots : Copies(s) = 1

(* A slot in use has its descriptor open, and no late HandleClose of the   *)
(* connection before can close the one that is in it now.                  *)
NoLateClose ==
    \A s \in Slots : InUse(s) =>
        sock[s] = "open" /\ ~closeTimer[s] /\ ~IsReady("closing", s)

(* A connection never goes deaf: a slot in use that is not about to be     *)
(* dropped has a read pending or a RecvMsg that will start the next one.   *)
NeverDeaf ==
    \A s \in Slots : InUse(s) /\ ~bExit[s] =>
        \/ reading[s] > 0
        \/ \E kind \in {"data", "failed", "storing"} : IsReady(kind, s)

(* Erasing from the vector while walking it skips no socket and visits     *)
(* none twice: a pass sees the vector it began with, in order.             *)
EachVisitedOnce ==
    mainPc = "visit" /\ nIndex > Len(vecUsed) => visited = before

(* A connection that is to end frees its slot: it comes back to the        *)
(* acceptor, through a second of refused accepts on Linux.                 *)
SlotReturns ==
    \A s \in Slots :
        (s \in ToSet(vecUsed) /\ bExit[s]) ~> (s \in ToSet(acceptOps) \/ aborted)

=============================================================================
