------------------------------ MODULE NetClient ------------------------------
(***************************************************************************)
(* The connections a server makes itself (ServerConnectMgr).  Each has a   *)
(* NetClient with a socket and an io thread of its own; the main loop      *)
(* visits them all.  The connected callback runs on the io thread, every   *)
(* other one in the main loop, and nothing locks what they share.          *)
(*                                                                         *)
(* Peers are server IDs.  A socket has at most one read and one write      *)
(* outstanding; a handler of theirs runs only when the io thread is in     *)
(* none other.                                                             *)
(***************************************************************************)
EXTENDS Integers, FiniteSets

CONSTANTS
    Peers,        \* the IDs of the servers to connect to
    MaxConnects,  \* how many times ConnectToServer is called,
    MaxMessages   \* and how many messages come: bounds of the model only

ASSUME ClientAssumption ==
    Peers \subseteq Nat \ {0} /\ MaxConnects \in Nat /\ MaxMessages \in Nat

VARIABLES
    pc,          \* where the main loop is: [at, peer]
    todo,        \* the clients this Update has still to visit
    vecClients,  \* m_vecNetClientInfo
    toRemove,    \* m_vecNetClient
    client,      \* the NetClient object of a peer
    io,          \* where its io thread is
    pending,     \* the operations outstanding on its socket,
    failed,      \* and those whose handler waits to run with an error
    m_cIBuffer,  \* the message to read, if there is one
    m_bExit,
    session,     \* the ServerSession of its socket
    m_mapServerIdSession, \* the IDs it knows a session by, this connection's or an older one's
    released,    \* the session just released: the ID its memory holds now, and its new owner
    nConnects, nMessages,
    closedHere,  \* peers whose socket this side closed with work outstanding (history)
    mistaken,    \* RemoveServer was given the ID of another (history)
    aborted      \* what ended the process, if something did

mainVars == <<pc, todo, vecClients, toRemove>>
ioVars == <<io, pending, failed>>
sessions == <<session, m_mapServerIdSession>>
history == <<nConnects, nMessages, closedHere, mistaken>>
clientVars == <<mainVars, client, ioVars, m_cIBuffer, m_bExit, sessions, released, history, aborted>>

None == "none"
Idle == [at |-> "idle", peer |-> 0]
At(place, p) == pc = [at |-> place, peer |-> p]
Goto(place, p) == pc' = [at |-> place, peer |-> p]
Ops == {"read", "write"}
NoBlock == [id |-> 0, owner |-> 0]

ClientTypeOK ==
    /\ pc \in [at : {"idle", "listing", "walk", "exit", "remove", "disconnect", "clear"}, peer : Peers \cup {0}]
    /\ todo \subseteq vecClients /\ vecClients \subseteq Peers /\ toRemove \subseteq Peers \cup {0}
    /\ client \in [Peers -> {"none", "live", "deleted"}]
    /\ io \in [Peers -> {"none", "connecting", "enter", "init", "loop", "ended"}]
    /\ pending \in [Peers -> SUBSET Ops] /\ failed \in [Peers -> SUBSET Ops]
    /\ \A p \in Peers : pending[p] \cap failed[p] = {}
    /\ m_cIBuffer \in [Peers -> {None, "known", "unknown"}]
    /\ m_bExit \in [Peers -> BOOLEAN]
    /\ session \in [Peers -> {None, "created", "inited"}]
    /\ m_mapServerIdSession \subseteq Peers
    /\ released \in [id : Peers \cup {0}, owner : Peers \cup {0}]
    /\ nConnects \in 0 .. MaxConnects /\ nMessages \in 0 .. MaxMessages
    /\ closedHere \subseteq Peers /\ mistaken \in BOOLEAN
    /\ aborted \in {None, "GetNetClient", "OnMsg", "OnExit", "RemoveSession", "Deleted"}

ClientInit ==
    /\ pc = Idle /\ todo = {} /\ vecClients = {} /\ toRemove = {}
    /\ client = [p \in Peers |-> "none"]
    /\ io = [p \in Peers |-> "none"]
    /\ pending = [p \in Peers |-> {}] /\ failed = [p \in Peers |-> {}]
    /\ m_cIBuffer = [p \in Peers |-> None]
    /\ m_bExit = [p \in Peers |-> FALSE]
    /\ session = [p \in Peers |-> None] /\ m_mapServerIdSession = {}
    /\ released = NoBlock
    /\ nConnects = 0 /\ nMessages = 0 /\ closedHere = {} /\ mistaken = FALSE
    /\ aborted = None

----------------------------------------------------------------------------
(* The main loop.                                                          *)

(* ConnectToServer: the io thread runs before the client is in the vector. *)
(* The new socket has no session; one of a client deleted before its exit  *)
(* was told is left in the maps.                                           *)
ConnectToServer(p) ==
    /\ pc = Idle /\ p \notin vecClients /\ nConnects < MaxConnects
    /\ nConnects' = nConnects + 1
    /\ client' = [client EXCEPT ![p] = "live"]
    /\ io' = [io EXCEPT ![p] = "connecting"]
    /\ pending' = [pending EXCEPT ![p] = {}] /\ failed' = [failed EXCEPT ![p] = {}]
    /\ m_cIBuffer' = [m_cIBuffer EXCEPT ![p] = None]
    /\ m_bExit' = [m_bExit EXCEPT ![p] = FALSE]
    /\ session' = [session EXCEPT ![p] = None]
    /\ closedHere' = closedHere \ {p}
    /\ Goto("listing", p)
    /\ UNCHANGED <<todo, vecClients, toRemove, m_mapServerIdSession, released, nMessages, mistaken, aborted>>

PushBack(p) ==
    /\ At("listing", p)
    /\ vecClients' = vecClients \cup {p}
    /\ pc' = Idle
    /\ UNCHANGED <<todo, toRemove, client, ioVars, m_cIBuffer, m_bExit, sessions, released, history, aborted>>

(* The top of Update: the clients RemoveServer named are deleted, whatever *)
(* their io threads are doing.                                             *)
UpdateStart ==
    /\ pc = Idle
    /\ client' = [p \in Peers |-> IF p \in toRemove \cap vecClients THEN "deleted" ELSE client[p]]
    /\ vecClients' = vecClients \ toRemove
    /\ todo' = vecClients \ toRemove
    /\ toRemove' = {}
    /\ Goto("walk", 0)
    /\ UNCHANGED <<ioVars, m_cIBuffer, m_bExit, sessions, released, history, aborted>>

(* NetClient::Update: the exit comes before the messages. *)
VisitExit(p) ==
    /\ At("walk", 0) /\ p \in todo /\ m_bExit[p]
    /\ todo' = todo \ {p}
    /\ Goto("exit", p)
    /\ UNCHANGED <<vecClients, toRemove, client, ioVars, m_cIBuffer, m_bExit, sessions, released, history, aborted>>

(* FOR_S_ON_MSG: a message of no known type ends the connection. *)
VisitMessage(p) ==
    /\ At("walk", 0) /\ p \in todo /\ ~m_bExit[p] /\ m_cIBuffer[p] # None
    /\ todo' = todo \ {p}
    /\ m_cIBuffer' = [m_cIBuffer EXCEPT ![p] = None]
    /\ m_bExit' = [m_bExit EXCEPT ![p] = session[p] # None /\ m_cIBuffer[p] = "unknown"]
    /\ aborted' = IF session[p] = None THEN "OnMsg" ELSE aborted
    /\ UNCHANGED <<pc, vecClients, toRemove, client, ioVars, sessions, released, history>>

VisitNothing(p) ==
    /\ At("walk", 0) /\ p \in todo /\ ~m_bExit[p] /\ m_cIBuffer[p] = None
    /\ todo' = todo \ {p}
    /\ UNCHANGED <<pc, vecClients, toRemove, client, ioVars, m_cIBuffer, m_bExit, sessions, released, history, aborted>>

UpdateEnds ==
    /\ At("walk", 0) /\ todo = {}
    /\ pc' = Idle
    /\ UNCHANGED <<todo, vecClients, toRemove, client, ioVars, m_cIBuffer, m_bExit, sessions, released, history, aborted>>

(* FOR_S_C_ON_MSG_EXIT, first half: the session is found by its socket and *)
(* removed by its ID, each under an assertion.                             *)
ExitRemovesSession(p) ==
    /\ At("exit", p)
    /\ aborted' = CASE session[p] = None -> "OnExit"
                    [] session[p] = "created" -> "RemoveSession"
                    [] OTHER -> aborted
    /\ session' = [session EXCEPT ![p] = None]
    /\ m_mapServerIdSession' = IF session[p] = "inited" THEN m_mapServerIdSession \ {p} ELSE m_mapServerIdSession
    /\ released' = [id |-> p, owner |-> 0]
    /\ Goto("remove", p)
    /\ UNCHANGED <<todo, vecClients, toRemove, client, ioVars, m_cIBuffer, m_bExit, history>>

(* A mutant: RemoveServer is not called. *)
ExitRemovesServerMutant(p) ==
    /\ At("remove", p)
    /\ released' = NoBlock
    /\ Goto("disconnect", p)
    /\ UNCHANGED <<todo, vecClients, toRemove, client, ioVars, m_cIBuffer, m_bExit, sessions, history, aborted>>

(* Second half: RemoveServer reads the ID from the released session, whose *)
(* memory the connected callback of another client may have taken.         *)
ExitRemovesServer(p) ==
    /\ At("remove", p)
    /\ toRemove' = toRemove \cup {released.id}
    /\ mistaken' = (mistaken \/ released.id # p)
    /\ released' = NoBlock
    /\ Goto("disconnect", p)
    /\ UNCHANGED <<todo, vecClients, client, ioVars, m_cIBuffer, m_bExit, sessions, nConnects, nMessages, closedHere, aborted>>

(* Disconnect aborts what is outstanding; the handlers run all the same. *)
Disconnect(p) ==
    /\ At("disconnect", p)
    /\ failed' = [failed EXCEPT ![p] = @ \cup pending[p]]
    /\ pending' = [pending EXCEPT ![p] = {}]
    /\ closedHere' = IF pending[p] \cup failed[p] = {} THEN closedHere ELSE closedHere \cup {p}
    /\ Goto("clear", p)
    /\ UNCHANGED <<todo, vecClients, toRemove, client, io, m_cIBuffer, m_bExit, sessions, released, nConnects, nMessages, mistaken, aborted>>

(* m_bSending and m_cOBuffer, which it sets back as well, are not modelled *)
(* here.                                                                   *)
Clear(p) ==
    /\ At("clear", p)
    /\ m_bExit' = [m_bExit EXCEPT ![p] = FALSE]
    /\ m_cIBuffer' = [m_cIBuffer EXCEPT ![p] = None]
    /\ Goto("walk", 0)
    /\ UNCHANGED <<todo, vecClients, toRemove, client, ioVars, sessions, released, history, aborted>>

----------------------------------------------------------------------------
(* The io thread of a client.                                              *)

(* HandleConnect without an error (with one it connects again): Run starts *)
(* the first read, then the connected callback follows.                    *)
HandleConnect(p) ==
    /\ io[p] = "connecting" /\ client[p] = "live"
    /\ pending' = [pending EXCEPT ![p] = {"read"}]
    /\ io' = [io EXCEPT ![p] = "enter"]
    /\ UNCHANGED <<mainVars, client, failed, m_cIBuffer, m_bExit, sessions, released, history, aborted>>

(* FOR_S_C_ON_MSG_ENTER, CreateSession and GetNetClient: the pool gives    *)
(* out first what it was given back last.                                  *)
EnterCreates(p) ==
    /\ io[p] = "enter" /\ client[p] = "live"
    /\ session' = [session EXCEPT ![p] = "created"]
    /\ released' = IF released.id # 0 /\ released.owner = 0 THEN [id |-> 0, owner |-> p] ELSE released
    /\ aborted' = IF p \in vecClients THEN aborted ELSE "GetNetClient"
    /\ io' = [io EXCEPT ![p] = "init"]
    /\ UNCHANGED <<mainVars, client, pending, failed, m_cIBuffer, m_bExit, m_mapServerIdSession, history>>

(* InitSession with the ID of the entry, then LoginToS sends. *)
EnterInits(p) ==
    /\ io[p] = "init" /\ client[p] = "live"
    /\ p \notin m_mapServerIdSession
    /\ m_mapServerIdSession' = m_mapServerIdSession \cup {p}
    /\ session' = [session EXCEPT ![p] = "inited"]
    /\ released' = IF released.owner = p THEN [released EXCEPT !.id = p] ELSE released
    /\ pending' = [pending EXCEPT ![p] = @ \cup {"write"}]
    /\ io' = [io EXCEPT ![p] = "loop"]
    /\ UNCHANGED <<mainVars, client, failed, m_cIBuffer, m_bExit, history, aborted>>

(* InitSession fails for an ID that has a session already: Exist, and the  *)
(* session keeps ID 0.                                                     *)
EnterRepeated(p) ==
    /\ io[p] = "init" /\ client[p] = "live"
    /\ p \in m_mapServerIdSession
    /\ m_bExit' = [m_bExit EXCEPT ![p] = TRUE]
    /\ io' = [io EXCEPT ![p] = "loop"]
    /\ UNCHANGED <<mainVars, client, pending, failed, m_cIBuffer, sessions, released, history, aborted>>

(* A mutant: a second thread runs the io_service. *)
RecvMsgMutant(p, msg) ==
    /\ io[p] \in {"enter", "init", "loop"} /\ client[p] = "live"
    /\ "read" \in pending[p] /\ m_cIBuffer[p] = None
    /\ nMessages < MaxMessages
    /\ nMessages' = nMessages + 1
    /\ m_cIBuffer' = [m_cIBuffer EXCEPT ![p] = msg]
    /\ UNCHANGED <<mainVars, client, ioVars, m_bExit, sessions, released, nConnects, closedHere, mistaken, aborted>>

(* A read of one message completes: it is stored and the next begins. *)
RecvMsg(p, msg) ==
    /\ io[p] = "loop" /\ client[p] = "live"
    /\ "read" \in pending[p] /\ m_cIBuffer[p] = None
    /\ nMessages < MaxMessages
    /\ nMessages' = nMessages + 1
    /\ m_cIBuffer' = [m_cIBuffer EXCEPT ![p] = msg]
    /\ UNCHANGED <<mainVars, client, ioVars, m_bExit, sessions, released, nConnects, closedHere, mistaken, aborted>>

WriteDone(p) ==
    /\ io[p] = "loop" /\ client[p] = "live" /\ "write" \in pending[p]
    /\ pending' = [pending EXCEPT ![p] = @ \ {"write"}]
    /\ UNCHANGED <<mainVars, client, io, failed, m_cIBuffer, m_bExit, sessions, released, history, aborted>>

(* A mutant: the error is taken on whichever thread sees it first. *)
HandleErrorMutant(p, op) ==
    /\ client[p] = "live" /\ op \in failed[p]
    /\ failed' = [failed EXCEPT ![p] = @ \ {op}]
    /\ m_bExit' = [m_bExit EXCEPT ![p] = TRUE]
    /\ UNCHANGED <<mainVars, client, io, pending, m_cIBuffer, sessions, released, history, aborted>>

(* The handler of a read or a write that failed or was aborted. *)
HandleError(p, op) ==
    /\ io[p] = "loop" /\ client[p] = "live" /\ op \in failed[p]
    /\ failed' = [failed EXCEPT ![p] = @ \ {op}]
    /\ m_bExit' = [m_bExit EXCEPT ![p] = TRUE]
    /\ UNCHANGED <<mainVars, client, io, pending, m_cIBuffer, sessions, released, history, aborted>>

(* run() returns when nothing is outstanding, and the thread ends. *)
RunReturns(p) ==
    /\ io[p] = "loop" /\ client[p] = "live" /\ pending[p] \cup failed[p] = {}
    /\ io' = [io EXCEPT ![p] = "ended"]
    /\ UNCHANGED <<mainVars, client, pending, failed, m_cIBuffer, m_bExit, sessions, released, history, aborted>>

(* A thread still in run() goes on with a deleted io_service and socket. *)
IoUsesDeleted(p) ==
    /\ client[p] = "deleted" /\ io[p] \notin {"none", "ended"}
    /\ aborted' = "Deleted"
    /\ UNCHANGED <<mainVars, client, ioVars, m_cIBuffer, m_bExit, sessions, released, history>>

(* The peer goes away: the operations outstanding fail, not all at once. *)
PeerCloses(p, op) ==
    /\ op \in pending[p]
    /\ failed' = [failed EXCEPT ![p] = @ \cup {op}]
    /\ pending' = [pending EXCEPT ![p] = @ \ {op}]
    /\ UNCHANGED <<mainVars, client, io, m_cIBuffer, m_bExit, sessions, released, history, aborted>>

----------------------------------------------------------------------------
MainNext ==
    \/ UpdateStart \/ UpdateEnds
    \/ \E p \in Peers :
          \/ PushBack(p) \/ VisitExit(p) \/ VisitMessage(p) \/ VisitNothing(p)
          \/ ExitRemovesSession(p) \/ ExitRemovesServer(p) \/ Disconnect(p) \/ Clear(p)

IoNext(p) ==
    \/ HandleConnect(p) \/ EnterCreates(p) \/ EnterInits(p) \/ EnterRepeated(p)
    \/ WriteDone(p) \/ RunReturns(p) \/ IoUsesDeleted(p)
    \/ \E op \in Ops : HandleError(p, op)

Environment ==
    \E p \in Peers :
        \/ ConnectToServer(p)
        \/ \E msg \in {"known", "unknown"} : RecvMsg(p, msg)
        \/ \E op \in Ops : PeerCloses(p, op)

ClientNext ==
    aborted = None /\ (MainNext \/ Environment \/ \E p \in Peers : IoNext(p))

ClientSpec == ClientInit /\ [][ClientNext]_clientVars

(* The main loop goes round for ever, visiting every client, and each io   *)
(* thread runs the handlers it has.                                        *)
FairClientSpec ==
    /\ ClientSpec
    /\ WF_clientVars(aborted = None /\ MainNext)
    /\ \A p \in Peers : WF_clientVars(aborted = None /\ IoNext(p))

----------------------------------------------------------------------------
(* No message is dispatched for a socket that has no session: the one io   *)
(* thread is in the connected callback (NetClient.cpp:67) until the        *)
(* session is made, and can complete no read before.                       *)
SessionBeforeMessage == aborted # "OnMsg"

(* The exit callback finds its session, by the socket and by the ID.  It   *)
(* finds none only when it is told a second time, to a connection this     *)
(* side closed with an operation outstanding, whose handler sets m_bExit   *)
(* again after Clear (NetClient.cpp:105).  The ID it reads is not one in   *)
(* the map only after RemoveServer was given another's ID: the session of  *)
(* the client deleted by mistake still has that ID when the server is      *)
(* connected again, and InitSession fails (BaseMsgHandler.h:167).          *)
ExitOnce ==
    /\ aborted = "OnExit" => pc.peer \in closedHere
    /\ aborted = "RemoveSession" => mistaken /\ pc.peer \in m_mapServerIdSession

(* A connection that has ended leaves the vector, so that ConnectToServer  *)
(* can make it again.                                                      *)
EndedIsRemoved ==
    \A p \in Peers : (m_bExit[p] /\ p \in vecClients) ~> (p \notin vecClients \/ mistaken \/ aborted # None)

=============================================================================
