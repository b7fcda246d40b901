----------------------------- MODULE ServerLogin -----------------------------
(***************************************************************************)
(* How the servers find each other.  Every server connects to the world    *)
(* server and logs in with its ID.  The world server tells the login and   *)
(* scene servers (Connectors) of the front ends and data servers           *)
(* (Acceptors), and they connect to those.  Servers go down at any moment  *)
(* and come back with the same ID; the world server stays up.              *)
(*                                                                         *)
(* A link is one TCP connection with the session its host made for it, and *)
(* is named by the socket its host has for it, which is used again when    *)
(* both ends are done with it.  Every handler runs in the main loop of its *)
(* process and is one step; the connected callback, which runs on an io    *)
(* thread, is split in module NetClient.                                   *)
(***************************************************************************)
EXTENDS Integers, Sequences, FiniteSets

CONSTANTS
    Ls, Ss,        \* server IDs of the login and scene servers,
    Feps, Dps,     \* of the front ends and data servers
    Slots,         \* sockets a host has for connections of one server,
    MaxFaults,     \* how many servers go down or links fall silent,
    MaxPlaces      \* and how many clients ask: bounds of the model only

Connectors == Ls \cup Ss
Acceptors == Feps \cup Dps
Servers == Connectors \cup Acceptors
WS == 0
Hosts == {WS} \cup Acceptors

ASSUME LoginAssumption ==
    /\ Servers \subseteq Nat \ {0}
    /\ Connectors \cap Acceptors = {}
    /\ Ls \cap Ss = {} /\ Feps \cap Dps = {}
    /\ Slots \in Nat \ {0} /\ MaxFaults \in Nat /\ MaxPlaces \in Nat

VARIABLES
    up,          \* the servers that run
    links,       \* the connections
    byID,        \* m_mapServerIdSession of each host: the link of an ID, or NoLink
    serverInfo,  \* m_mapServerInfo: [link, nLoadCount] of an ID, or NotListed
    wsSession,   \* each server's session to the world server: [link, status]
    vecClients,  \* m_vecNetClientInfo of each connector
    toRemove,    \* its m_vecNetClient: the IDs RemoveServer was given
    peers,       \* its sessions to the acceptors: [link, status]
    nFaults, nPlaces,
    refused,     \* pairs whose ConnectToServer met the entry of a dead connection
    aborted      \* the ASSERT that ended a process, if one did

loginVars == <<up, links, byID, serverInfo, wsSession, vecClients, toRemove, peers, nFaults, nPlaces, refused, aborted>>
connVars == <<vecClients, toRemove, peers, refused>>

None == "none"
NoLink == <<>>
NoSession == [link |-> NoLink, status |-> "NONE"]
NotListed == [link |-> NoLink, nLoadCount |-> 0]

ReqLogin == [type |-> "ReqLogin"]
ReqLoadLest == [type |-> "ReqLoadLest"]
RepLogined(ok) == [type |-> "RepLogined", ok |-> ok]
RepServerInfoList(ids) == [type |-> "ServerInfoList", ids |-> ids]
NofitySInfo(f, d) == [type |-> "SInfo", fep |-> f, dp |-> d]

LinkIDs == {<<s, WS, n>> : s \in Servers, n \in 1 .. Slots}
           \cup {<<c, a, n>> : c \in Connectors, a \in Acceptors, n \in 1 .. Slots}
MaybeLink == LinkIDs \cup {NoLink}
Client(k) == k[1]
Host(k) == k[2]

(* clientEnd and hostEnd say how far each side is with the connection; id  *)
(* is m_nServerID of the host's session, sess whether it has one, c2h and  *)
(* h2c hold the messages on the way.                                       *)
Free == [clientEnd |-> "closed", hostEnd |-> "closed", sess |-> FALSE, id |-> 0, c2h |-> <<>>, h2c |-> <<>>]
NewLinkMutant == [Free EXCEPT !.clientEnd = "open", !.hostEnd = "new", !.c2h = <<ReqLogin, ReqLogin>>]
NewLink == [Free EXCEPT !.clientEnd = "open", !.hostEnd = "new", !.c2h = <<ReqLogin>>]

(* The first socket a host has free for a server, if there is one. *)
FreshLinks(c, h) ==
    {k \in LinkIDs : /\ Client(k) = c /\ Host(k) = h /\ links[k] = Free
                     /\ \A n \in 1 .. k[3] - 1 : links[<<c, h, n>>] # Free}

(* An end that closes gives the socket back once the other has closed too. *)
ClientCloses(link) == IF link.hostEnd = "closed" THEN Free
                      ELSE [link EXCEPT !.clientEnd = "closed", !.h2c = <<>>]
HostCloses(link) == IF link.clientEnd = "closed" THEN Free
                    ELSE [link EXCEPT !.hostEnd = "closed", !.sess = FALSE, !.c2h = <<>>]

SessionStates == [link : MaybeLink, status : {"NONE", "CONNETED", "LOGINED"}]

(* Every variable has its type, and a host has a session for a connection  *)
(* from the connected callback to the exit callback, and no longer.        *)
LoginTypeOK ==
    /\ up \subseteq Servers
    /\ DOMAIN links = LinkIDs
    /\ \A k \in LinkIDs :
          /\ links[k].clientEnd \in {"open", "closed"}
          /\ links[k].hostEnd \in {"new", "open", "closing", "closed"}
          /\ links[k].id \in Servers \cup {0}
          /\ aborted = None => links[k].sess = (links[k].hostEnd \in {"open", "closing"})
    /\ byID \in [Hosts -> [Servers -> MaybeLink]]
    /\ serverInfo \in [Servers -> [link : MaybeLink, nLoadCount : 0 .. MaxPlaces]]
    /\ wsSession \in [Servers -> SessionStates]
    /\ vecClients \in [Connectors -> SUBSET Acceptors]
    /\ toRemove \in [Connectors -> SUBSET Acceptors]
    /\ peers \in [Connectors -> [Acceptors -> SessionStates]]
    /\ nFaults \in 0 .. MaxFaults /\ nPlaces \in 0 .. MaxPlaces
    /\ refused \subseteq Connectors \X Acceptors
    /\ aborted \in {None, "WsRepeat", "NoServer", "Exit", "Notify", "GetNetClient"}

LoginInit ==
    /\ up = {}
    /\ links = [k \in LinkIDs |-> Free]
    /\ byID = [h \in Hosts |-> [s \in Servers |-> NoLink]]
    /\ serverInfo = [s \in Servers |-> NotListed]
    /\ wsSession = [s \in Servers |-> NoSession]
    /\ vecClients = [c \in Connectors |-> {}]
    /\ toRemove = [c \in Connectors |-> {}]
    /\ peers = [c \in Connectors |-> [a \in Acceptors |-> NoSession]]
    /\ nFaults = 0 /\ nPlaces = 0
    /\ refused = {}
    /\ aborted = None

(* The process named by label ends when cond fails (assert, NetConfig.h). *)
ASSERT(cond, label) == aborted' = IF cond THEN aborted ELSE label

ToHost(k, type) == links[k].c2h # <<>> /\ Head(links[k].c2h).type = type
ToClient(k, type) == k # NoLink /\ links[k].h2c # <<>> /\ Head(links[k].h2c).type = type

(* A message to a side that is gone is lost. *)
Reply(link, msg) == IF link.clientEnd = "open" THEN [link EXCEPT !.h2c = Append(@, msg)] ELSE link

----------------------------------------------------------------------------
(* Servers come and go.                                                    *)

(* The main of a server: its NetClient reaches the world server, and the   *)
(* connected callback makes a session and asks to log in.                  *)
ServerStart(s) ==
    /\ s \notin up
    /\ up' = up \cup {s}
    /\ \E k \in FreshLinks(s, WS) :
          /\ links' = [links EXCEPT ![k] = NewLink]
          /\ wsSession' = [wsSession EXCEPT ![s] = [link |-> k, status |-> "CONNETED"]]
    /\ UNCHANGED <<byID, serverInfo, connVars, nFaults, nPlaces, aborted>>

(* A process dies with all it holds; its peers will see their ends fail.   *)
ServerDown(s) ==
    /\ s \in up
    /\ nFaults < MaxFaults
    /\ nFaults' = nFaults + 1
    /\ up' = up \ {s}
    /\ links' = [k \in LinkIDs |->
          IF Client(k) = s /\ links[k].clientEnd = "open" THEN ClientCloses(links[k])
          ELSE IF Host(k) = s /\ links[k].hostEnd # "closed" THEN HostCloses(links[k])
          ELSE links[k]]
    /\ byID' = IF s \in Acceptors THEN [byID EXCEPT ![s] = [t \in Servers |-> NoLink]] ELSE byID
    /\ wsSession' = [wsSession EXCEPT ![s] = NoSession]
    /\ IF s \in Connectors
       THEN /\ vecClients' = [vecClients EXCEPT ![s] = {}]
            /\ toRemove' = [toRemove EXCEPT ![s] = {}]
            /\ peers' = [peers EXCEPT ![s] = [a \in Acceptors |-> NoSession]]
       ELSE UNCHANGED <<vecClients, toRemove, peers>>
    /\ refused' = {p \in refused : s \notin {p[1], p[2]}}
    /\ UNCHANGED <<serverInfo, nPlaces, aborted>>

(* SetTimeout(60) of every NetServer: a link on which nothing arrives is   *)
(* told to end, though both its processes are up (HandleWait).             *)
LinkTimeout(k) ==
    /\ links[k].hostEnd = "open" /\ links[k].c2h = <<>>
    /\ nFaults < MaxFaults
    /\ nFaults' = nFaults + 1
    /\ links' = [links EXCEPT ![k].hostEnd = "closing"]
    /\ UNCHANGED <<up, byID, serverInfo, wsSession, connVars, nPlaces, aborted>>

----------------------------------------------------------------------------
(* The side that accepts: the world server for every server, and the front *)
(* ends and data servers for the connectors.                               *)

(* FOR_S_S_ON_MSG_ENTER: a session that has no ID yet. *)
HostEnter(k) ==
    /\ links[k].hostEnd = "new"
    /\ links' = [links EXCEPT ![k].hostEnd = "open", ![k].sess = TRUE]
    /\ UNCHANGED <<up, byID, serverInfo, wsSession, connVars, nFaults, nPlaces, aborted>>

InitSessionMutant(h, id, k) == [byID EXCEPT ![h][id] = k]

(* InitSession: the first session of an ID keeps it. *)
InitSession(h, id, k) == IF byID[h][id] = NoLink THEN [byID EXCEPT ![h][id] = k] ELSE byID

(* Of both indexes; an ID of 0 is in none. *)
RemoveSession(h, id) == IF id = 0 THEN byID ELSE [byID EXCEPT ![h][id] = NoLink]

(* What the world server knows of a server, from its login to its exit. *)
OnServerLogin(id, k) == [serverInfo EXCEPT ![id] = [link |-> k, nLoadCount |-> 0]]
OnServerExit(h, id) == IF h # WS \/ id = 0 THEN serverInfo ELSE [serverInfo EXCEPT ![id] = NotListed]
OnLoadAddOne(ids) == [s \in Servers |-> IF s \in ids THEN [serverInfo[s] EXCEPT !.nLoadCount = @ + 1] ELSE serverInfo[s]]

(* BoardcastDpAndFepServerInfo2LsAndSs: a new acceptor is told to every     *)
(* connector, a new connector is told of every acceptor.                   *)
Boardcast(lnks, info, id) ==
    IF id \in Acceptors
    THEN [k \in LinkIDs |-> IF \E c \in Connectors : info[c].link = k
                            THEN Reply(lnks[k], RepServerInfoList({id})) ELSE lnks[k]]
    ELSE [lnks EXCEPT ![info[id].link] =
             Reply(@, RepServerInfoList({a \in Acceptors : info[a].link # NoLink}))]

WsReqLoginMutant(k) ==
    LET id == Client(k)
        fresh == serverInfo[id].link = NoLink
        info == OnServerLogin(id, k)
        answered == [links EXCEPT ![k] = Reply([@ EXCEPT !.c2h = Tail(@), !.id = id], RepLogined(TRUE))]
    IN /\ Host(k) = WS /\ links[k].hostEnd = "open" /\ ToHost(k, "ReqLogin")
       /\ serverInfo' = IF fresh THEN info ELSE serverInfo
       /\ byID' = InitSession(WS, id, k)
       /\ links' = IF fresh THEN Boardcast(answered, info, id) ELSE answered
       /\ UNCHANGED <<up, wsSession, connVars, nFaults, nPlaces, aborted>>

WsReqLoginEarly(k) ==
    LET id == Client(k)
        fresh == serverInfo[id].link = NoLink
        ok == byID[WS][id] = NoLink
        info == OnServerLogin(id, k)
        named == [links EXCEPT ![k] = [@ EXCEPT !.c2h = Tail(@), !.id = id]]
        told == IF fresh /\ ok THEN Boardcast(named, info, id) ELSE named
    IN /\ Host(k) = WS /\ links[k].hostEnd = "open" /\ ToHost(k, "ReqLogin")
       /\ ASSERT(fresh, "WsRepeat")
       /\ serverInfo' = IF fresh THEN info ELSE serverInfo
       /\ byID' = InitSession(WS, id, k)
       /\ links' = [told EXCEPT ![k] = Reply(@, RepLogined(ok))]
       /\ UNCHANGED <<up, wsSession, connVars, nFaults, nPlaces>>

(* ReqLogin of the world server.  OnServerLogin asserts that the ID is new. *)
WsReqLogin(k) ==
    LET id == Client(k)
        fresh == serverInfo[id].link = NoLink
        ok == byID[WS][id] = NoLink
        info == OnServerLogin(id, k)
        named == [links[k] EXCEPT !.c2h = Tail(@), !.id = id]
        answered == [links EXCEPT ![k] = Reply(named, RepLogined(ok))]
    IN /\ Host(k) = WS /\ links[k].hostEnd = "open" /\ ToHost(k, "ReqLogin")
       /\ ASSERT(fresh, "WsRepeat")
       /\ serverInfo' = IF fresh THEN info ELSE serverInfo
       /\ byID' = InitSession(WS, id, k)
       /\ links' = IF fresh /\ ok THEN Boardcast(answered, info, id) ELSE answered
       /\ UNCHANGED <<up, wsSession, connVars, nFaults, nPlaces>>

HostReqLoginMutant(k) ==
    LET ok == byID[Host(k)][Client(k)] = NoLink
    IN /\ Host(k) \in Acceptors /\ links[k].hostEnd = "open" /\ ToHost(k, "ReqLogin")
       /\ byID' = InitSession(Host(k), Client(k), k)
       /\ links' = [links EXCEPT ![k] = [@ EXCEPT !.c2h = Tail(@), !.id = IF ok THEN Client(k) ELSE @]]
       /\ UNCHANGED <<up, serverInfo, wsSession, connVars, nFaults, nPlaces, aborted>>

(* FOR_S_S_REQLOGIN: a session whose ID is taken is told to exit. *)
HostReqLogin(k) ==
    LET ok == byID[Host(k)][Client(k)] = NoLink
        named == [links[k] EXCEPT !.c2h = Tail(@),
                                  !.id = IF ok THEN Client(k) ELSE @,
                                  !.hostEnd = IF ok THEN "open" ELSE "closing"]
    IN /\ Host(k) \in Acceptors /\ links[k].hostEnd = "open" /\ ToHost(k, "ReqLogin")
       /\ byID' = InitSession(Host(k), Client(k), k)
       /\ links' = [links EXCEPT ![k] = Reply(named, RepLogined(ok))]
       /\ UNCHANGED <<up, serverInfo, wsSession, connVars, nFaults, nPlaces, aborted>>

HostExitDeaf(k) ==
    LET h == Host(k)
        id == links[k].id
        owner == IF id = 0 THEN NoLink ELSE byID[h][id]
    IN /\ links[k].hostEnd = "closing"
       /\ ASSERT(owner # NoLink, "Exit")
       /\ byID' = RemoveSession(h, id)
       /\ serverInfo' = OnServerExit(h, id)
       /\ links' = [links EXCEPT ![k] = HostCloses(@)]
       /\ UNCHANGED <<up, wsSession, connVars, nFaults, nPlaces>>

(* FOR_S_S_ON_MSG_EXIT: when its socket has ended, the session is removed  *)
(* by its ID (RemoveSession asserts that the ID is known), and the world   *)
(* server strikes the ID off its list.  Messages not yet taken are lost.   *)
HostExit(k) ==
    LET h == Host(k)
        id == links[k].id
        owner == IF id = 0 THEN NoLink ELSE byID[h][id]
        removed == IF owner = NoLink THEN links ELSE [links EXCEPT ![owner].sess = FALSE]
    IN /\ links[k].hostEnd = "closing" \/ (links[k].hostEnd = "open" /\ links[k].clientEnd = "closed")
       /\ ASSERT(owner # NoLink, "Exit")
       /\ byID' = RemoveSession(h, id)
       /\ serverInfo' = OnServerExit(h, id)
       /\ links' = [removed EXCEPT ![k] = HostCloses(@)]
       /\ UNCHANGED <<up, wsSession, connVars, nFaults, nPlaces>>

----------------------------------------------------------------------------
(* The side that connects.                                                 *)

(* FOR_WS_REP_LOGINED. *)
WsRepLogined(s) ==
    LET k == wsSession[s].link
    IN /\ ToClient(k, "RepLogined")
       /\ wsSession' = [wsSession EXCEPT ![s].status =
             IF @ = "CONNETED" /\ Head(links[k].h2c).ok THEN "LOGINED" ELSE @]
       /\ links' = [links EXCEPT ![k].h2c = Tail(@)]
       /\ UNCHANGED <<up, byID, serverInfo, connVars, nFaults, nPlaces, aborted>>

(* The connection behind an entry of the vector has ended. *)
Dead(c, a) ==
    \/ a \in toRemove[c]
    \/ peers[c][a].link # NoLink /\ links[peers[c][a].link].hostEnd = "closed"

(* FOR_WS_REP_SERVER_LIST: ConnectToServer for each, which refuses an ID   *)
(* that still has an entry.                                                *)
WsServerInfoList(c) ==
    LET k == wsSession[c].link
        ids == IF wsSession[c].status = "LOGINED" THEN Head(links[k].h2c).ids ELSE {}
    IN /\ ToClient(k, "ServerInfoList")
       /\ vecClients' = [vecClients EXCEPT ![c] = @ \cup ids]
       /\ refused' = refused \cup {<<c, a>> : a \in {b \in ids \cap vecClients[c] : Dead(c, b)}}
       /\ links' = [links EXCEPT ![k].h2c = Tail(@)]
       /\ UNCHANGED <<up, byID, serverInfo, wsSession, toRemove, peers, nFaults, nPlaces, aborted>>

(* A NetClient of the vector reaches its server (until then HandleConnect  *)
(* tries again): FOR_S_C_ON_MSG_ENTER makes a session with the ID of the   *)
(* entry, which GetNetClient finds, and asks to log in.                    *)
ConnEnter(c, a) ==
    /\ a \in vecClients[c] \ toRemove[c] /\ a \in up
    /\ peers[c][a].link = NoLink
    /\ \E k \in FreshLinks(c, a) :
          /\ links' = [links EXCEPT ![k] = NewLink]
          /\ peers' = [peers EXCEPT ![c][a] = [link |-> k, status |-> "CONNETED"]]
    /\ UNCHANGED <<up, byID, serverInfo, wsSession, vecClients, toRemove, nFaults, nPlaces, refused, aborted>>

(* The servers of the list a connector is taking that ConnectToServer will *)
(* start a NetClient for, whose entry it pushes afterwards.                *)
Starting(c) ==
    LET k == wsSession[c].link
    IN IF ToClient(k, "ServerInfoList") /\ wsSession[c].status = "LOGINED"
       THEN Head(links[k].h2c).ids \ vecClients[c] ELSE {}

(* Such a NetClient reaches its server before the entry is pushed: the     *)
(* connected callback makes a session, and GetNetClient finds no entry.    *)
ConnEnterEarly(c, a) ==
    /\ a \in Starting(c) /\ a \in up
    /\ \E k \in FreshLinks(c, a) :
          /\ links' = [links EXCEPT ![k] = [NewLink EXCEPT !.c2h = <<>>]]
          /\ peers' = [peers EXCEPT ![c][a] = [link |-> k, status |-> "NONE"]]
    /\ ASSERT(FALSE, "GetNetClient")
    /\ UNCHANGED <<up, byID, serverInfo, wsSession, vecClients, toRemove, nFaults, nPlaces, refused>>

(* RepLogined of the acceptor. *)
ConnRepLogined(c, a) ==
    LET k == peers[c][a].link
    IN /\ ToClient(k, "RepLogined")
       /\ peers' = [peers EXCEPT ![c][a].status = IF Head(links[k].h2c).ok THEN "LOGINED" ELSE @]
       /\ links' = [links EXCEPT ![k].h2c = Tail(@)]
       /\ UNCHANGED <<up, byID, serverInfo, wsSession, vecClients, toRemove, nFaults, nPlaces, refused, aborted>>

(* FOR_S_C_ON_MSG_EXIT: the session goes at once, the NetClient is left to *)
(* the next Update of the ServerConnectMgr.                                *)
ConnExit(c, a) ==
    LET k == peers[c][a].link
    IN /\ k # NoLink /\ links[k].hostEnd = "closed"
       /\ links' = [links EXCEPT ![k] = ClientCloses(@)]
       /\ peers' = [peers EXCEPT ![c][a] = NoSession]
       /\ toRemove' = [toRemove EXCEPT ![c] = @ \cup {a}]
       /\ UNCHANGED <<up, byID, serverInfo, wsSession, vecClients, nFaults, nPlaces, refused, aborted>>

(* ServerConnectMgr::Update: the entries RemoveServer named are deleted.   *)
MgrUpdate(c) ==
    /\ toRemove[c] # {}
    /\ vecClients' = [vecClients EXCEPT ![c] = @ \ toRemove[c]]
    /\ toRemove' = [toRemove EXCEPT ![c] = {}]
    /\ UNCHANGED <<up, links, byID, serverInfo, wsSession, peers, nFaults, nPlaces, refused, aborted>>

(* FOR_WS_ON_MSG_EXIT: the world server has closed the link.  A NetClient  *)
(* that was connected once does not connect again.                         *)
WsLost(s) ==
    LET k == wsSession[s].link
    IN /\ k # NoLink /\ links[k].hostEnd = "closed"
       /\ links' = [links EXCEPT ![k] = ClientCloses(@)]
       /\ wsSession' = [wsSession EXCEPT ![s] = NoSession]
       /\ UNCHANGED <<up, byID, serverInfo, connVars, nFaults, nPlaces, aborted>>

----------------------------------------------------------------------------
(* A client's placement, as far as it needs the servers to know each other. *)

(* A front end passes a client's request on (ReqFepEncyptHandler). *)
AskPlacement(f) ==
    LET k == wsSession[f].link
    IN /\ k # NoLink /\ links[k].hostEnd # "closed"
       /\ nPlaces < MaxPlaces
       /\ nPlaces' = nPlaces + 1
       /\ links' = [links EXCEPT ![k].c2h = Append(@, ReqLoadLest)]
       /\ UNCHANGED <<up, byID, serverInfo, wsSession, connVars, nFaults, aborted>>

(* GetLoadLestSession: the first of the least loaded, in order of ID. *)
LoadLest(ids) ==
    LET listed == {s \in ids : serverInfo[s].link # NoLink}
        Load(s) == serverInfo[s].nLoadCount
    IN {s \in listed : \A t \in listed : Load(s) < Load(t) \/ (Load(s) = Load(t) /\ s <= t)}

(* ReqRoadLest. *)
WsPlace(k) ==
    /\ Host(k) = WS /\ links[k].hostEnd = "open" /\ ToHost(k, "ReqLoadLest")
    /\ ASSERT(LoadLest(Ls) # {} /\ LoadLest(Dps) # {}, "NoServer")
    /\ LET f == links[k].id
           taken == [links EXCEPT ![k].c2h = Tail(@)]
       IN IF LoadLest(Ls) = {} \/ LoadLest(Dps) = {}
          THEN links' = taken /\ UNCHANGED serverInfo
          ELSE \E l \in LoadLest(Ls), d \in LoadLest(Dps) :
                 /\ links' = [taken EXCEPT ![serverInfo[l].link] = Reply(@, NofitySInfo(f, d))]
                 /\ serverInfo' = OnLoadAddOne({l, d, f})
    /\ UNCHANGED <<up, byID, wsSession, connVars, nFaults, nPlaces>>

(* FOR_LS_SS_NOFITY_SERVER_INFO asserts the sessions to both servers. *)
LsNotified(l) ==
    LET k == wsSession[l].link
        msg == Head(links[k].h2c)
    IN /\ ToClient(k, "SInfo")
       /\ ASSERT(peers[l][msg.fep].link # NoLink /\ peers[l][msg.dp].link # NoLink, "Notify")
       /\ links' = [links EXCEPT ![k].h2c = Tail(@)]
       /\ UNCHANGED <<up, byID, serverInfo, wsSession, connVars, nFaults, nPlaces>>

----------------------------------------------------------------------------
HostNext(k) == HostEnter(k) \/ WsReqLogin(k) \/ HostReqLogin(k) \/ HostExit(k) \/ WsPlace(k)

FromWs(s) ==
    \/ WsRepLogined(s) \/ WsLost(s)
    \/ s \in Connectors /\ WsServerInfoList(s)
    \/ s \in Ls /\ LsNotified(s)

PeerNext(c, a) == ConnEnter(c, a) \/ ConnEnterEarly(c, a) \/ ConnRepLogined(c, a) \/ ConnExit(c, a)

Environment ==
    \/ \E s \in Servers : ServerStart(s) \/ ServerDown(s)
    \/ \E k \in LinkIDs : LinkTimeout(k)
    \/ \E f \in Feps : AskPlacement(f)

SystemNext ==
    \/ \E k \in LinkIDs : HostNext(k)
    \/ \E s \in Servers : FromWs(s)
    \/ \E c \in Connectors : MgrUpdate(c) \/ \E a \in Acceptors : PeerNext(c, a)

LoginNext == aborted = None /\ (Environment \/ SystemNext)

LoginSpec == LoginInit /\ [][LoginNext]_loginVars

(* As long as some main loop has a message or an ended socket to take, or  *)
(* a NetClient a server to reach, one of them goes on.  Nothing is asked   *)
(* of the environment.                                                     *)
FairLoginSpec == LoginSpec /\ WF_loginVars(aborted = None /\ SystemNext)

----------------------------------------------------------------------------
(* The two indexes of a ServerSessionMgr and the world server's list agree: *)
(* an ID leads to a session that is there and bears the ID, and the list    *)
(* names the same session (ServerSession.cpp:169, ServerInfoMgr.cpp:27).    *)
IndexesAgree ==
    aborted = None =>
        /\ \A h \in Hosts, s \in Servers :
              LET k == byID[h][s]
              IN k # NoLink => Host(k) = h /\ links[k].sess /\ links[k].id = s
        /\ \A s \in Servers : serverInfo[s].link = byID[WS][s]

(* A server that was told it is logged in is on the world server's list,   *)
(* with its present connection, as long as that lasts: the end of an older *)
(* connection of the same ID never strikes it off.                         *)
LoginedIsListed ==
    aborted = None => \A s \in Servers :
        (wsSession[s].status = "LOGINED" /\ links[wsSession[s].link].hostEnd # "closed")
        => serverInfo[s].link = wsSession[s].link

(* Servers that come up in any order, once each, are not refused by the     *)
(* world server and end no session twice: what can bring a process down is *)
(* a placement before the servers know each other, and a NetClient that is *)
(* connected before ConnectToServer has pushed its entry                   *)
(* (ServerConnectMgr.cpp:27, 33; BaseMsgHandler.h:165).                    *)
QuietStart == nFaults = 0 => aborted \in {None, "NoServer", "Notify", "GetNetClient"}

(* The servers that the lists in a queue name. *)
Announced(q) == UNION {q[i].ids : i \in {j \in DOMAIN q : q[j].type = "ServerInfoList"}}

(* Both are logged in, and the connector neither has an entry for the      *)
(* acceptor nor is going to get one.                                       *)
Missed(c, a) ==
    LET k == serverInfo[c].link
    IN /\ k # NoLink /\ links[k].clientEnd = "open" /\ serverInfo[a].link # NoLink
       /\ a \notin vecClients[c] \cup Announced(links[k].h2c)

(* Whoever logs in first and whatever goes down between, a connector that  *)
(* is logged in knows every acceptor that is, or is told of it: it misses  *)
(* one only by removing its entry, when a connection to it has ended.      *)
NoneMissed ==
    [][\A c \in Connectors, a \in Acceptors :
          Missed(c, a)' => Missed(c, a) \/ a \in toRemove[c] \/ aborted' # None]_loginVars

(* What a connector is told of, it connects to and logs in at, unless one  *)
(* of the links or servers goes down, or ConnectToServer refuses because   *)
(* the entry of the connection before has not been removed yet.            *)
Told(c, a) ==
    wsSession[c].status = "LOGINED" /\ a \in Announced(links[wsSession[c].link].h2c)

Interconnected ==
    \A c \in Connectors, a \in Acceptors :
        (Told(c, a) /\ a \in up) ~>
            \/ peers[c][a].status = "LOGINED" \/ <<c, a>> \in refused
            \/ wsSession[c].link = NoLink \/ a \notin up \/ aborted # None
            \/ peers[c][a].link # NoLink /\ links[peers[c][a].link].hostEnd \in {"closing", "closed"}

(* Again and again no host has a session whose other end is gone.          *)
DeadForgotten ==
    []<>(aborted # None \/ \A k \in LinkIDs : links[k].sess => links[k].clientEnd = "open")

=============================================================================
