---------------------------- MODULE ClientRoute ----------------------------
(***************************************************************************)
(* How a client gets its servers.  It connects to a front end (NetFep) and *)
(* asks for a key; the front end asks the world server (NetWs) to place it,*)
(* and that notifies the login server (NetLs), the data server (NetDp) and *)
(* the front end.  When the client leaves, the same way is taken back.     *)
(*                                                                         *)
(* Each process runs its handlers in one main loop, so a handler is one    *)
(* step.  A link between two processes is a NetChannel that keeps its      *)
(* promise: first in, first out.  All servers are up and know each other.  *)
(* A client is named by its session ID: the SID of its socket in the front *)
(* end, which the next client to get that socket has again.                *)
(***************************************************************************)
EXTENDS Integers, Sequences, FiniteSets

CONSTANTS
    Clients,   \* session IDs
    Feps,      \* the server IDs of the front ends,
    Ls, Dps,   \* the login servers and the data servers
    MaxEnters  \* how many clients come: bounds the model only

ASSUME RouteAssumption ==
    /\ Ls \cup Dps \cup Feps \subseteq Nat \ {0}
    /\ Ls # {} /\ Dps # {}
    /\ Ls \cap Dps = {} /\ (Ls \cup Dps) \cap Feps = {}
    /\ IsFiniteSet(Ls) /\ IsFiniteSet(Dps)
    /\ MaxEnters \in Nat

VARIABLES
    fepStatus,    \* m_nStatus of each session of a front end, NONE without one
    fepLs,        \* its m_pLs: a login server, or none
    wsClients,    \* the sessions of the world server: [client, fep, ls, dp]
    lsClients,    \* of each login server: [client, fep, dp]
    dpClients,    \* of each data server: [client, ls]
    nLoadCount,   \* the load the world server counts
    f2w, w2f, w2l, w2d,  \* the messages on each link
    nEnters,
    aborted       \* the ASSERT that ended a process, if one did

fepVars == <<fepStatus, fepLs>>
links == <<f2w, w2f, w2l, w2d>>
routeVars == <<fepVars, wsClients, lsClients, dpClients, nLoadCount, links, nEnters, aborted>>

NoAssert == "none"
NoServer == 0

LoadLest(c) == [type |-> "SSReqLoadLest", client |-> c]
ExitNotice(c) == [type |-> "SSNofityClientExit", client |-> c]
SInfo(c, f, l, d) == [type |-> "SSSessionNofitySInfo", client |-> c, fep |-> f, ls |-> l, dp |-> d]

ExitMsgs == {ExitNotice(c) : c \in Clients}
InfoMsgs == [type : {"SSSessionNofitySInfo"}, client : Clients, fep : Feps, ls : Ls, dp : Dps]

(* Every variable has its type, and a client that may log in has the login *)
(* server to which the front end will pass its messages.                   *)
RouteTypeOK ==
    /\ fepStatus \in [Feps -> [Clients -> {"NONE", "CONNECTED", "ENCRYPTED", "NOTIFY_INITED"}]]
    /\ fepLs \in [Feps -> [Clients -> Ls \cup {NoServer}]]
    /\ \A f \in Feps, c \in Clients : fepStatus[f][c] = "NOTIFY_INITED" => fepLs[f][c] \in Ls
    /\ wsClients \subseteq [client : Clients, fep : Feps, ls : Ls, dp : Dps]
    /\ lsClients \in [Ls -> SUBSET [client : Clients, fep : Feps, dp : Dps]]
    /\ dpClients \in [Dps -> SUBSET [client : Clients, ls : Ls]]
    /\ nLoadCount \in [Ls \cup Dps \cup Feps -> Nat]
    /\ f2w \in [Feps -> Seq({LoadLest(c) : c \in Clients} \cup ExitMsgs)]
    /\ w2f \in [Feps -> Seq(InfoMsgs)]
    /\ w2l \in [Ls -> Seq(InfoMsgs \cup ExitMsgs)]
    /\ w2d \in [Dps -> Seq(InfoMsgs \cup ExitMsgs)]
    /\ nEnters \in 0 .. MaxEnters
    /\ aborted \in {NoAssert, "FepNotify", "WsLoad", "WsExit", "LsNotify", "LsExit", "DpNotify", "DpExit"}

RouteInit ==
    /\ fepStatus = [f \in Feps |-> [c \in Clients |-> "NONE"]]
    /\ fepLs = [f \in Feps |-> [c \in Clients |-> NoServer]]
    /\ wsClients = {}
    /\ lsClients = [l \in Ls |-> {}]
    /\ dpClients = [d \in Dps |-> {}]
    /\ nLoadCount = [s \in Ls \cup Dps \cup Feps |-> 0]
    /\ f2w = [f \in Feps |-> <<>>]
    /\ w2f = [f \in Feps |-> <<>>]
    /\ w2l = [l \in Ls |-> <<>>]
    /\ w2d = [d \in Dps |-> <<>>]
    /\ nEnters = 0
    /\ aborted = NoAssert

SendTo(link, to, msg) == [link EXCEPT ![to] = Append(@, msg)]

(* ClientSessionMgr: the sessions of a client, at most one. *)
SessionsOf(sessions, c) == {s \in sessions : s.client = c}

(* The process named by label ends when cond fails (assert, NetConfig.h). *)
ASSERT(cond, label) == aborted' = IF cond THEN aborted ELSE label

----------------------------------------------------------------------------
(* NetFep: the clients.                                                    *)

(* OnNetMsgEnter. *)
ClientEnter(f, c) ==
    /\ fepStatus[f][c] = "NONE"
    /\ nEnters < MaxEnters
    /\ nEnters' = nEnters + 1
    /\ fepStatus' = [fepStatus EXCEPT ![f][c] = "CONNECTED"]
    /\ UNCHANGED <<fepLs, wsClients, lsClients, dpClients, nLoadCount, links, aborted>>

(* ReqFepEncyptHandler; in any other status it does nothing. *)
ReqFepEncypt(f, c) ==
    /\ fepStatus[f][c] = "CONNECTED"
    /\ fepStatus' = [fepStatus EXCEPT ![f][c] = "ENCRYPTED"]
    /\ f2w' = SendTo(f2w, f, LoadLest(c))
    /\ UNCHANGED <<fepLs, wsClients, lsClients, dpClients, nLoadCount, w2f, w2l, w2d, nEnters, aborted>>

(* OnNetMsgExit, whatever ended the connection and whenever. *)
ClientExit(f, c) ==
    /\ fepStatus[f][c] # "NONE"
    /\ fepStatus' = [fepStatus EXCEPT ![f][c] = "NONE"]
    /\ fepLs' = [fepLs EXCEPT ![f][c] = NoServer]
    /\ f2w' = SendTo(f2w, f, ExitNotice(c))
    /\ UNCHANGED <<wsClients, lsClients, dpClients, nLoadCount, w2f, w2l, w2d, nEnters, aborted>>

(* NofityClientSessionInfo at the front end. *)
FepNotified(f) ==
    /\ w2f[f] # <<>>
    /\ w2f' = [w2f EXCEPT ![f] = Tail(@)]
    /\ LET msg == Head(w2f[f])
           c == msg.client
           known == fepStatus[f][c] # "NONE"
       IN /\ ASSERT(known, "FepNotify")
          /\ fepStatus' = IF known THEN [fepStatus EXCEPT ![f][c] = "NOTIFY_INITED"] ELSE fepStatus
          /\ fepLs' = IF known THEN [fepLs EXCEPT ![f][c] = msg.ls] ELSE fepLs
    /\ UNCHANGED <<wsClients, lsClients, dpClients, nLoadCount, f2w, w2l, w2d, nEnters>>

----------------------------------------------------------------------------
(* NetWs.                                                                  *)

(* GetLoadLestSession: the first of the least loaded, in order of ID. *)
LoadLestOf(servers) ==
    CHOOSE s \in servers : \A t \in servers :
        nLoadCount[s] < nLoadCount[t] \/ (nLoadCount[s] = nLoadCount[t] /\ s <= t)

FromFep(f, type) ==
    /\ f2w[f] # <<>>
    /\ Head(f2w[f]).type = type
    /\ f2w' = [f2w EXCEPT ![f] = Tail(@)]

ReqRoadLestMutant(f) ==
    /\ FromFep(f, "SSReqLoadLest")
    /\ LET c == Head(f2w[f]).client
           l == LoadLestOf(Ls)
           d == LoadLestOf(Dps)
           fresh == SessionsOf(wsClients, c) = {}
       IN /\ ASSERT(fresh, "WsLoad")
          /\ IF fresh
             THEN /\ wsClients' = wsClients \cup {[client |-> c, fep |-> f, ls |-> l, dp |-> d]}
                  /\ w2l' = SendTo(w2l, l, SInfo(c, f, l, d))
                  /\ w2d' = SendTo(w2d, d, SInfo(c, f, l, d))
                  /\ nLoadCount' = [nLoadCount EXCEPT ![l] = @ + 1, ![d] = @ + 1, ![f] = @ + 1]
             ELSE UNCHANGED <<wsClients, w2l, w2d, nLoadCount>>
    /\ UNCHANGED <<fepVars, lsClients, dpClients, w2f, nEnters>>

ReqRoadLest(f) ==
    /\ FromFep(f, "SSReqLoadLest")
    /\ LET c == Head(f2w[f]).client
           l == LoadLestOf(Ls)
           d == LoadLestOf(Dps)
           fresh == SessionsOf(wsClients, c) = {}
       IN /\ ASSERT(fresh, "WsLoad")
          /\ IF fresh
             THEN /\ wsClients' = wsClients \cup {[client |-> c, fep |-> f, ls |-> l, dp |-> d]}
                  /\ w2l' = SendTo(w2l, l, SInfo(c, f, l, d))
                  /\ w2d' = SendTo(w2d, d, SInfo(c, f, l, d))
                  /\ w2f' = SendTo(w2f, f, SInfo(c, f, l, d))
                  /\ nLoadCount' = [nLoadCount EXCEPT ![l] = @ + 1, ![d] = @ + 1, ![f] = @ + 1]
             ELSE UNCHANGED <<wsClients, w2l, w2d, w2f, nLoadCount>>
    /\ UNCHANGED <<fepVars, lsClients, dpClients, nEnters>>

NofityClientExitMutant(f) ==
    /\ FromFep(f, "SSNofityClientExit")
    /\ LET c == Head(f2w[f]).client
           session == SessionsOf(wsClients, c)
       IN /\ ASSERT(session # {}, "WsExit")
          /\ wsClients' = wsClients \ session
          /\ w2l' = [l \in Ls |-> IF \E s \in session : s.ls = l
                                  THEN Append(w2l[l], ExitNotice(c)) ELSE w2l[l]]
    /\ UNCHANGED <<fepVars, lsClients, dpClients, nLoadCount, w2f, w2d, nEnters>>

(* The status of a session of the world server is never set: it is not     *)
(* IN_SCENE, so the exit goes to the data server and to no scene server.   *)
NofityClientExit(f) ==
    /\ FromFep(f, "SSNofityClientExit")
    /\ LET c == Head(f2w[f]).client
           session == SessionsOf(wsClients, c)
       IN /\ ASSERT(session # {}, "WsExit")
          /\ wsClients' = wsClients \ session
          /\ w2l' = [l \in Ls |-> IF \E s \in session : s.ls = l
                                  THEN Append(w2l[l], ExitNotice(c)) ELSE w2l[l]]
          /\ w2d' = [d \in Dps |-> IF \E s \in session : s.dp = d
                                   THEN Append(w2d[d], ExitNotice(c)) ELSE w2d[d]]
    /\ UNCHANGED <<fepVars, lsClients, dpClients, nLoadCount, w2f, nEnters>>

----------------------------------------------------------------------------
(* NetLs and NetDp.                                                        *)

LsSession(msg) == [client |-> msg.client, fep |-> msg.fep, dp |-> msg.dp]
DpSession(msg) == [client |-> msg.client, ls |-> msg.ls]

LsNotified(l) ==
    /\ w2l[l] # <<>>
    /\ w2l' = [w2l EXCEPT ![l] = Tail(@)]
    /\ LET msg == Head(w2l[l])
           session == SessionsOf(lsClients[l], msg.client)
       IN IF msg.type = "SSNofityClientExit"
          THEN /\ ASSERT(session # {}, "LsExit")
               /\ lsClients' = [lsClients EXCEPT ![l] = @ \ session]
          ELSE /\ ASSERT(session = {}, "LsNotify")
               /\ lsClients' = IF session = {}
                               THEN [lsClients EXCEPT ![l] = @ \cup {LsSession(msg)}]
                               ELSE lsClients
    /\ UNCHANGED <<fepVars, wsClients, dpClients, nLoadCount, f2w, w2f, w2d, nEnters>>

DpNotified(d) ==
    /\ w2d[d] # <<>>
    /\ w2d' = [w2d EXCEPT ![d] = Tail(@)]
    /\ LET msg == Head(w2d[d])
           session == SessionsOf(dpClients[d], msg.client)
       IN IF msg.type = "SSNofityClientExit"
          THEN /\ ASSERT(session # {}, "DpExit")
               /\ dpClients' = [dpClients EXCEPT ![d] = @ \ session]
          ELSE /\ ASSERT(session = {}, "DpNotify")
               /\ dpClients' = IF session = {}
                               THEN [dpClients EXCEPT ![d] = @ \cup {DpSession(msg)}]
                               ELSE dpClients
    /\ UNCHANGED <<fepVars, wsClients, lsClients, nLoadCount, f2w, w2f, w2l, nEnters>>

----------------------------------------------------------------------------
ClientNext(f) ==
    \E c \in Clients : ClientEnter(f, c) \/ ReqFepEncypt(f, c) \/ ClientExit(f, c)

WsNext == \E f \in Feps : ReqRoadLest(f) \/ NofityClientExit(f)

RouteNext ==
    /\ aborted = NoAssert
    /\ \/ \E f \in Feps : ClientNext(f) \/ FepNotified(f)
       \/ WsNext
       \/ \E l \in Ls : LsNotified(l)
       \/ \E d \in Dps : DpNotified(d)

RouteSpec == RouteInit /\ [][RouteNext]_routeVars

(* Every main loop takes the messages its links hold; clients owe nothing. *)
FairRouteSpec ==
    /\ RouteSpec
    /\ \A f \in Feps :
          /\ WF_routeVars(aborted = NoAssert /\ FepNotified(f))
          /\ WF_routeVars(aborted = NoAssert /\ (ReqRoadLest(f) \/ NofityClientExit(f)))
    /\ \A l \in Ls : WF_routeVars(aborted = NoAssert /\ LsNotified(l))
    /\ \A d \in Dps : WF_routeVars(aborted = NoAssert /\ DpNotified(d))

----------------------------------------------------------------------------
(* What a server will hold once it has taken every message of its link: the *)
(* sessions whose exit is not on the way, and those of the placements that  *)
(* no exit follows.                                                         *)
IsExit(msg) == msg.type = "SSNofityClientExit"
ExitFollows(link, i, c) == \E j \in i + 1 .. Len(link) : IsExit(link[j]) /\ link[j].client = c

Staying(sessions, link) == {s \in sessions : ~ExitFollows(link, 0, s.client)}
Standing(link) ==
    {link[i] : i \in {j \in DOMAIN link : ~IsExit(link[j]) /\ ~ExitFollows(link, j, link[j].client)}}

AfterLink(sessions, link, New(_)) == Staying(sessions, link) \cup {New(msg) : msg \in Standing(link)}

LsWillHold(l) == AfterLink(lsClients[l], w2l[l], LsSession)
DpWillHold(d) == AfterLink(dpClients[d], w2d[d], DpSession)

(* Login and data servers follow the world server: once their links are    *)
(* empty they hold exactly the clients it placed with them.                *)
DownstreamMirrorsWs ==
    /\ \A l \in Ls : LsWillHold(l) = {LsSession(s) : s \in {t \in wsClients : t.ls = l}}
    /\ \A d \in Dps : DpWillHold(d) = {DpSession(s) : s \in {t \in wsClients : t.dp = d}}

(* The versions a server goes through as it takes the messages of its link. *)
Versions(sessions, link, New(_)) ==
    [k \in 1 .. Len(link) |-> AfterLink(sessions, SubSeq(link, 1, k), New)]

SeenBy(s) == IF s \in Ls THEN lsClients[s] ELSE dpClients[s]
ComingTo(s) == IF s \in Ls THEN Versions(lsClients[s], w2l[s], LsSession)
                           ELSE Versions(dpClients[s], w2d[s], DpSession)

Directory == INSTANCE ClientDirectory WITH
                 directory <- wsClients,
                 seen <- [s \in Ls \cup Dps |-> SeenBy(s)],
                 coming <- [s \in Ls \cup Dps |-> ComingTo(s)]

(* The four processes implement ClientDirectory: a login or a data server  *)
(* goes through every version of its share of the world server's clients,  *)
(* in order, even when a session ID is used again on the way.              *)
FollowsDirectory == Directory!DirectorySpec

(* A client that asked for a key is in the end placed, unless it leaves or *)
(* a server is down.                                                       *)
RouteGranted ==
    \A f \in Feps, c \in Clients :
        fepStatus[f][c] = "ENCRYPTED" ~> (fepStatus[f][c] # "ENCRYPTED" \/ aborted # NoAssert)

(* No server keeps a client that has left.                                 *)
Forgotten(c) ==
    /\ SessionsOf(wsClients, c) = {}
    /\ \A l \in Ls : SessionsOf(lsClients[l], c) = {}
    /\ \A d \in Dps : SessionsOf(dpClients[d], c) = {}

ExitPropagates ==
    \A c \in Clients :
        (\A f \in Feps : fepStatus[f][c] = "NONE")
            ~> (Forgotten(c) \/ aborted # NoAssert \/ \E f \in Feps : fepStatus[f][c] # "NONE")

=============================================================================
