-------------------------- MODULE ServerLoginProofs --------------------------
(***************************************************************************)
(* Whatever servers there are, however many start, log in, die, time out   *)
(* and come back, and in whatever order the hosts take their messages and  *)
(* ends: the index of the sessions, the sessions and the world server's    *)
(* list name the same connections; a server that was told it is logged in  *)
(* is on that list; as long as nothing dies, nobody is refused; and a      *)
(* connector misses no acceptor but by removing its own entry.             *)
(***************************************************************************)
EXTENDS ServerLogin, SequenceTheorems, TLAPS

(* The fields of a link; what its queues hold does not matter here. *)
HasFields(link) == link = [f \in {"clientEnd", "hostEnd", "sess", "id", "c2h", "h2c"} |-> link[f]]

LinkShape(link) ==
    /\ HasFields(link)
    /\ link.sess \in BOOLEAN /\ (link.sess <=> link.hostEnd \in {"open", "closing"})

Shapes ==
    /\ links = [k \in LinkIDs |-> links[k]] /\ \A k \in LinkIDs : LinkShape(links[k])
    /\ byID \in [Hosts -> [Servers -> MaybeLink]]
    /\ serverInfo = [s \in Servers |-> serverInfo[s]]
    /\ \A s \in Servers : serverInfo[s] = [link |-> serverInfo[s].link, nLoadCount |-> serverInfo[s].nLoadCount]

(* The ID of a session is that of the server at the other end, from its    *)
(* login on.                                                               *)
OwnID == \A k \in LinkIDs : links[k].id \in {0, Client(k)} /\ (links[k].hostEnd = "new" => links[k].id = 0)

(* An ID leads to a session that bears it, *)
Indexed ==
    \A h \in Hosts, s \in Servers :
        byID[h][s] # NoLink => /\ byID[h][s] \in LinkIDs /\ Host(byID[h][s]) = h
                               /\ links[byID[h][s]].sess /\ links[byID[h][s]].id = s

(* a session that bears an ID is where the ID leads, *)
Bearing ==
    \A k \in LinkIDs : (links[k].sess /\ links[k].id # 0) => byID[Host(k)][links[k].id] = k

(* and the world server's list says the same as its index. *)
Listed == \A s \in Servers : serverInfo[s].link = byID[WS][s]

HasLinks(lnks) == lnks = [k \in LinkIDs |-> lnks[k]] /\ \A k \in LinkIDs : LinkShape(lnks[k])
SameSession(old, new) == new.hostEnd = old.hostEnd /\ new.sess = old.sess /\ new.id = old.id

LoginInv == aborted = None => Shapes /\ OwnID /\ Indexed /\ Bearing /\ Listed

----------------------------------------------------------------------------
(* A NetClient that is connected too early ends its process. *)
LEMMA EarlyEnds ==
    ASSUME NEW c, NEW a, ConnEnterEarly(c, a)
    PROVE  aborted' = "GetNetClient" /\ aborted' # None
  BY DEF ConnEnterEarly, ASSERT, None

(* The two ends of a link are different processes, and its host has an     *)
(* index.                                                                  *)
LEMMA LinkEnds ==
    /\ \A k \in LinkIDs : Client(k) \in Servers /\ Host(k) \in Hosts /\ Client(k) # Host(k) /\ k # NoLink
    /\ WS \in Hosts /\ WS \notin Servers /\ 0 \notin Servers /\ Acceptors \subseteq Servers
  <1> USE LoginAssumption
  <1>1. WS \in Hosts /\ WS \notin Servers /\ 0 \notin Servers /\ Acceptors \subseteq Servers
    BY DEF WS, Hosts, Servers
  <1>2. ASSUME NEW s \in Servers, NEW n \in 1 .. Slots
        PROVE  <<s, WS, n>>[1] = s /\ <<s, WS, n>>[2] = WS /\ <<s, WS, n>> # <<>>
    OBVIOUS
  <1>3. ASSUME NEW c \in Connectors, NEW a \in Acceptors, NEW n \in 1 .. Slots
        PROVE  <<c, a, n>>[1] = c /\ <<c, a, n>>[2] = a /\ <<c, a, n>> # <<>> /\ c # a /\ c \in Servers
    BY DEF Servers
  <1>4. ASSUME NEW k \in LinkIDs
        PROVE  Client(k) \in Servers /\ Host(k) \in Hosts /\ Client(k) # Host(k) /\ k # NoLink
    <2>1. CASE \E s \in Servers, n \in 1 .. Slots : k = <<s, WS, n>>
      BY <1>1, <1>2, <2>1 DEF Client, Host, NoLink
    <2>2. CASE \E c \in Connectors, a \in Acceptors, n \in 1 .. Slots : k = <<c, a, n>>
      BY <1>1, <1>3, <2>2 DEF Client, Host, NoLink, Hosts
    <2> QED
      BY <2>1, <2>2 DEF LinkIDs
  <1> QED
    BY <1>1, <1>4

(* What the closing of an end, an answer and a new connection leave behind. *)
LEMMA FreeFields ==
    /\ LinkShape(Free) /\ Free.hostEnd = "closed" /\ Free.sess = FALSE /\ Free.id = 0
    /\ LinkShape(NewLink) /\ NewLink.hostEnd = "new" /\ NewLink.sess = FALSE /\ NewLink.id = 0
  <1>1. Free.hostEnd = "closed" /\ Free.sess = FALSE /\ Free.id = 0
    BY DEF Free
  <1>2. HasFields(Free)
    BY DEF HasFields, Free
  <1>3. LinkShape(Free)
    BY <1>1, <1>2 DEF LinkShape
  <1>4. NewLink.hostEnd = "new" /\ NewLink.sess = FALSE /\ NewLink.id = 0
    BY <1>1, <1>2 DEF HasFields, NewLink
  <1>5. HasFields(NewLink)
    BY <1>2 DEF HasFields, NewLink
  <1>6. LinkShape(NewLink)
    BY <1>4, <1>5 DEF LinkShape
  <1> QED
    BY <1>1, <1>3, <1>4, <1>6

(* An answer changes no more than the messages on the way. *)
LEMMA ReplyKeeps ==
    ASSUME NEW link, NEW msg, LinkShape(link)
    PROVE  /\ LinkShape(Reply(link, msg))
           /\ Reply(link, msg).hostEnd = link.hostEnd /\ Reply(link, msg).sess = link.sess /\ Reply(link, msg).id = link.id
  BY DEF LinkShape, HasFields, Reply

(* A client's end that closes does not touch the session. *)
LEMMA ClientClosesKeeps ==
    ASSUME NEW link, LinkShape(link)
    PROVE  /\ LinkShape(ClientCloses(link))
           /\ link.hostEnd = "closed" => ClientCloses(link) = Free
           /\ link.hostEnd # "closed" => /\ ClientCloses(link).hostEnd = link.hostEnd
                                         /\ ClientCloses(link).sess = link.sess /\ ClientCloses(link).id = link.id
  BY FreeFields DEF LinkShape, HasFields, ClientCloses

(* A host's end that closes has no session any more. *)
LEMMA HostClosesEnds ==
    ASSUME NEW link, HasFields(link)
    PROVE  /\ LinkShape(HostCloses(link)) /\ HostCloses(link).sess = FALSE
           /\ HostCloses(link).hostEnd = "closed" /\ HostCloses(link).id \in {0, link.id}
  BY FreeFields DEF LinkShape, HasFields, HostCloses

(* A step that ends no session and begins none that has an ID, or takes up *)
(* a link whose host is done with it, leaves the indexes right.            *)
KeptLink(old, new) ==
    \/ /\ new.id = old.id
       /\ (old.sess => new.sess) /\ (new.sess => old.sess \/ old.id = 0)
       /\ new.hostEnd = "new" => old.hostEnd = "new"
    \/ old.hostEnd = "closed" /\ new \in {Free, NewLink}

LEMMA SessionsKept ==
    ASSUME LoginInv, aborted = None, UNCHANGED byID,
           links' = [k \in LinkIDs |-> links'[k]],
           \A k \in LinkIDs : LinkShape(links'[k]) /\ KeptLink(links[k], links'[k]),
           serverInfo' = [s \in Servers |-> serverInfo'[s]],
           \A s \in Servers : /\ serverInfo'[s] = [link |-> serverInfo'[s].link, nLoadCount |-> serverInfo'[s].nLoadCount]
                              /\ serverInfo'[s].link = serverInfo[s].link
    PROVE  LoginInv'
  <1>1. Shapes /\ OwnID /\ Indexed /\ Bearing /\ Listed
    BY DEF LoginInv
  <1>2. Shapes'
    BY <1>1 DEF Shapes
  <1>3. \A k \in LinkIDs : links[k].hostEnd = "closed" => ~links[k].sess
    BY <1>1 DEF Shapes, LinkShape, HasFields
  <1>4. \A k \in LinkIDs : links'[k] \in {Free, NewLink} => links'[k].id = 0 /\ ~links'[k].sess
    BY FreeFields
  <1>5. OwnID'
    BY <1>1, <1>4 DEF OwnID, KeptLink
  <1>6. Indexed'
    BY <1>1, <1>3 DEF Indexed, KeptLink
  <1>7. Bearing'
    BY <1>1, <1>4 DEF Bearing, KeptLink
  <1>8. Listed'
    BY <1>1 DEF Listed
  <1> QED
    BY <1>2, <1>5, <1>6, <1>7, <1>8 DEF LoginInv

(* The same for a step that changes one link and nothing of the indexes; a *)
(* session without a connection names none.                                *)
LEMMA OneLinkKept ==
    ASSUME LoginInv, aborted = None, NEW k, NEW new,
           k \in LinkIDs => LinkShape(new) /\ KeptLink(links[k], new),
           links' = [links EXCEPT ![k] = new], UNCHANGED <<byID, serverInfo>>
    PROVE  LoginInv'
  <1>1. Shapes
    BY DEF LoginInv
  <1>2. links' = [j \in LinkIDs |-> IF j = k THEN new ELSE links[j]]
    BY <1>1 DEF Shapes
  <1>3. \A j \in LinkIDs : LinkShape(links'[j]) /\ KeptLink(links[j], links'[j])
    BY <1>1, <1>2 DEF Shapes, KeptLink
  <1>4. links' = [j \in LinkIDs |-> links'[j]]
    BY <1>2
  <1>5. /\ serverInfo' = [s \in Servers |-> serverInfo'[s]]
        /\ \A s \in Servers : /\ serverInfo'[s] = [link |-> serverInfo'[s].link, nLoadCount |-> serverInfo'[s].nLoadCount]
                              /\ serverInfo'[s].link = serverInfo[s].link
    BY <1>1 DEF Shapes
  <1> QED
    BY <1>3, <1>4, <1>5, SessionsKept

(* A message that is taken from either queue, or put in one, is no matter. *)
LEMMA QueueKept ==
    ASSUME LoginInv, aborted = None, NEW k, NEW q,
           \/ links' = [links EXCEPT ![k].h2c = q]
           \/ links' = [links EXCEPT ![k].c2h = q],
           UNCHANGED <<byID, serverInfo>>
    PROVE  LoginInv'
  <1>1. Shapes
    BY DEF LoginInv
  <1>2. CASE links' = [links EXCEPT ![k].h2c = q]
    <2> DEFINE new == [links[k] EXCEPT !.h2c = q]
    <2>1. k \in LinkIDs => LinkShape(new) /\ KeptLink(links[k], new)
      BY <1>1 DEF Shapes, LinkShape, HasFields, KeptLink
    <2>2. links' = [links EXCEPT ![k] = new]
      BY <1>2
    <2> QED
      BY <2>1, <2>2, OneLinkKept
  <1>3. CASE links' = [links EXCEPT ![k].c2h = q]
    <2> DEFINE new == [links[k] EXCEPT !.c2h = q]
    <2>1. k \in LinkIDs => LinkShape(new) /\ KeptLink(links[k], new)
      BY <1>1 DEF Shapes, LinkShape, HasFields, KeptLink
    <2>2. links' = [links EXCEPT ![k] = new]
      BY <1>3
    <2> QED
      BY <2>1, <2>2, OneLinkKept
  <1> QED
    BY <1>2, <1>3

----------------------------------------------------------------------------
(* The first state has the invariant. *)
LEMMA LoginInvInit == LoginInit => LoginInv
  <1> SUFFICES ASSUME LoginInit PROVE Shapes /\ OwnID /\ Indexed /\ Bearing /\ Listed
    BY DEF LoginInv
  <1>1. Shapes
    BY FreeFields DEF LoginInit, Shapes, NotListed, NoLink, MaybeLink
  <1>2. OwnID /\ Bearing
    BY FreeFields DEF LoginInit, OwnID, Bearing
  <1>3. Indexed /\ Listed
    BY LinkEnds DEF LoginInit, Indexed, Listed, NotListed
  <1> QED
    BY <1>1, <1>2, <1>3

(* A connection begins on a link both ends are done with. *)
LEMMA ConnectKeeps ==
    ASSUME LoginInv, aborted = None, NEW c, NEW h, NEW k \in FreshLinks(c, h),
           links' = [links EXCEPT ![k] = NewLink], UNCHANGED <<byID, serverInfo>>
    PROVE  LoginInv'
  <1>1. KeptLink(links[k], NewLink) /\ LinkShape(NewLink)
    BY FreeFields DEF FreshLinks, KeptLink
  <1> QED
    BY <1>1, OneLinkKept

(* The end of a connection its host has closed. *)
LEMMA ClientEndKeeps ==
    ASSUME LoginInv, aborted = None, NEW k, links[k].hostEnd = "closed",
           links' = [links EXCEPT ![k] = ClientCloses(@)], UNCHANGED <<byID, serverInfo>>
    PROVE  LoginInv'
  <1>1. k \in LinkIDs => LinkShape(ClientCloses(links[k])) /\ KeptLink(links[k], ClientCloses(links[k]))
    BY ClientClosesKeeps DEF LoginInv, Shapes, KeptLink
  <1> QED
    BY <1>1, OneLinkKept

(* A session begins without an ID; a silent link keeps its session until   *)
(* its exit callback.                                                      *)
LEMMA SessionBeginsKeeps ==
    ASSUME LoginInv, aborted = None, NEW k \in LinkIDs, HostEnter(k) \/ LinkTimeout(k)
    PROVE  LoginInv'
  <1>1. LinkShape(links[k]) /\ OwnID
    BY DEF LoginInv, Shapes
  <1>2. CASE HostEnter(k)
    <2> DEFINE new == [links[k] EXCEPT !.hostEnd = "open", !.sess = TRUE]
    <2>1. LinkShape(new) /\ KeptLink(links[k], new)
      BY <1>1, <1>2 DEF HostEnter, LinkShape, HasFields, KeptLink, OwnID
    <2>2. links' = [links EXCEPT ![k] = new] /\ UNCHANGED <<byID, serverInfo>>
      BY <1>2 DEF HostEnter, LoginInv, Shapes
    <2> QED
      BY <2>1, <2>2, OneLinkKept
  <1>3. CASE LinkTimeout(k)
    <2> DEFINE new == [links[k] EXCEPT !.hostEnd = "closing"]
    <2>1. LinkShape(new) /\ KeptLink(links[k], new)
      BY <1>1, <1>3 DEF LinkTimeout, LinkShape, HasFields, KeptLink
    <2>2. links' = [links EXCEPT ![k] = new] /\ UNCHANGED <<byID, serverInfo>>
      BY <1>3 DEF LinkTimeout
    <2> QED
      BY <2>1, <2>2, OneLinkKept
  <1> QED
    BY <1>2, <1>3

(* A session of an ID that none had: the ID leads to it from now on, at    *)
(* the world server in both tables.                                        *)
LEMMA NewIDKeeps ==
    ASSUME LoginInv, aborted = None, NEW k \in LinkIDs,
           links[k].hostEnd = "open", byID[Host(k)][Client(k)] = NoLink,
           byID' = [byID EXCEPT ![Host(k)][Client(k)] = k],
           links' = [j \in LinkIDs |-> links'[j]],
           \A j \in LinkIDs : /\ LinkShape(links'[j]) /\ links'[j].hostEnd = links[j].hostEnd
                              /\ links'[j].sess = links[j].sess
                              /\ links'[j].id = IF j = k THEN Client(k) ELSE links[j].id,
           serverInfo' = IF Host(k) = WS THEN [serverInfo EXCEPT ![Client(k)] = [link |-> k, nLoadCount |-> 0]]
                         ELSE serverInfo
    PROVE  LoginInv'
  <1>1. Shapes /\ OwnID /\ Indexed /\ Bearing /\ Listed
    BY DEF LoginInv
  <1>2. Client(k) \in Servers /\ Host(k) \in Hosts /\ WS \in Hosts
    BY LinkEnds
  <1>3. Shapes'
    <2>1. byID' \in [Hosts -> [Servers -> MaybeLink]]
      BY <1>1, <1>2 DEF Shapes, MaybeLink
    <2>2. /\ serverInfo' = [s \in Servers |-> serverInfo'[s]]
          /\ \A s \in Servers : serverInfo'[s] = [link |-> serverInfo'[s].link, nLoadCount |-> serverInfo'[s].nLoadCount]
      BY <1>1, <1>2 DEF Shapes
    <2> QED
      BY <2>1, <2>2 DEF Shapes
  <1>4. OwnID'
    BY <1>1 DEF OwnID
  <1>5. \A h \in Hosts, s \in Servers :
            byID'[h][s] = IF h = Host(k) /\ s = Client(k) THEN k ELSE byID[h][s]
    BY <1>1, <1>2 DEF Shapes
  <1>6. links[k].sess
    BY <1>1 DEF Shapes, LinkShape, HasFields
  <1>7. Indexed'
    <2> SUFFICES ASSUME NEW h \in Hosts, NEW s \in Servers, byID'[h][s] # NoLink
                 PROVE  /\ byID'[h][s] \in LinkIDs /\ Host(byID'[h][s]) = h
                        /\ links'[byID'[h][s]].sess /\ links'[byID'[h][s]].id = s
      BY DEF Indexed
    <2>1. CASE h = Host(k) /\ s = Client(k)
      BY <2>1, <1>5, <1>6
    <2>2. CASE ~(h = Host(k) /\ s = Client(k))
      <3> DEFINE j == byID[h][s]
      <3>1. byID'[h][s] = j
        BY <2>2, <1>5
      <3>2. j \in LinkIDs /\ Host(j) = h /\ links[j].sess /\ links[j].id = s
        BY <3>1, <1>1 DEF Indexed
      <3>3. s # 0
        BY LinkEnds
      <3>4. j # k
        BY <3>2, <3>3, <2>2, <1>1 DEF OwnID
      <3> QED
        BY <3>1, <3>2, <3>4
    <2> QED
      BY <2>1, <2>2
  <1>8. Bearing'
    <2> SUFFICES ASSUME NEW j \in LinkIDs, links'[j].sess, links'[j].id # 0
                 PROVE  byID'[Host(j)][links'[j].id] = j
      BY DEF Bearing
    <2>1. CASE j = k
      BY <2>1, <1>2, <1>5
    <2>2. CASE j # k
      <3>1. byID[Host(j)][links[j].id] = j
        BY <2>2, <1>1 DEF Bearing
      <3>2. links[j].id \in Servers /\ Host(j) \in Hosts /\ j # NoLink
        BY <2>2, <1>1, LinkEnds DEF OwnID
      <3> QED
        BY <2>2, <3>1, <3>2, <1>5
    <2> QED
      BY <2>1, <2>2
  <1>9. Listed'
    <2> SUFFICES ASSUME NEW s \in Servers PROVE serverInfo'[s].link = byID'[WS][s]
      BY DEF Listed
    <2>1. byID'[WS][s] = IF WS = Host(k) /\ s = Client(k) THEN k ELSE byID[WS][s]
      BY <1>2, <1>5
    <2>2. serverInfo'[s].link = IF WS = Host(k) /\ s = Client(k) THEN k ELSE serverInfo[s].link
      BY <1>1, <1>2 DEF Shapes
    <2> QED
      BY <2>1, <2>2, <1>1 DEF Listed
  <1> QED
    BY <1>3, <1>4, <1>7, <1>8, <1>9 DEF LoginInv

(* Telling of servers changes no session. *)
LEMMA BoardcastKeeps ==
    ASSUME NEW lnks, NEW info, NEW id \in Servers, HasLinks(lnks)
    PROVE  LET new == Boardcast(lnks, info, id)
           IN HasLinks(new) /\ \A j \in LinkIDs : SameSession(lnks[j], new[j])
  <1> DEFINE ids == {a \in Acceptors : info[a].link # NoLink}
  <1>1. ASSUME NEW j \in LinkIDs, NEW msg
        PROVE  LinkShape(Reply(lnks[j], msg)) /\ SameSession(lnks[j], Reply(lnks[j], msg))
    BY ReplyKeeps DEF HasLinks, SameSession
  <1>2. CASE id \in Acceptors
    <2>1. Boardcast(lnks, info, id) =
             [k \in LinkIDs |-> IF \E c \in Connectors : info[c].link = k
                                THEN Reply(lnks[k], RepServerInfoList({id})) ELSE lnks[k]]
      BY <1>2 DEF Boardcast
    <2> HIDE DEF ids
    <2> QED
      BY <1>1, <2>1 DEF HasLinks, SameSession
  <1>3. CASE id \notin Acceptors
    <2> DEFINE k == info[id].link
               msg == RepServerInfoList(ids)
    <2>1. Boardcast(lnks, info, id) = [lnks EXCEPT ![k] = Reply(@, msg)]
      BY <1>3 DEF Boardcast
    <2> HIDE DEF ids, k, msg
    <2>2. Boardcast(lnks, info, id) = [j \in LinkIDs |-> IF j = k THEN Reply(lnks[j], msg) ELSE lnks[j]]
      BY <2>1 DEF HasLinks
    <2> QED
      BY <1>1, <2>2 DEF HasLinks, SameSession
  <1> QED
    BY <1>2, <1>3

(* A login at an acceptor: a new ID, or an end for the session.            *)
LEMMA HostReqLoginKeeps ==
    ASSUME LoginInv, aborted = None, NEW k \in LinkIDs, HostReqLogin(k)
    PROVE  LoginInv'
  <1> DEFINE ok == byID[Host(k)][Client(k)] = NoLink
             old == [links[k] EXCEPT !.c2h = Tail(links[k].c2h),
                                     !.id = IF ok THEN Client(k) ELSE links[k].id,
                                     !.hostEnd = IF ok THEN "open" ELSE "closing"]
             new == Reply(old, RepLogined(ok))
  <1>1. LinkShape(links[k]) /\ Shapes
    BY DEF LoginInv, Shapes
  <1>2. links[k].hostEnd = "open" /\ links[k].sess /\ Host(k) \in Acceptors /\ Host(k) # WS
    BY <1>1, LinkEnds DEF HostReqLogin, LinkShape
  <1>3. links' = [links EXCEPT ![k] = new] /\ UNCHANGED serverInfo
    BY DEF HostReqLogin
  <1>4. /\ LinkShape(old) /\ old.sess = links[k].sess
        /\ old.id = IF ok THEN Client(k) ELSE links[k].id
        /\ old.hostEnd = IF ok THEN "open" ELSE "closing"
    BY <1>1, <1>2 DEF LinkShape, HasFields
  <1> HIDE DEF old
  <1>5. /\ LinkShape(new) /\ new.sess = links[k].sess
        /\ new.id = IF ok THEN Client(k) ELSE links[k].id
        /\ new.hostEnd = IF ok THEN "open" ELSE "closing"
    BY <1>4, ReplyKeeps
  <1> HIDE DEF new
  <1>6. CASE ok
    <2>1. byID' = [byID EXCEPT ![Host(k)][Client(k)] = k]
      BY <1>6 DEF HostReqLogin, InitSession
    <2>2. links' = [j \in LinkIDs |-> IF j = k THEN new ELSE links[j]]
      BY <1>1, <1>3 DEF Shapes
    <2>3. links' = [j \in LinkIDs |-> links'[j]]
      BY <2>2
    <2>4. \A j \in LinkIDs : /\ LinkShape(links'[j]) /\ links'[j].hostEnd = links[j].hostEnd
                             /\ links'[j].sess = links[j].sess
                             /\ links'[j].id = IF j = k THEN Client(k) ELSE links[j].id
      BY <1>1, <1>2, <1>5, <1>6, <2>2 DEF Shapes
    <2> QED
      BY <1>2, <1>3, <1>6, <2>1, <2>3, <2>4, NewIDKeeps
  <1>7. CASE ~ok
    <2>1. UNCHANGED byID
      BY <1>7 DEF HostReqLogin, InitSession
    <2>2. KeptLink(links[k], new)
      BY <1>5, <1>7 DEF KeptLink
    <2> QED
      BY <1>3, <1>5, <2>1, <2>2, OneLinkKept
  <1> QED
    BY <1>6, <1>7

(* A login at the world server, with its broadcast: an ID that is taken    *)
(* ends the process.                                                       *)
LEMMA WsReqLoginKeeps ==
    ASSUME LoginInv, aborted = None, aborted' = None, NEW k \in LinkIDs, WsReqLogin(k)
    PROVE  LoginInv'
  <1> DEFINE id == Client(k)
             fresh == serverInfo[id].link = NoLink
             ok == byID[WS][id] = NoLink
             info == OnServerLogin(id, k)
             old == [links[k] EXCEPT !.c2h = Tail(links[k].c2h), !.id = id]
             new == Reply(old, RepLogined(ok))
             answered == [links EXCEPT ![k] = new]
  <1>1. LinkShape(links[k]) /\ Shapes /\ Listed
    BY DEF LoginInv, Shapes
  <1>2. links[k].hostEnd = "open" /\ Host(k) = WS /\ id \in Servers
    BY LinkEnds DEF WsReqLogin
  <1>3. fresh
    BY DEF WsReqLogin, ASSERT, None
  <1>4. ok
    BY <1>1, <1>2, <1>3 DEF Listed
  <1>5. links' = Boardcast(answered, info, id)
    BY <1>3, <1>4 DEF WsReqLogin
  <1>6. byID' = [byID EXCEPT ![Host(k)][Client(k)] = k]
    BY <1>2, <1>4 DEF WsReqLogin, InitSession
  <1>7. serverInfo' = [serverInfo EXCEPT ![Client(k)] = [link |-> k, nLoadCount |-> 0]]
    BY <1>3 DEF WsReqLogin, OnServerLogin
  <1>8. LinkShape(old) /\ old.sess = links[k].sess /\ old.id = id /\ old.hostEnd = links[k].hostEnd
    BY <1>1 DEF LinkShape, HasFields
  <1> HIDE DEF old, ok, fresh, info
  <1>9. LinkShape(new) /\ new.sess = links[k].sess /\ new.id = id /\ new.hostEnd = links[k].hostEnd
    BY <1>8, ReplyKeeps
  <1> HIDE DEF new
  <1>10. answered = [j \in LinkIDs |-> IF j = k THEN new ELSE links[j]]
    BY <1>1 DEF Shapes
  <1> HIDE DEF answered
  <1>11. HasLinks(answered)
    BY <1>1, <1>9, <1>10 DEF HasLinks, Shapes
  <1>12. HasLinks(links') /\ \A j \in LinkIDs : SameSession(answered[j], links'[j])
    BY <1>2, <1>5, <1>11, BoardcastKeeps
  <1>13. links' = [j \in LinkIDs |-> links'[j]]
    BY <1>12 DEF HasLinks
  <1>14. \A j \in LinkIDs : /\ LinkShape(links'[j]) /\ links'[j].hostEnd = links[j].hostEnd
                            /\ links'[j].sess = links[j].sess
                            /\ links'[j].id = IF j = k THEN Client(k) ELSE links[j].id
    BY <1>9, <1>10, <1>12 DEF HasLinks, SameSession
  <1>15. byID[Host(k)][Client(k)] = NoLink
    BY <1>2, <1>4 DEF ok
  <1> QED
    BY <1>2, <1>6, <1>7, <1>13, <1>14, <1>15, NewIDKeeps

(* A session that ends takes its ID out of the indexes; one that never had *)
(* an ID ends the process.                                                 *)
LEMMA HostExitKeeps ==
    ASSUME LoginInv, aborted = None, aborted' = None, NEW k \in LinkIDs, HostExit(k)
    PROVE  LoginInv'
  <1> DEFINE h == Host(k)
             id == links[k].id
  <1>1. Shapes /\ OwnID /\ Indexed /\ Bearing /\ Listed
    BY DEF LoginInv
  <1>2. links[k].sess /\ LinkShape(links[k]) /\ h \in Hosts
    BY <1>1, LinkEnds DEF HostExit, Shapes, LinkShape
  <1>3. id # 0 /\ byID[h][id] # NoLink
    BY DEF HostExit, ASSERT, None
  <1>4. byID[h][id] = k /\ id = Client(k) /\ id \in Servers /\ k # NoLink
    BY <1>1, <1>2, <1>3, LinkEnds DEF Bearing, OwnID
  <1>5. byID' = [byID EXCEPT ![h][id] = NoLink]
    BY <1>3 DEF HostExit, RemoveSession
  <1>6. serverInfo' = IF h = WS THEN [serverInfo EXCEPT ![id] = NotListed] ELSE serverInfo
    BY <1>3 DEF HostExit, OnServerExit
  <1> DEFINE old == [links[k] EXCEPT !.sess = FALSE]
             new == HostCloses(old)
  <1>7. links' = [[links EXCEPT ![k].sess = FALSE] EXCEPT ![k] = HostCloses(@)]
    BY <1>3, <1>4 DEF HostExit
  <1>8. links' = [j \in LinkIDs |-> IF j = k THEN new ELSE links[j]]
    <2>1. [links EXCEPT ![k].sess = FALSE] = [j \in LinkIDs |-> IF j = k THEN old ELSE links[j]]
      BY <1>1 DEF Shapes
    <2> HIDE DEF old
    <2>2. links' = [[j \in LinkIDs |-> IF j = k THEN old ELSE links[j]] EXCEPT ![k] = HostCloses(@)]
      BY <1>7, <2>1
    <2> QED
      BY <2>2
  <1>9. HasFields(old) /\ old.id = id
    BY <1>2 DEF LinkShape, HasFields
  <1> HIDE DEF old
  <1>10. LinkShape(new) /\ new.sess = FALSE /\ new.hostEnd = "closed" /\ new.id \in {0, id}
    BY <1>9, HostClosesEnds
  <1> HIDE DEF new
  <1>11. \A g \in Hosts, s \in Servers : byID'[g][s] = IF g = h /\ s = id THEN NoLink ELSE byID[g][s]
    BY <1>1, <1>2, <1>4, <1>5 DEF Shapes
  <1>12. Shapes'
    <2>1. byID' \in [Hosts -> [Servers -> MaybeLink]]
      BY <1>1, <1>2, <1>4, <1>5 DEF Shapes, MaybeLink
    <2>2. /\ serverInfo' = [s \in Servers |-> serverInfo'[s]]
          /\ \A s \in Servers : serverInfo'[s] = [link |-> serverInfo'[s].link, nLoadCount |-> serverInfo'[s].nLoadCount]
      BY <1>1, <1>4, <1>6 DEF Shapes, NotListed
    <2>3. links' = [j \in LinkIDs |-> links'[j]] /\ \A j \in LinkIDs : LinkShape(links'[j])
      BY <1>1, <1>8, <1>10 DEF Shapes
    <2> QED
      BY <2>1, <2>2, <2>3 DEF Shapes
  <1>13. OwnID'
    BY <1>1, <1>4, <1>8, <1>10 DEF OwnID
  <1>14. Indexed'
    <2> SUFFICES ASSUME NEW g \in Hosts, NEW s \in Servers, byID'[g][s] # NoLink
                 PROVE  /\ byID'[g][s] \in LinkIDs /\ Host(byID'[g][s]) = g
                        /\ links'[byID'[g][s]].sess /\ links'[byID'[g][s]].id = s
      BY DEF Indexed
    <2>1. byID'[g][s] = byID[g][s] /\ ~(g = h /\ s = id)
      BY <1>11
    <2>2. /\ byID[g][s] \in LinkIDs /\ Host(byID[g][s]) = g
          /\ links[byID[g][s]].sess /\ links[byID[g][s]].id = s
      BY <1>1, <2>1 DEF Indexed
    <2>3. byID[g][s] # k
      BY <2>1, <2>2
    <2> QED
      BY <1>8, <2>1, <2>2, <2>3
  <1>15. Bearing'
    <2> SUFFICES ASSUME NEW j \in LinkIDs, links'[j].sess, links'[j].id # 0
                 PROVE  byID'[Host(j)][links'[j].id] = j
      BY DEF Bearing
    <2>1. j # k /\ links'[j] = links[j]
      BY <1>8, <1>10
    <2>2. byID[Host(j)][links[j].id] = j
      BY <1>1, <2>1 DEF Bearing
    <2>3. links[j].id \in Servers /\ Host(j) \in Hosts
      BY <1>1, <2>1, LinkEnds DEF OwnID
    <2> QED
      BY <1>4, <1>11, <2>1, <2>2, <2>3
  <1>16. Listed'
    <2> SUFFICES ASSUME NEW s \in Servers PROVE serverInfo'[s].link = byID'[WS][s]
      BY DEF Listed
    <2>1. byID'[WS][s] = IF WS = h /\ s = id THEN NoLink ELSE byID[WS][s]
      BY <1>11, LinkEnds
    <2>2. serverInfo'[s].link = IF WS = h /\ s = id THEN NoLink ELSE serverInfo[s].link
      BY <1>1, <1>4, <1>6 DEF Shapes, NotListed
    <2> QED
      BY <1>1, <2>1, <2>2 DEF Listed
  <1> QED
    BY <1>12, <1>13, <1>14, <1>15, <1>16 DEF LoginInv

(* A placement adds to the loads and sends a notice. *)
LEMMA WsPlaceKeeps ==
    ASSUME LoginInv, aborted = None, aborted' = None, NEW k \in LinkIDs, WsPlace(k)
    PROVE  LoginInv'
  <1> DEFINE old == [links[k] EXCEPT !.c2h = Tail(links[k].c2h)]
             taken == [links EXCEPT ![k] = old]
  <1>1. HasLinks(links) /\ Shapes
    BY DEF LoginInv, Shapes, HasLinks
  <1>2. LinkShape(old) /\ SameSession(links[k], old)
    BY <1>1 DEF Shapes, LinkShape, HasFields, SameSession
  <1>3. taken = [links EXCEPT ![k].c2h = Tail(@)]
    OBVIOUS
  <1>4. PICK l \in LoadLest(Ls), d \in LoadLest(Dps) :
           /\ links' = [taken EXCEPT ![serverInfo[l].link] = Reply(@, NofitySInfo(links[k].id, d))]
           /\ serverInfo' = OnLoadAddOne({l, d, links[k].id})
    BY <1>3 DEF WsPlace, ASSERT, None
  <1> DEFINE j == serverInfo[l].link
             msg == NofitySInfo(links[k].id, d)
             ids == {l, d, links[k].id}
  <1> HIDE DEF old, msg, j, ids
  <1>5. taken = [i \in LinkIDs |-> IF i = k THEN old ELSE links[i]]
    BY <1>1 DEF HasLinks
  <1> HIDE DEF taken
  <1>6. \A i \in LinkIDs : LinkShape(taken[i]) /\ SameSession(links[i], taken[i])
    BY <1>1, <1>2, <1>5 DEF HasLinks, SameSession
  <1>7. links' = [i \in LinkIDs |-> IF i = j THEN Reply(taken[i], msg) ELSE taken[i]]
    BY <1>4, <1>5 DEF j, msg
  <1>8. \A i \in LinkIDs : LinkShape(links'[i]) /\ SameSession(links[i], links'[i])
    BY <1>6, <1>7, ReplyKeeps DEF SameSession
  <1>9. links' = [i \in LinkIDs |-> links'[i]] /\ \A i \in LinkIDs : LinkShape(links'[i]) /\ KeptLink(links[i], links'[i])
    BY <1>7, <1>8 DEF SameSession, KeptLink
  <1>10. serverInfo' = [s \in Servers |-> IF s \in ids THEN [serverInfo[s] EXCEPT !.nLoadCount = @ + 1] ELSE serverInfo[s]]
    BY <1>4 DEF OnLoadAddOne, ids
  <1>11. /\ serverInfo' = [s \in Servers |-> serverInfo'[s]]
         /\ \A s \in Servers : /\ serverInfo'[s] = [link |-> serverInfo'[s].link, nLoadCount |-> serverInfo'[s].nLoadCount]
                               /\ serverInfo'[s].link = serverInfo[s].link
    BY <1>1, <1>10 DEF Shapes
  <1>12. UNCHANGED byID
    BY DEF WsPlace
  <1> QED
    BY <1>9, <1>11, <1>12, SessionsKept

(* A process that dies takes its own index and sessions with it, and       *)
(* leaves those of its hosts to their exit callbacks.                      *)
LEMMA ServerDownKeeps ==
    ASSUME LoginInv, aborted = None, NEW s \in Servers, ServerDown(s)
    PROVE  LoginInv'
  <1> DEFINE Closes(k) == Client(k) = s /\ links[k].clientEnd = "open"
             Dies(k) == ~Closes(k) /\ Host(k) = s /\ links[k].hostEnd # "closed"
  <1>1. Shapes /\ OwnID /\ Indexed /\ Bearing /\ Listed
    BY DEF LoginInv
  <1>2. links' = [k \in LinkIDs |-> IF Closes(k) THEN ClientCloses(links[k])
                                    ELSE IF Dies(k) THEN HostCloses(links[k]) ELSE links[k]]
    BY DEF ServerDown
  <1>3. UNCHANGED serverInfo
    BY DEF ServerDown
  <1>4. \A k \in LinkIDs : Host(k) # Client(k) /\ Client(k) \in Servers /\ Host(k) \in Hosts
    BY LinkEnds
  <1>5. s # WS /\ WS \in Hosts /\ \A h \in Hosts : h = s => s \in Acceptors
    BY LinkEnds DEF Hosts
  <1>6. \A h \in Hosts, t \in Servers : byID'[h][t] = IF h = s THEN NoLink ELSE byID[h][t]
    BY <1>1, <1>5 DEF ServerDown, Shapes
  <1>7. ASSUME NEW k \in LinkIDs
        PROVE  /\ LinkShape(links'[k])
               /\ Host(k) = s => ~links'[k].sess
               /\ Host(k) # s => KeptLink(links[k], links'[k])
               /\ links'[k].id \in {0, links[k].id}
               /\ links'[k].hostEnd = "new" => links[k].hostEnd = "new" /\ links'[k].id = links[k].id
    <2>1. LinkShape(links[k]) /\ HasFields(links[k])
      BY <1>1 DEF Shapes, LinkShape
    <2>2. CASE Closes(k)
      <3>1. Host(k) # s /\ links'[k] = ClientCloses(links[k])
        BY <1>2, <1>4, <2>2
      <3>2. CASE links[k].hostEnd = "closed"
        BY <2>1, <3>1, <3>2, ClientClosesKeeps, FreeFields DEF KeptLink
      <3>3. CASE links[k].hostEnd # "closed"
        BY <2>1, <3>1, <3>3, ClientClosesKeeps DEF KeptLink
      <3> QED
        BY <3>2, <3>3
    <2>3. CASE Dies(k)
      <3>1. links'[k] = HostCloses(links[k]) /\ Host(k) = s
        BY <1>2, <2>3
      <3> QED
        BY <2>1, <3>1, HostClosesEnds
    <2>4. CASE ~Closes(k) /\ ~Dies(k)
      <3>1. links'[k] = links[k]
        BY <1>2, <2>4
      <3>2. ASSUME Host(k) = s PROVE ~links[k].sess
        <4>1. Client(k) # s
          BY <1>4, <3>2
        <4>2. links[k].hostEnd = "closed"
          BY <2>4, <3>2, <4>1
        <4> QED
          BY <2>1, <4>2 DEF LinkShape
      <3> QED
        BY <2>1, <3>1, <3>2 DEF KeptLink
    <2> QED
      BY <2>2, <2>3, <2>4
  <1> HIDE DEF Closes, Dies
  <1>8. Shapes'
    <2>1. byID' \in [Hosts -> [Servers -> MaybeLink]]
      BY <1>1, <1>5 DEF ServerDown, Shapes, MaybeLink
    <2>2. links' = [k \in LinkIDs |-> links'[k]]
      BY <1>2
    <2> QED
      BY <1>1, <1>3, <1>7, <2>1, <2>2 DEF Shapes
  <1>9. OwnID'
    BY <1>1, <1>7 DEF OwnID
  <1>10. \A k \in LinkIDs : links[k].hostEnd = "closed" => ~links[k].sess
    BY <1>1 DEF Shapes, LinkShape
  <1>11. Indexed'
    <2> SUFFICES ASSUME NEW h \in Hosts, NEW t \in Servers, byID'[h][t] # NoLink
                 PROVE  /\ byID'[h][t] \in LinkIDs /\ Host(byID'[h][t]) = h
                        /\ links'[byID'[h][t]].sess /\ links'[byID'[h][t]].id = t
      BY DEF Indexed
    <2>1. byID'[h][t] = byID[h][t] /\ h # s
      BY <1>6
    <2>2. /\ byID[h][t] \in LinkIDs /\ Host(byID[h][t]) = h
          /\ links[byID[h][t]].sess /\ links[byID[h][t]].id = t
      BY <1>1, <2>1 DEF Indexed
    <2>3. KeptLink(links[byID[h][t]], links'[byID[h][t]])
      BY <1>7, <2>1, <2>2
    <2> QED
      BY <1>10, <2>1, <2>2, <2>3 DEF KeptLink
  <1>12. Bearing'
    <2> SUFFICES ASSUME NEW k \in LinkIDs, links'[k].sess, links'[k].id # 0
                 PROVE  byID'[Host(k)][links'[k].id] = k
      BY DEF Bearing
    <2>1. Host(k) # s /\ KeptLink(links[k], links'[k])
      BY <1>7
    <2>2. links'[k] \notin {Free, NewLink}
      BY FreeFields
    <2>3. links[k].sess /\ links[k].id = links'[k].id
      BY <2>1, <2>2 DEF KeptLink
    <2>4. byID[Host(k)][links[k].id] = k
      BY <1>1, <2>3 DEF Bearing
    <2>5. links[k].id \in Servers
      BY <1>1, <1>4, <2>3 DEF OwnID
    <2> QED
      BY <1>4, <1>6, <2>1, <2>3, <2>4, <2>5
  <1>13. Listed'
    BY <1>1, <1>3, <1>5, <1>6 DEF Listed
  <1> QED
    BY <1>8, <1>9, <1>11, <1>12, <1>13 DEF LoginInv

----------------------------------------------------------------------------
(* Every step of every process keeps the invariant. *)
LEMMA LoginInvStep == LoginInv /\ [LoginNext]_loginVars => LoginInv'
  <1> SUFFICES ASSUME LoginInv, [LoginNext]_loginVars, aborted' = None PROVE LoginInv'
    BY DEF LoginInv
  <1>1. CASE UNCHANGED loginVars
    BY <1>1 DEF loginVars, LoginInv, Shapes, OwnID, Indexed, Bearing, Listed
  <1>2. CASE LoginNext
    <2>1. aborted = None
      BY <1>2 DEF LoginNext
    <2>2. ASSUME NEW s \in Servers, ServerStart(s) PROVE LoginInv'
      <3>1. PICK k \in FreshLinks(s, WS) : links' = [links EXCEPT ![k] = NewLink]
        BY <2>2 DEF ServerStart
      <3> QED
        BY <2>1, <2>2, <3>1, ConnectKeeps DEF ServerStart
    <2>3. ASSUME NEW s \in Servers, ServerDown(s) PROVE LoginInv'
      BY <2>1, <2>3, ServerDownKeeps
    <2>4. ASSUME NEW k \in LinkIDs, LinkTimeout(k) PROVE LoginInv'
      BY <2>1, <2>4, SessionBeginsKeeps
    <2>5. ASSUME NEW f \in Feps, AskPlacement(f) PROVE LoginInv'
      BY <2>1, <2>5, QueueKept DEF AskPlacement
    <2>6. ASSUME NEW k \in LinkIDs, HostNext(k) PROVE LoginInv'
      <3>1. CASE HostEnter(k)
        BY <2>1, <3>1, SessionBeginsKeeps
      <3>2. CASE WsReqLogin(k)
        BY <2>1, <3>2, WsReqLoginKeeps
      <3>3. CASE HostReqLogin(k)
        BY <2>1, <3>3, HostReqLoginKeeps
      <3>4. CASE HostExit(k)
        BY <2>1, <3>4, HostExitKeeps
      <3>5. CASE WsPlace(k)
        BY <2>1, <3>5, WsPlaceKeeps
      <3> QED
        BY <2>6, <3>1, <3>2, <3>3, <3>4, <3>5 DEF HostNext
    <2>7. ASSUME NEW s \in Servers, FromWs(s) PROVE LoginInv'
      <3>1. CASE WsRepLogined(s)
        BY <2>1, <3>1, QueueKept DEF WsRepLogined
      <3>2. CASE WsLost(s)
        BY <2>1, <3>2, ClientEndKeeps DEF WsLost
      <3>3. CASE WsServerInfoList(s)
        BY <2>1, <3>3, QueueKept DEF WsServerInfoList
      <3>4. CASE LsNotified(s)
        BY <2>1, <3>4, QueueKept DEF LsNotified
      <3> QED
        BY <2>7, <3>1, <3>2, <3>3, <3>4 DEF FromWs
    <2>8. ASSUME NEW c \in Connectors, MgrUpdate(c) PROVE LoginInv'
      BY <2>1, <2>8, <1>1 DEF MgrUpdate, LoginInv, Shapes, OwnID, Indexed, Bearing, Listed
    <2>9. ASSUME NEW c \in Connectors, NEW a \in Acceptors, PeerNext(c, a) PROVE LoginInv'
      <3>1. CASE ConnEnter(c, a)
        <4>1. PICK k \in FreshLinks(c, a) : links' = [links EXCEPT ![k] = NewLink]
          BY <3>1 DEF ConnEnter
        <4> QED
          BY <2>1, <3>1, <4>1, ConnectKeeps DEF ConnEnter
      <3>2. CASE ConnRepLogined(c, a)
        BY <2>1, <3>2, QueueKept DEF ConnRepLogined
      <3>3. CASE ConnExit(c, a)
        BY <2>1, <3>3, ClientEndKeeps DEF ConnExit
      <3>4. CASE ConnEnterEarly(c, a)
        BY <2>1, <3>4, EarlyEnds DEF LoginInv
      <3> QED
        BY <2>9, <3>1, <3>2, <3>3, <3>4 DEF PeerNext
    <2> QED
      BY <1>2, <2>2, <2>3, <2>4, <2>5, <2>6, <2>7, <2>8, <2>9 DEF LoginNext, Environment, SystemNext
  <1> QED
    BY <1>1, <1>2

(* The inductive invariant holds in every reachable state. *)
THEOREM LoginInvariant == LoginSpec => []LoginInv
  BY LoginInvInit, LoginInvStep, PTL DEF LoginSpec

(* ServerSession.cpp:169, ServerInfoMgr.cpp:27: whatever dies, times out   *)
(* and comes back, an ID leads to a session that is there and bears it,    *)
(* and the world server's list names the same connection.                  *)
THEOREM IndexesAlwaysAgree == LoginSpec => []IndexesAgree
  <1>1. LoginInv => IndexesAgree
    BY DEF LoginInv, IndexesAgree, Indexed, Listed
  <1> QED
    BY <1>1, LoginInvariant, PTL

-----------------------------------------------------------------------------
(* A server that was told it is logged in is on the world server's list,   *)
(* with the connection it has, for as long as that lasts: on top of the    *)
(* agreement of the indexes.                                               *)

(* What a host sends. *)
HostMsgs ==
    {RepLogined(ok) : ok \in BOOLEAN} \cup {RepServerInfoList(ids) : ids \in SUBSET Servers}
    \cup {NofitySInfo(f, d) : f \in Servers \cup {0}, d \in Servers}

Answered(q) == \E i \in 1 .. Len(q) : q[i].type = "RepLogined"

(* The session of a link bears the ID of the server at the other end. *)
Bears(k, link) == link.sess /\ link.id = Client(k)

(* A server's connection to the world server is its own, and open at its   *)
(* end; those to the acceptors are others.                                 *)
Sessions ==
    /\ wsSession \in [Servers -> SessionStates]
    /\ peers \in [Connectors -> [Acceptors -> SessionStates]]
    /\ \A c \in Connectors, a \in Acceptors :
          LET k == peers[c][a].link
          IN k # NoLink => k \in LinkIDs /\ Host(k) = a
    /\ \A s \in Servers :
          LET k == wsSession[s].link
          IN /\ k # NoLink => k \in LinkIDs /\ Client(k) = s /\ Host(k) = WS /\ links[k].clientEnd = "open"
             /\ wsSession[s].status = "LOGINED" => k # NoLink

Queues == \A k \in LinkIDs : links[k].h2c \in Seq(HostMsgs)

(* The world server answers a login with a session that bears the ID, *)
AnswersTrue ==
    \A k \in LinkIDs :
        (Host(k) = WS /\ links[k].hostEnd # "closed" /\ Answered(links[k].h2c)) => Bears(k, links[k])

(* and it bears it when the answer is taken, and afterwards. *)
LoginedBears ==
    \A s \in Servers :
        (wsSession[s].status = "LOGINED" /\ links[wsSession[s].link].hostEnd # "closed")
        => Bears(wsSession[s].link, links[wsSession[s].link])

ListInv == aborted = None => Sessions /\ Queues /\ AnswersTrue /\ LoginedBears

----------------------------------------------------------------------------
(* A queue whose first message is taken. *)
LEMMA TakeHead ==
    ASSUME NEW q \in Seq(HostMsgs), q # <<>>
    PROVE  /\ Tail(q) \in Seq(HostMsgs) /\ (Answered(Tail(q)) => Answered(q))
           /\ Head(q).type = "RepLogined" => Answered(q)
  <1>1. /\ Tail(q) \in Seq(HostMsgs) /\ Len(q) \in Nat \ {0} /\ Len(Tail(q)) = Len(q) - 1
        /\ \A i \in 1 .. Len(Tail(q)) : Tail(q)[i] = q[i + 1]
    BY HeadTailProperties, EmptySeq
  <1>2. Answered(Tail(q)) => Answered(q)
    <2> SUFFICES ASSUME NEW i \in 1 .. Len(Tail(q)), Tail(q)[i].type = "RepLogined" PROVE Answered(q)
      BY DEF Answered
    <2>1. i + 1 \in 1 .. Len(q) /\ q[i + 1].type = "RepLogined"
      BY <1>1
    <2> QED
      BY <2>1 DEF Answered
  <1>3. Head(q) = q[1] /\ 1 \in 1 .. Len(q)
    BY <1>1
  <1> QED
    BY <1>1, <1>2, <1>3 DEF Answered

(* A queue to which a message is added. *)
LEMMA PutBehind ==
    ASSUME NEW q \in Seq(HostMsgs), NEW m \in HostMsgs
    PROVE  /\ Append(q, m) \in Seq(HostMsgs)
           /\ Answered(Append(q, m)) => Answered(q) \/ m.type = "RepLogined"
  <1>1. /\ Append(q, m) \in Seq(HostMsgs) /\ Len(q) \in Nat /\ Len(Append(q, m)) = Len(q) + 1
        /\ \A i \in 1 .. Len(q) : Append(q, m)[i] = q[i]
        /\ Append(q, m)[Len(q) + 1] = m
    BY AppendProperties, LenProperties
  <1>2. ASSUME NEW i \in 1 .. Len(Append(q, m)), Append(q, m)[i].type = "RepLogined"
        PROVE  Answered(q) \/ m.type = "RepLogined"
    <2>1. CASE i \in 1 .. Len(q)
      BY <1>1, <1>2, <2>1 DEF Answered
    <2>2. CASE i = Len(q) + 1
      BY <1>1, <1>2, <2>2
    <2> QED
      BY <1>1, <1>2, <2>1, <2>2
  <1> QED
    BY <1>1, <1>2 DEF Answered

(* An answer leaves the client's end as it is. *)
LEMMA ReplyQueues ==
    ASSUME NEW link, NEW m \in HostMsgs, LinkShape(link), link.h2c \in Seq(HostMsgs)
    PROVE  /\ Reply(link, m).h2c \in Seq(HostMsgs) /\ Reply(link, m).clientEnd = link.clientEnd
           /\ Answered(Reply(link, m).h2c) => Answered(link.h2c) \/ m.type = "RepLogined"
  <1>1. CASE link.clientEnd = "open"
    <2>1. Reply(link, m).h2c = Append(link.h2c, m) /\ Reply(link, m).clientEnd = link.clientEnd
      BY <1>1 DEF Reply, LinkShape, HasFields
    <2> QED
      BY <2>1, PutBehind
  <1>2. CASE link.clientEnd # "open"
    BY <1>2 DEF Reply
  <1> QED
    BY <1>1, <1>2

(* No message waits on a new link. *)
LEMMA FreeQueues ==
    /\ Free.h2c = <<>> /\ NewLink.h2c = <<>> /\ Free.clientEnd = "closed" /\ NewLink.clientEnd = "open"
    /\ <<>> \in Seq(HostMsgs) /\ ~Answered(<<>>)
  <1>1. Free.h2c = <<>> /\ Free.clientEnd = "closed"
    BY DEF Free
  <1>2. NewLink.h2c = Free.h2c /\ NewLink.clientEnd = "open"
    BY FreeFields DEF NewLink, LinkShape, HasFields
  <1> QED
    BY <1>1, <1>2, EmptySeq DEF Answered

(* What a step may do to a link: nobody is told of a login that was not,   *)
Tells(k, old, new) ==
    /\ new.h2c \in Seq(HostMsgs)
    /\ \/ Host(k) # WS \/ new.hostEnd = "closed" \/ ~Answered(new.h2c) \/ Bears(k, new)
       \/ /\ Answered(new.h2c) => Answered(old.h2c)
          /\ old.hostEnd # "closed" /\ (Bears(k, old) => Bears(k, new))

(* and a session whose client has not closed the link keeps its ID. *)
Lasts(k, old, new) ==
    /\ new.clientEnd = old.clientEnd
    /\ new.hostEnd # "closed" => old.hostEnd # "closed" /\ (Bears(k, old) => Bears(k, new))

(* A step that keeps to it and leaves every session with the world server  *)
(* as it is, or ends it, keeps the invariant.                              *)
LEMMA ListKept ==
    ASSUME ListInv, aborted = None, wsSession' \in [Servers -> SessionStates],
           \A k \in LinkIDs : Tells(k, links[k], links'[k]),
           \A s \in Servers :
              \/ wsSession'[s] = NoSession
              \/ /\ wsSession'[s] = wsSession[s]
                 /\ \A k \in LinkIDs : k = wsSession[s].link => Lasts(k, links[k], links'[k]),
           peers' \in [Connectors -> [Acceptors -> SessionStates]],
           \A c \in Connectors, a \in Acceptors :
              \/ peers'[c][a].link \in {NoLink, peers[c][a].link}
              \/ peers'[c][a].link \in LinkIDs /\ Host(peers'[c][a].link) = a
    PROVE  ListInv'
  <1>1. Sessions /\ Queues /\ AnswersTrue /\ LoginedBears
    BY DEF ListInv
  <1>2. NoSession.link = NoLink /\ NoSession.status # "LOGINED"
    BY DEF NoSession
  <1>3. Sessions'
    <2>1. \A c \in Connectors, a \in Acceptors :
             peers'[c][a].link # NoLink => peers'[c][a].link \in LinkIDs /\ Host(peers'[c][a].link) = a
      BY <1>1 DEF Sessions
    <2>2. ASSUME NEW s \in Servers
          PROVE  /\ wsSession'[s].link # NoLink => /\ wsSession'[s].link \in LinkIDs /\ Client(wsSession'[s].link) = s
                                                   /\ Host(wsSession'[s].link) = WS
                                                   /\ links'[wsSession'[s].link].clientEnd = "open"
                 /\ wsSession'[s].status = "LOGINED" => wsSession'[s].link # NoLink
      BY <1>1, <1>2 DEF Sessions, Lasts
    <2> QED
      BY <2>1, <2>2 DEF Sessions
  <1>4. Queues'
    BY DEF Queues, Tells
  <1>5. AnswersTrue'
    BY <1>1 DEF AnswersTrue, Tells
  <1>6. LoginedBears'
    <2> SUFFICES ASSUME NEW s \in Servers, wsSession'[s].status = "LOGINED",
                        links'[wsSession'[s].link].hostEnd # "closed"
                 PROVE  Bears(wsSession'[s].link, links'[wsSession'[s].link])
      BY DEF LoginedBears, Bears
    <2>1. wsSession'[s] = wsSession[s] /\ wsSession[s].link \in LinkIDs
      BY <1>1, <1>2 DEF Sessions
    <2> DEFINE k == wsSession[s].link
    <2>2. Lasts(k, links[k], links'[k])
      BY <1>2, <2>1
    <2>3. links'[k].hostEnd # "closed" /\ wsSession[s].status = "LOGINED"
      BY <2>1
    <2>4. links[k].hostEnd # "closed" /\ (Bears(k, links[k]) => Bears(k, links'[k]))
      BY <2>2, <2>3 DEF Lasts
    <2>5. Bears(k, links[k])
      BY <1>1, <2>3, <2>4 DEF LoginedBears
    <2> QED
      BY <2>1, <2>4, <2>5
  <1> QED
    BY <1>3, <1>4, <1>5, <1>6 DEF ListInv

(* The same for a step that changes one link and no session. *)
LEMMA OneLinkTells ==
    ASSUME ListInv, LoginInv, aborted = None, NEW k, NEW new,
           links' = [links EXCEPT ![k] = new],
           k \in LinkIDs => Tells(k, links[k], new) /\ Lasts(k, links[k], new),
           UNCHANGED <<wsSession, peers>>
    PROVE  ListInv'
  <1>1. Shapes /\ Sessions /\ Queues
    BY DEF LoginInv, ListInv
  <1>2. links' = [j \in LinkIDs |-> IF j = k THEN new ELSE links[j]]
    BY <1>1 DEF Shapes
  <1>3. \A j \in LinkIDs : Tells(j, links[j], links[j]) /\ Lasts(j, links[j], links[j])
    BY <1>1 DEF Tells, Lasts, Queues, Sessions, ListInv, AnswersTrue
  <1>4. \A j \in LinkIDs : Tells(j, links[j], links'[j]) /\ Lasts(j, links[j], links'[j])
    BY <1>2, <1>3
  <1>5. wsSession' \in [Servers -> SessionStates] /\ peers' \in [Connectors -> [Acceptors -> SessionStates]]
    BY <1>1 DEF Sessions
  <1> QED
    BY <1>4, <1>5, ListKept

(* A message that is taken. *)
LEMMA TailTells ==
    ASSUME ListInv, LoginInv, aborted = None, NEW k \in LinkIDs,
           links[k].h2c # <<>>, links' = [links EXCEPT ![k].h2c = Tail(@)]
    PROVE  /\ \A j \in LinkIDs : Tells(j, links[j], links'[j]) /\ Lasts(j, links[j], links'[j])
           /\ links'[k].hostEnd = links[k].hostEnd /\ (Bears(k, links[k]) => Bears(k, links'[k]))
  <1>1. Shapes /\ Queues
    BY DEF LoginInv, ListInv
  <1> DEFINE new == [links[k] EXCEPT !.h2c = Tail(links[k].h2c)]
  <1>2. /\ new.clientEnd = links[k].clientEnd /\ new.hostEnd = links[k].hostEnd
        /\ new.sess = links[k].sess /\ new.id = links[k].id /\ new.h2c = Tail(links[k].h2c)
    BY <1>1 DEF Shapes, LinkShape, HasFields
  <1>3. \A j \in LinkIDs : links'[j] = IF j = k THEN new ELSE links[j]
    BY <1>1 DEF Shapes
  <1> HIDE DEF new
  <1>4. Tail(links[k].h2c) \in Seq(HostMsgs) /\ (Answered(Tail(links[k].h2c)) => Answered(links[k].h2c))
    BY <1>1, TakeHead DEF Queues
  <1>5. Tells(k, links[k], new) /\ Lasts(k, links[k], new) /\ (Bears(k, links[k]) => Bears(k, new))
    BY <1>2, <1>4 DEF Tells, Lasts, Bears
  <1>6. \A j \in LinkIDs : Tells(j, links[j], links[j]) /\ Lasts(j, links[j], links[j])
    BY <1>1 DEF Tells, Lasts, Queues
  <1> QED
    BY <1>2, <1>3, <1>5, <1>6

(* A message that is put in the queue of the host. *)
LEMMA AskTells ==
    ASSUME ListInv, LoginInv, aborted = None, NEW k, NEW q, UNCHANGED <<wsSession, peers>>,
           links' = [links EXCEPT ![k].c2h = q]
    PROVE  ListInv'
  <1>1. Shapes /\ Queues
    BY DEF LoginInv, ListInv
  <1> DEFINE new == [links[k] EXCEPT !.c2h = q]
  <1>2. links' = [links EXCEPT ![k] = new]
    OBVIOUS
  <1>3. ASSUME k \in LinkIDs PROVE Tells(k, links[k], new) /\ Lasts(k, links[k], new)
    <2>1. /\ new.clientEnd = links[k].clientEnd /\ new.hostEnd = links[k].hostEnd
          /\ new.sess = links[k].sess /\ new.id = links[k].id /\ new.h2c = links[k].h2c
      BY <1>1, <1>3 DEF Shapes, LinkShape, HasFields
    <2> HIDE DEF new
    <2> QED
      BY <1>1, <1>3, <2>1 DEF Tells, Lasts, Bears, Queues
  <1> QED
    BY <1>2, <1>3, OneLinkTells

----------------------------------------------------------------------------
(* The first state has the invariant. *)
LEMMA ListInvInit == LoginInit => ListInv
  <1> SUFFICES ASSUME LoginInit PROVE Sessions /\ Queues /\ AnswersTrue /\ LoginedBears
    BY DEF ListInv
  <1>1. NoSession \in SessionStates /\ NoSession.link = NoLink /\ NoSession.status = "NONE"
    BY DEF NoSession, SessionStates, MaybeLink
  <1>2. Sessions
    BY <1>1 DEF LoginInit, Sessions
  <1>3. Queues /\ AnswersTrue
    BY FreeQueues, FreeFields DEF LoginInit, Queues, AnswersTrue
  <1>4. LoginedBears
    BY <1>1 DEF LoginInit, LoginedBears
  <1> QED
    BY <1>2, <1>3, <1>4

(* A server makes its connection on a link no session has. *)
LEMMA ServerStartTells ==
    ASSUME ListInv, LoginInv, aborted = None, NEW s \in Servers, ServerStart(s)
    PROVE  ListInv'
  <1>1. Shapes /\ Sessions /\ Queues /\ AnswersTrue /\ LoginedBears
    BY DEF LoginInv, ListInv
  <1>2. PICK k \in FreshLinks(s, WS) :
           /\ links' = [links EXCEPT ![k] = NewLink]
           /\ wsSession' = [wsSession EXCEPT ![s] = [link |-> k, status |-> "CONNETED"]]
    BY DEF ServerStart
  <1>3. k \in LinkIDs /\ Client(k) = s /\ Host(k) = WS /\ links[k].clientEnd = "closed"
    BY FreeQueues DEF FreshLinks
  <1>4. \A j \in LinkIDs : links'[j] = IF j = k THEN NewLink ELSE links[j]
    BY <1>1, <1>2 DEF Shapes
  <1> DEFINE new == [link |-> k, status |-> "CONNETED"]
  <1>5. \A t \in Servers : wsSession'[t] = IF t = s THEN new ELSE wsSession[t]
    BY <1>1, <1>2 DEF Sessions
  <1>6. new \in SessionStates /\ new.link = k /\ new.status = "CONNETED"
    BY <1>3 DEF SessionStates, MaybeLink
  <1>7. wsSession' \in [Servers -> SessionStates] /\ UNCHANGED peers
    BY <1>1, <1>2, <1>6 DEF Sessions, ServerStart, connVars
  <1> HIDE DEF new
  <1>8. \A t \in Servers : wsSession[t].link # k
    BY <1>1, <1>3, LinkEnds DEF Sessions
  <1>9. Sessions'
    <2>1. ASSUME NEW t \in Servers
          PROVE  /\ wsSession'[t].link # NoLink => /\ wsSession'[t].link \in LinkIDs /\ Client(wsSession'[t].link) = t
                                                   /\ Host(wsSession'[t].link) = WS
                                                   /\ links'[wsSession'[t].link].clientEnd = "open"
                 /\ wsSession'[t].status = "LOGINED" => wsSession'[t].link # NoLink
      BY <1>1, <1>3, <1>4, <1>5, <1>6, <1>8, FreeQueues DEF Sessions
    <2> QED
      BY <1>1, <1>7, <2>1 DEF Sessions
  <1>10. Queues' /\ AnswersTrue'
    BY <1>1, <1>4, FreeQueues DEF Queues, AnswersTrue
  <1>11. LoginedBears'
    <2> SUFFICES ASSUME NEW t \in Servers, wsSession'[t].status = "LOGINED",
                        links'[wsSession'[t].link].hostEnd # "closed"
                 PROVE  Bears(wsSession'[t].link, links'[wsSession'[t].link])
      BY DEF LoginedBears, Bears
    <2>1. wsSession'[t] = wsSession[t] /\ wsSession[t].link \in LinkIDs
      BY <1>1, <1>5, <1>6 DEF Sessions
    <2>2. links'[wsSession[t].link] = links[wsSession[t].link]
      BY <1>4, <1>8, <2>1
    <2>3. Bears(wsSession[t].link, links[wsSession[t].link])
      BY <1>1, <2>1, <2>2 DEF LoginedBears
    <2> QED
      BY <2>1, <2>2, <2>3
  <1> QED
    BY <1>9, <1>10, <1>11 DEF ListInv

(* The other connections begin on a link no session has. *)
LEMMA ConnEnterTells ==
    ASSUME ListInv, LoginInv, aborted = None, NEW c \in Connectors, NEW a \in Acceptors, ConnEnter(c, a)
    PROVE  ListInv'
  <1>1. Shapes /\ Sessions /\ Queues /\ AnswersTrue
    BY DEF LoginInv, ListInv
  <1>2. PICK k \in FreshLinks(c, a) :
           /\ links' = [links EXCEPT ![k] = NewLink]
           /\ peers' = [peers EXCEPT ![c][a] = [link |-> k, status |-> "CONNETED"]]
    BY DEF ConnEnter
  <1>3. k \in LinkIDs /\ Client(k) = c /\ Host(k) = a /\ links[k].clientEnd = "closed"
    BY FreeQueues DEF FreshLinks
  <1>4. \A j \in LinkIDs : links'[j] = IF j = k THEN NewLink ELSE links[j]
    BY <1>1, <1>2 DEF Shapes
  <1>5. \A t \in Servers : wsSession[t].link # k
    BY <1>1, <1>3, LinkEnds DEF Sessions
  <1>6. \A j \in LinkIDs : Tells(j, links[j], links'[j])
    BY <1>1, <1>4, FreeQueues DEF Tells, Queues, AnswersTrue
  <1>7. \A j \in LinkIDs : j # k => Lasts(j, links[j], links'[j])
    BY <1>4 DEF Lasts
  <1> DEFINE new == [link |-> k, status |-> "CONNETED"]
  <1>8. new \in SessionStates /\ new.link = k
    BY <1>3 DEF SessionStates, MaybeLink
  <1> HIDE DEF new
  <1>9. \A d \in Connectors, b \in Acceptors : peers'[d][b] = IF d = c /\ b = a THEN new ELSE peers[d][b]
    BY <1>1, <1>2 DEF Sessions, new
  <1>10. peers' \in [Connectors -> [Acceptors -> SessionStates]]
    BY <1>1, <1>2, <1>8 DEF Sessions, new
  <1>11. UNCHANGED wsSession /\ wsSession' \in [Servers -> SessionStates]
    BY <1>1 DEF ConnEnter, Sessions
  <1>12. \A d \in Connectors, b \in Acceptors :
            \/ peers'[d][b].link \in {NoLink, peers[d][b].link}
            \/ peers'[d][b].link \in LinkIDs /\ Host(peers'[d][b].link) = b
    BY <1>3, <1>8, <1>9
  <1>13. \A t \in Servers : /\ wsSession'[t] = wsSession[t]
                            /\ \A j \in LinkIDs : j = wsSession[t].link => Lasts(j, links[j], links'[j])
    BY <1>5, <1>7, <1>11
  <1> QED
    BY <1>6, <1>10, <1>11, <1>12, <1>13, ListKept

(* A link its host has closed ends; the session of the server goes with it. *)
LEMMA ClientEndTells ==
    ASSUME ListInv, LoginInv, aborted = None, NEW k, k # NoLink, links[k].hostEnd = "closed",
           links' = [links EXCEPT ![k] = ClientCloses(@)],
           wsSession' \in [Servers -> SessionStates],
           \A t \in Servers : wsSession'[t] = NoSession \/ (wsSession'[t] = wsSession[t] /\ wsSession[t].link # k),
           peers' \in [Connectors -> [Acceptors -> SessionStates]],
           \A d \in Connectors, b \in Acceptors : peers'[d][b].link \in {NoLink, peers[d][b].link}
    PROVE  ListInv'
  <1>1. Shapes /\ Sessions /\ Queues /\ AnswersTrue
    BY DEF LoginInv, ListInv
  <1>2. \A j \in LinkIDs : links'[j] = IF j = k THEN Free ELSE links[j]
    BY <1>1, ClientClosesKeeps DEF Shapes
  <1>3. ASSUME NEW j \in LinkIDs PROVE Tells(j, links[j], links'[j])
    <2>1. CASE j = k
      BY <1>2, <2>1, FreeQueues DEF Tells
    <2>2. CASE j # k
      BY <1>1, <1>2, <2>2 DEF Tells, Queues, AnswersTrue
    <2> QED
      BY <2>1, <2>2
  <1>4. \A j \in LinkIDs : j # k => Lasts(j, links[j], links'[j])
    BY <1>2 DEF Lasts
  <1> QED
    BY <1>3, <1>4, ListKept

(* The host's steps that send nothing. *)
LEMMA HostQuietTells ==
    ASSUME ListInv, LoginInv, aborted = None, NEW k \in LinkIDs,
           HostEnter(k) \/ LinkTimeout(k)
    PROVE  ListInv'
  <1>1. Shapes /\ OwnID /\ Queues /\ AnswersTrue /\ LinkShape(links[k])
    BY DEF LoginInv, ListInv, Shapes
  <1>2. UNCHANGED <<wsSession, peers>>
    BY DEF HostEnter, LinkTimeout, connVars
  <1>3. CASE HostEnter(k)
    <2> DEFINE new == [links[k] EXCEPT !.hostEnd = "open", !.sess = TRUE]
    <2>1. links' = [links EXCEPT ![k] = new]
      BY <1>1, <1>3 DEF HostEnter, Shapes
    <2>2. /\ new.clientEnd = links[k].clientEnd /\ new.hostEnd = "open" /\ new.h2c = links[k].h2c
          /\ new.id = links[k].id /\ links[k].hostEnd = "new" /\ ~links[k].sess
      BY <1>1, <1>3 DEF HostEnter, LinkShape, HasFields
    <2> HIDE DEF new
    <2>3. Tells(k, links[k], new) /\ Lasts(k, links[k], new)
      BY <1>1, <2>2 DEF Tells, Lasts, Bears, Queues, AnswersTrue
    <2> QED
      BY <1>2, <2>1, <2>3, OneLinkTells
  <1>4. CASE LinkTimeout(k)
    <2> DEFINE new == [links[k] EXCEPT !.hostEnd = "closing"]
    <2>1. links' = [links EXCEPT ![k] = new]
      BY <1>4 DEF LinkTimeout
    <2>2. /\ new.clientEnd = links[k].clientEnd /\ new.hostEnd = "closing" /\ new.h2c = links[k].h2c
          /\ new.id = links[k].id /\ links[k].hostEnd = "open" /\ new.sess = links[k].sess
      BY <1>1, <1>4 DEF LinkTimeout, LinkShape, HasFields
    <2> HIDE DEF new
    <2>3. Tells(k, links[k], new) /\ Lasts(k, links[k], new)
      BY <1>1, <2>2 DEF Tells, Lasts, Bears, Queues
    <2> QED
      BY <1>2, <2>1, <2>3, OneLinkTells
  <1> QED
    BY <1>3, <1>4

(* What a host sends, each with its type. *)
LEMMA MessagesSent ==
    /\ \A ok \in BOOLEAN : RepLogined(ok) \in HostMsgs
    /\ \A ids \in SUBSET Servers : RepServerInfoList(ids) \in HostMsgs /\ RepServerInfoList(ids).type # "RepLogined"
    /\ \A f \in Servers \cup {0}, d \in Servers : NofitySInfo(f, d) \in HostMsgs /\ NofitySInfo(f, d).type # "RepLogined"
  <1>1. /\ \A ok \in BOOLEAN : RepLogined(ok) \in HostMsgs
        /\ \A ids \in SUBSET Servers : RepServerInfoList(ids) \in HostMsgs
        /\ \A f \in Servers \cup {0}, d \in Servers : NofitySInfo(f, d) \in HostMsgs
    BY DEF HostMsgs
  <1>2. \A ids : RepServerInfoList(ids).type # "RepLogined"
    BY DEF RepServerInfoList
  <1>3. \A f, d : NofitySInfo(f, d).type # "RepLogined"
    BY DEF NofitySInfo
  <1> QED
    BY <1>1, <1>2, <1>3

(* An answer of an acceptor says nothing of the world server. *)
LEMMA HostReqLoginTells ==
    ASSUME ListInv, LoginInv, aborted = None, NEW k \in LinkIDs, HostReqLogin(k)
    PROVE  ListInv'
  <1> DEFINE ok == byID[Host(k)][Client(k)] = NoLink
             old == [links[k] EXCEPT !.c2h = Tail(links[k].c2h),
                                     !.id = IF ok THEN Client(k) ELSE links[k].id,
                                     !.hostEnd = IF ok THEN "open" ELSE "closing"]
             new == Reply(old, RepLogined(ok))
  <1>1. LinkShape(links[k]) /\ Shapes /\ OwnID /\ Queues
    BY DEF LoginInv, Shapes, ListInv
  <1>2. links[k].hostEnd = "open" /\ links[k].sess /\ Host(k) # WS
    BY <1>1, LinkEnds DEF HostReqLogin, LinkShape
  <1>3. links' = [links EXCEPT ![k] = new] /\ UNCHANGED <<wsSession, peers>>
    BY DEF HostReqLogin, connVars
  <1>4. ok \in BOOLEAN
    OBVIOUS
  <1>5. /\ LinkShape(old) /\ old.sess = links[k].sess /\ old.id \in {Client(k), links[k].id}
        /\ old.hostEnd \in {"open", "closing"} /\ old.clientEnd = links[k].clientEnd /\ old.h2c = links[k].h2c
    BY <1>1, <1>2 DEF LinkShape, HasFields
  <1> HIDE DEF old, ok
  <1>6. /\ new.sess = links[k].sess /\ new.id \in {Client(k), links[k].id} /\ new.hostEnd \in {"open", "closing"}
        /\ new.clientEnd = links[k].clientEnd /\ new.h2c \in Seq(HostMsgs)
    BY <1>1, <1>4, <1>5, MessagesSent, ReplyKeeps, ReplyQueues DEF Queues
  <1> HIDE DEF new
  <1>7. Tells(k, links[k], new) /\ Lasts(k, links[k], new)
    BY <1>2, <1>6 DEF Tells, Lasts, Bears
  <1> QED
    BY <1>3, <1>7, OneLinkTells

(* A step of the world server that changes no more than queues, sessions   *)
(* that it has open, and the IDs of those that log in.                     *)
LEMMA WsTells ==
    ASSUME ListInv, LoginInv, aborted = None,
           \A k \in LinkIDs : Tells(k, links[k], links'[k]) /\ Lasts(k, links[k], links'[k]),
           UNCHANGED <<wsSession, peers>>
    PROVE  ListInv'
  <1>1. wsSession' \in [Servers -> SessionStates] /\ peers' \in [Connectors -> [Acceptors -> SessionStates]]
    BY DEF ListInv, Sessions
  <1> QED
    BY <1>1, ListKept

(* What a message that is no answer does to a link. *)
LEMMA NoticeTells ==
    ASSUME NEW k, NEW link, NEW m \in HostMsgs, NEW new, new = Reply(link, m),
           m.type # "RepLogined", LinkShape(link), link.h2c \in Seq(HostMsgs)
    PROVE  /\ new.h2c \in Seq(HostMsgs) /\ (Answered(new.h2c) => Answered(link.h2c))
           /\ new.clientEnd = link.clientEnd /\ new.hostEnd = link.hostEnd /\ (Bears(k, new) <=> Bears(k, link))
  <1>1. /\ Reply(link, m).h2c \in Seq(HostMsgs) /\ Reply(link, m).clientEnd = link.clientEnd
        /\ Answered(Reply(link, m).h2c) => Answered(link.h2c)
    BY ReplyQueues
  <1>2. Reply(link, m).hostEnd = link.hostEnd /\ Reply(link, m).sess = link.sess /\ Reply(link, m).id = link.id
    BY ReplyKeeps
  <1>3. new.h2c = Reply(link, m).h2c /\ new.clientEnd = link.clientEnd
    BY <1>1
  <1>4. new.hostEnd = link.hostEnd /\ new.sess = link.sess /\ new.id = link.id
    BY <1>2
  <1> QED
    BY <1>1, <1>3, <1>4 DEF Bears

(* The lists of servers that are sent round are no answers. *)
LEMMA BoardcastTells ==
    ASSUME NEW lnks, NEW info, NEW id \in Servers, HasLinks(lnks),
           \A k \in LinkIDs : lnks[k].h2c \in Seq(HostMsgs)
    PROVE  LET new == Boardcast(lnks, info, id)
           IN \A k \in LinkIDs :
                 /\ new[k].h2c \in Seq(HostMsgs) /\ (Answered(new[k].h2c) => Answered(lnks[k].h2c))
                 /\ new[k].clientEnd = lnks[k].clientEnd /\ new[k].hostEnd = lnks[k].hostEnd
                 /\ (Bears(k, new[k]) <=> Bears(k, lnks[k]))
  <1> DEFINE ids == {a \in Acceptors : info[a].link # NoLink}
             msg == RepServerInfoList(IF id \in Acceptors THEN {id} ELSE ids)
             new == Boardcast(lnks, info, id)
  <1>1. msg \in HostMsgs /\ msg.type # "RepLogined"
    <2>1. {id} \in SUBSET Servers /\ ids \in SUBSET Servers
      BY LinkEnds
    <2> HIDE DEF ids
    <2> QED
      BY <2>1, MessagesSent
  <1>2. \A k \in LinkIDs : new[k] = Reply(lnks[k], msg) \/ new[k] = lnks[k]
    <2>1. CASE id \in Acceptors
      BY <2>1 DEF Boardcast
    <2>2. CASE id \notin Acceptors
      <3> DEFINE j == info[id].link
      <3>1. new = [lnks EXCEPT ![j] = Reply(lnks[j], msg)]
        BY <2>2 DEF Boardcast
      <3> HIDE DEF j, msg, new
      <3> QED
        BY <3>1 DEF HasLinks
    <2> QED
      BY <2>1, <2>2
  <1> HIDE DEF msg, new
  <1>3. ASSUME NEW k \in LinkIDs
        PROVE  /\ new[k].h2c \in Seq(HostMsgs) /\ (Answered(new[k].h2c) => Answered(lnks[k].h2c))
               /\ new[k].clientEnd = lnks[k].clientEnd /\ new[k].hostEnd = lnks[k].hostEnd
               /\ (Bears(k, new[k]) <=> Bears(k, lnks[k]))
    <2>1. LinkShape(lnks[k]) /\ lnks[k].h2c \in Seq(HostMsgs)
      BY DEF HasLinks
    <2>2. CASE new[k] = Reply(lnks[k], msg)
      BY <1>1, <2>1, <2>2, NoticeTells
    <2>3. CASE new[k] = lnks[k]
      BY <2>1, <2>3
    <2> QED
      BY <1>2, <2>2, <2>3
  <1> QED
    BY <1>3 DEF new

(* A login: the session has its ID before the answer is sent. *)
LEMMA WsReqLoginTells ==
    ASSUME ListInv, LoginInv, aborted = None, aborted' = None, NEW k \in LinkIDs, WsReqLogin(k)
    PROVE  ListInv'
  <1> DEFINE id == Client(k)
             ok == byID[WS][id] = NoLink
             info == OnServerLogin(id, k)
             old == [links[k] EXCEPT !.c2h = Tail(links[k].c2h), !.id = id]
             new == Reply(old, RepLogined(ok))
             answered == [links EXCEPT ![k] = new]
  <1>1. LinkShape(links[k]) /\ Shapes /\ Listed /\ Queues /\ AnswersTrue
    BY DEF LoginInv, Shapes, ListInv
  <1>2. links[k].hostEnd = "open" /\ links[k].sess /\ Host(k) = WS /\ id \in Servers
    BY <1>1, LinkEnds DEF WsReqLogin, LinkShape
  <1>3. serverInfo[id].link = NoLink
    BY DEF WsReqLogin, ASSERT, None
  <1>4. ok
    BY <1>1, <1>2, <1>3 DEF Listed
  <1>5. links' = Boardcast(answered, info, id) /\ UNCHANGED <<wsSession, peers>>
    BY <1>3, <1>4 DEF WsReqLogin, connVars
  <1>6. ok \in BOOLEAN
    OBVIOUS
  <1>7. /\ LinkShape(old) /\ old.sess = links[k].sess /\ old.id = id /\ old.hostEnd = "open"
        /\ old.clientEnd = links[k].clientEnd /\ old.h2c = links[k].h2c
    BY <1>1, <1>2 DEF LinkShape, HasFields
  <1> HIDE DEF old, ok, info
  <1>8. /\ LinkShape(new) /\ new.sess = links[k].sess /\ new.id = id /\ new.hostEnd = "open"
        /\ new.clientEnd = links[k].clientEnd /\ new.h2c \in Seq(HostMsgs)
    BY <1>1, <1>6, <1>7, MessagesSent, ReplyKeeps, ReplyQueues DEF Queues
  <1> HIDE DEF new
  <1>9. answered = [j \in LinkIDs |-> IF j = k THEN new ELSE links[j]]
    BY <1>1 DEF Shapes
  <1> HIDE DEF answered
  <1>10. HasLinks(answered) /\ \A j \in LinkIDs : answered[j].h2c \in Seq(HostMsgs)
    BY <1>1, <1>8, <1>9 DEF HasLinks, Shapes, Queues
  <1>11. \A j \in LinkIDs :
            /\ links'[j].h2c \in Seq(HostMsgs) /\ (Answered(links'[j].h2c) => Answered(answered[j].h2c))
            /\ links'[j].clientEnd = answered[j].clientEnd /\ links'[j].hostEnd = answered[j].hostEnd
            /\ (Bears(j, links'[j]) <=> Bears(j, answered[j]))
    BY <1>2, <1>5, <1>10, BoardcastTells
  <1>12. ASSUME NEW j \in LinkIDs
         PROVE  Tells(j, links[j], links'[j]) /\ Lasts(j, links[j], links'[j])
    <2>1. CASE j = k
      <3>1. answered[j] = new /\ Bears(j, new)
        BY <1>2, <1>8, <1>9, <2>1 DEF Bears
      <3> QED
        BY <1>2, <1>8, <1>11, <2>1, <3>1 DEF Tells, Lasts
    <2>2. CASE j # k
      <3>1. answered[j] = links[j]
        BY <1>9, <2>2
      <3> QED
        BY <1>1, <1>11, <3>1 DEF Tells, Lasts, AnswersTrue
    <2> QED
      BY <2>1, <2>2
  <1> QED
    BY <1>5, <1>12, WsTells

(* A placement is no answer either. *)
LEMMA WsPlaceTells ==
    ASSUME ListInv, LoginInv, aborted = None, aborted' = None, NEW k \in LinkIDs, WsPlace(k)
    PROVE  ListInv'
  <1> DEFINE old == [links[k] EXCEPT !.c2h = Tail(links[k].c2h)]
             taken == [links EXCEPT ![k] = old]
  <1>1. HasLinks(links) /\ Shapes /\ OwnID /\ Queues /\ AnswersTrue
    BY DEF LoginInv, Shapes, HasLinks, ListInv
  <1>2. /\ LinkShape(old) /\ old.sess = links[k].sess /\ old.id = links[k].id /\ old.hostEnd = links[k].hostEnd
        /\ old.clientEnd = links[k].clientEnd /\ old.h2c = links[k].h2c
    BY <1>1 DEF Shapes, LinkShape, HasFields
  <1>3. taken = [links EXCEPT ![k].c2h = Tail(@)]
    OBVIOUS
  <1>4. PICK l \in LoadLest(Ls), d \in LoadLest(Dps) :
           links' = [taken EXCEPT ![serverInfo[l].link] = Reply(@, NofitySInfo(links[k].id, d))]
    BY <1>3 DEF WsPlace, ASSERT, None
  <1> DEFINE j == serverInfo[l].link
             msg == NofitySInfo(links[k].id, d)
  <1>5. msg \in HostMsgs /\ msg.type # "RepLogined"
    <2>1. d \in Servers
      BY DEF LoadLest, Servers, Acceptors
    <2>2. links[k].id \in Servers \cup {0}
      BY <1>1, LinkEnds DEF OwnID
    <2> QED
      BY <2>1, <2>2, MessagesSent
  <1> HIDE DEF old, msg, j
  <1>6. taken = [i \in LinkIDs |-> IF i = k THEN old ELSE links[i]]
    BY <1>1 DEF HasLinks
  <1> HIDE DEF taken
  <1>7. \A i \in LinkIDs :
            /\ LinkShape(taken[i]) /\ taken[i].h2c = links[i].h2c /\ taken[i].clientEnd = links[i].clientEnd
            /\ taken[i].hostEnd = links[i].hostEnd /\ (Bears(i, taken[i]) <=> Bears(i, links[i]))
    BY <1>1, <1>2, <1>6 DEF HasLinks, Bears
  <1>8. \A i \in LinkIDs : links'[i] \in {Reply(taken[i], msg), taken[i]}
    BY <1>4, <1>6 DEF j, msg
  <1>9. \A i \in LinkIDs :
            /\ links'[i].h2c \in Seq(HostMsgs) /\ (Answered(links'[i].h2c) => Answered(links[i].h2c))
            /\ links'[i].clientEnd = links[i].clientEnd /\ links'[i].hostEnd = links[i].hostEnd
            /\ (Bears(i, links'[i]) <=> Bears(i, links[i]))
    <2> TAKE i \in LinkIDs
    <2>1. LinkShape(taken[i]) /\ taken[i].h2c \in Seq(HostMsgs)
      BY <1>1, <1>7 DEF Queues
    <2>2. CASE links'[i] = Reply(taken[i], msg)
      <3>1. /\ links'[i].h2c \in Seq(HostMsgs) /\ (Answered(links'[i].h2c) => Answered(taken[i].h2c))
            /\ links'[i].clientEnd = taken[i].clientEnd /\ links'[i].hostEnd = taken[i].hostEnd
            /\ (Bears(i, links'[i]) <=> Bears(i, taken[i]))
        BY <1>5, <2>1, <2>2, NoticeTells
      <3> QED
        BY <1>7, <3>1
    <2>3. CASE links'[i] = taken[i]
      BY <1>7, <2>1, <2>3
    <2> QED
      BY <1>8, <2>2, <2>3
  <1>10. \A i \in LinkIDs : Tells(i, links[i], links'[i]) /\ Lasts(i, links[i], links'[i])
    BY <1>1, <1>9 DEF Tells, Lasts, AnswersTrue
  <1>11. UNCHANGED <<wsSession, peers>>
    BY DEF WsPlace, connVars
  <1> QED
    BY <1>10, <1>11, WsTells

(* A session that ends has nobody to answer any more. *)
LEMMA HostExitTells ==
    ASSUME ListInv, LoginInv, aborted = None, aborted' = None, NEW k \in LinkIDs, HostExit(k)
    PROVE  ListInv'
  <1> DEFINE h == Host(k)
             id == links[k].id
             old == [links[k] EXCEPT !.sess = FALSE]
             new == HostCloses(old)
  <1>1. Shapes /\ OwnID /\ Bearing /\ Queues
    BY DEF LoginInv, ListInv
  <1>2. links[k].sess /\ LinkShape(links[k])
    BY <1>1 DEF HostExit, Shapes, LinkShape
  <1>3. id # 0 /\ byID[h][id] = k /\ k # NoLink
    BY <1>1, <1>2, LinkEnds DEF HostExit, ASSERT, None, Bearing
  <1>4. links' = [[links EXCEPT ![k].sess = FALSE] EXCEPT ![k] = HostCloses(@)]
    BY <1>3 DEF HostExit
  <1>5. links' = [links EXCEPT ![k] = new]
    <2>1. [links EXCEPT ![k].sess = FALSE] = [j \in LinkIDs |-> IF j = k THEN old ELSE links[j]]
      BY <1>1 DEF Shapes
    <2> HIDE DEF old
    <2>2. links' = [[j \in LinkIDs |-> IF j = k THEN old ELSE links[j]] EXCEPT ![k] = HostCloses(@)]
      BY <1>4, <2>1
    <2> QED
      BY <1>1, <2>2 DEF Shapes
  <1>6. HasFields(old) /\ old.h2c = links[k].h2c /\ old.clientEnd = links[k].clientEnd
    BY <1>2 DEF LinkShape, HasFields
  <1> HIDE DEF old
  <1>7. new.hostEnd = "closed"
    BY <1>6, HostClosesEnds
  <1>8. new.clientEnd = links[k].clientEnd /\ new.h2c \in Seq(HostMsgs)
    <2>1. CASE old.clientEnd = "closed"
      BY <1>6, <2>1, FreeQueues DEF HostCloses
    <2>2. CASE old.clientEnd # "closed"
      <3>1. new.clientEnd = old.clientEnd /\ new.h2c = old.h2c
        BY <1>6, <2>2 DEF HostCloses, HasFields
      <3> QED
        BY <1>1, <1>6, <3>1 DEF Queues
    <2> QED
      BY <2>1, <2>2
  <1> HIDE DEF new
  <1>9. Tells(k, links[k], new) /\ Lasts(k, links[k], new)
    BY <1>7, <1>8 DEF Tells, Lasts
  <1>10. UNCHANGED <<wsSession, peers>>
    BY DEF HostExit, connVars
  <1> QED
    BY <1>5, <1>9, <1>10, OneLinkTells

(* A process that dies takes its own sessions with it. *)
LEMMA ServerDownTells ==
    ASSUME ListInv, LoginInv, aborted = None, NEW s \in Servers, ServerDown(s)
    PROVE  ListInv'
  <1> DEFINE Closes(k) == Client(k) = s /\ links[k].clientEnd = "open"
             Dies(k) == ~Closes(k) /\ Host(k) = s /\ links[k].hostEnd # "closed"
  <1>1. Shapes /\ Sessions /\ Queues
    BY DEF LoginInv, ListInv
  <1>2. links' = [k \in LinkIDs |-> IF Closes(k) THEN ClientCloses(links[k])
                                    ELSE IF Dies(k) THEN HostCloses(links[k]) ELSE links[k]]
    BY DEF ServerDown
  <1>3. NoSession \in SessionStates /\ NoSession.link = NoLink
    BY DEF NoSession, SessionStates, MaybeLink
  <1>4. ASSUME NEW k \in LinkIDs PROVE Tells(k, links[k], links'[k])
    <2>1. LinkShape(links[k]) /\ HasFields(links[k]) /\ links[k].h2c \in Seq(HostMsgs)
      BY <1>1 DEF Shapes, LinkShape, Queues
    <2>2. CASE Closes(k)
      <3>1. links'[k] = ClientCloses(links[k])
        BY <1>2, <2>2
      <3>2. ClientCloses(links[k]).h2c = <<>>
        BY <2>1, FreeQueues DEF ClientCloses, HasFields
      <3> QED
        BY <3>1, <3>2, FreeQueues DEF Tells
    <2>3. CASE Dies(k)
      <3>1. links'[k] = HostCloses(links[k])
        BY <1>2, <2>3
      <3>2. HostCloses(links[k]).hostEnd = "closed"
        BY <2>1, HostClosesEnds
      <3>3. HostCloses(links[k]).h2c \in {<<>>, links[k].h2c}
        BY <2>1, FreeQueues DEF HostCloses, HasFields
      <3> QED
        BY <2>1, <3>1, <3>2, <3>3, FreeQueues DEF Tells
    <2>4. CASE ~Closes(k) /\ ~Dies(k)
      <3>1. links'[k] = links[k]
        BY <1>2, <2>4
      <3> QED
        BY <2>1, <3>1 DEF Tells
    <2> QED
      BY <2>2, <2>3, <2>4
  <1>5. ASSUME NEW t \in Servers
        PROVE  \/ wsSession'[t] = NoSession
               \/ /\ wsSession'[t] = wsSession[t]
                  /\ \A k \in LinkIDs : k = wsSession[t].link => Lasts(k, links[k], links'[k])
    <2>1. CASE t = s
      BY <1>1, <2>1 DEF ServerDown, Sessions
    <2>2. CASE t # s
      <3>1. wsSession'[t] = wsSession[t]
        BY <1>1, <2>2 DEF ServerDown, Sessions
      <3>2. ASSUME NEW k \in LinkIDs, k = wsSession[t].link PROVE Lasts(k, links[k], links'[k])
        <4>1. Client(k) = t /\ Host(k) = WS
          BY <1>1, <3>2, LinkEnds DEF Sessions
        <4>2. links'[k] = links[k]
          BY <1>2, <2>2, <4>1, LinkEnds
        <4> QED
          BY <4>2 DEF Lasts
      <3> QED
        BY <3>1, <3>2
    <2> QED
      BY <2>1, <2>2
  <1>6. wsSession' \in [Servers -> SessionStates]
    BY <1>1, <1>3 DEF ServerDown, Sessions
  <1>7. \A c \in Connectors : peers'[c] = peers[c] \/ peers'[c] = [a \in Acceptors |-> NoSession]
    BY <1>1 DEF ServerDown, Sessions
  <1>8. peers' \in [Connectors -> [Acceptors -> SessionStates]]
    BY <1>1, <1>3, SMTT(30) DEF ServerDown, Sessions
  <1>9. \A c \in Connectors, a \in Acceptors : peers'[c][a].link \in {NoLink, peers[c][a].link}
    BY <1>3, <1>7
  <1> QED
    BY <1>4, <1>5, <1>6, <1>8, <1>9, ListKept

(* An answer is taken: the world server had given the session its ID. *)
LEMMA WsRepLoginedTells ==
    ASSUME ListInv, LoginInv, aborted = None, NEW s \in Servers, WsRepLogined(s)
    PROVE  ListInv'
  <1> DEFINE k == wsSession[s].link
             new == wsSession'[s]
  <1>1. Sessions /\ Queues /\ AnswersTrue /\ LoginedBears
    BY DEF ListInv
  <1>2. k \in LinkIDs /\ Host(k) = WS /\ links[k].h2c # <<>> /\ Answered(links[k].h2c)
    <2>1. k \in LinkIDs /\ Host(k) = WS /\ links[k].h2c # <<>> /\ Head(links[k].h2c).type = "RepLogined"
      BY <1>1 DEF WsRepLogined, ToClient, Sessions
    <2> QED
      BY <1>1, <2>1, TakeHead DEF Queues
  <1>3. /\ \A j \in LinkIDs : Tells(j, links[j], links'[j]) /\ Lasts(j, links[j], links'[j])
        /\ links'[k].hostEnd = links[k].hostEnd /\ (Bears(k, links[k]) => Bears(k, links'[k]))
    BY <1>2, TailTells DEF WsRepLogined
  <1>4. new.link = k /\ new \in SessionStates /\ \A t \in Servers : t # s => wsSession'[t] = wsSession[t]
    BY <1>1 DEF WsRepLogined, Sessions, SessionStates
  <1>5. wsSession' \in [Servers -> SessionStates] /\ UNCHANGED peers
    BY <1>1, <1>4 DEF WsRepLogined, Sessions, connVars, SessionStates
  <1> HIDE DEF new
  <1>6. Sessions'
    <2>1. ASSUME NEW t \in Servers
          PROVE  /\ wsSession'[t].link # NoLink => /\ wsSession'[t].link \in LinkIDs /\ Client(wsSession'[t].link) = t
                                                   /\ Host(wsSession'[t].link) = WS
                                                   /\ links'[wsSession'[t].link].clientEnd = "open"
                 /\ wsSession'[t].status = "LOGINED" => wsSession'[t].link # NoLink
      <3>1. wsSession'[t].link = wsSession[t].link
        BY <1>4 DEF new
      <3>2. wsSession'[t].status = "LOGINED" => wsSession[t].link # NoLink
        BY <1>1, <1>2, <1>4, LinkEnds DEF new, Sessions
      <3> QED
        BY <1>1, <1>3, <3>1, <3>2 DEF Sessions, Lasts
    <2> QED
      BY <1>1, <1>5, <2>1 DEF Sessions
  <1>7. Queues' /\ AnswersTrue'
    BY <1>1, <1>3 DEF Queues, AnswersTrue, Tells
  <1>8. LoginedBears'
    <2> SUFFICES ASSUME NEW t \in Servers, wsSession'[t].status = "LOGINED",
                        links'[wsSession'[t].link].hostEnd # "closed"
                 PROVE  Bears(wsSession'[t].link, links'[wsSession'[t].link])
      BY DEF LoginedBears, Bears
    <2>1. CASE t = s
      BY <1>1, <1>2, <1>3, <1>4, <2>1 DEF new, AnswersTrue
    <2>2. CASE t # s
      <3> DEFINE j == wsSession[t].link
      <3>1. wsSession'[t] = wsSession[t] /\ j \in LinkIDs
        BY <1>1, <1>4, <2>2 DEF Sessions
      <3>2. links[j].hostEnd # "closed" /\ (Bears(j, links[j]) => Bears(j, links'[j]))
        BY <1>3, <3>1 DEF Lasts
      <3>3. Bears(j, links[j])
        BY <1>1, <3>1, <3>2 DEF LoginedBears
      <3> QED
        BY <3>1, <3>2, <3>3
    <2> QED
      BY <2>1, <2>2
  <1> QED
    BY <1>6, <1>7, <1>8 DEF ListInv

(* The answer of an acceptor is taken. *)
LEMMA ConnRepLoginedTells ==
    ASSUME ListInv, LoginInv, aborted = None, NEW c \in Connectors, NEW a \in Acceptors, ConnRepLogined(c, a)
    PROVE  ListInv'
  <1> DEFINE k == peers[c][a].link
  <1>1. Sessions
    BY DEF ListInv
  <1>2. k \in LinkIDs /\ links[k].h2c # <<>>
    BY <1>1 DEF ConnRepLogined, ToClient, Sessions
  <1>3. \A j \in LinkIDs : Tells(j, links[j], links'[j]) /\ Lasts(j, links[j], links'[j])
    BY <1>2, TailTells DEF ConnRepLogined
  <1>4. \A d \in Connectors, b \in Acceptors : peers'[d][b].link = peers[d][b].link
    BY <1>1 DEF ConnRepLogined, Sessions, SessionStates
  <1>5. peers' \in [Connectors -> [Acceptors -> SessionStates]]
    <2> DEFINE status == IF Head(links[k].h2c).ok THEN "LOGINED" ELSE peers[c][a].status
               session == [peers[c][a] EXCEPT !.status = status]
    <2>1. peers \in [Connectors -> [Acceptors -> SessionStates]]
      BY <1>1 DEF Sessions
    <2>2. session \in SessionStates
      BY <2>1 DEF SessionStates
    <2>3. peers' = [peers EXCEPT ![c] = [peers[c] EXCEPT ![a] = session]]
      BY DEF ConnRepLogined
    <2> HIDE DEF session
    <2> QED
      BY <2>1, <2>2, <2>3
  <1>6. UNCHANGED wsSession /\ wsSession' \in [Servers -> SessionStates]
    BY <1>1 DEF ConnRepLogined, Sessions
  <1> QED
    BY <1>3, <1>4, <1>5, <1>6, ListKept

----------------------------------------------------------------------------
(* Every step of every process keeps the invariant. *)
LEMMA ListInvStep == LoginInv /\ ListInv /\ [LoginNext]_loginVars => ListInv'
  <1> SUFFICES ASSUME LoginInv, ListInv, [LoginNext]_loginVars, aborted' = None PROVE ListInv'
    BY DEF ListInv
  <1>1. CASE UNCHANGED <<links, wsSession, peers, aborted>>
    BY <1>1 DEF ListInv, Sessions, Queues, AnswersTrue, LoginedBears, Bears
  <1>2. CASE LoginNext
    <2>1. aborted = None
      BY <1>2 DEF LoginNext
    <2>2. Sessions
      BY <2>1 DEF ListInv
    <2>3. ASSUME NEW s \in Servers, ServerStart(s) PROVE ListInv'
      BY <2>1, <2>3, ServerStartTells
    <2>4. ASSUME NEW s \in Servers, ServerDown(s) PROVE ListInv'
      BY <2>1, <2>4, ServerDownTells
    <2>5. ASSUME NEW k \in LinkIDs, LinkTimeout(k) PROVE ListInv'
      BY <2>1, <2>5, HostQuietTells
    <2>6. ASSUME NEW f \in Feps, AskPlacement(f) PROVE ListInv'
      BY <2>1, <2>6, AskTells DEF AskPlacement, connVars
    <2>7. ASSUME NEW k \in LinkIDs, HostNext(k) PROVE ListInv'
      <3>1. CASE HostEnter(k)
        BY <2>1, <3>1, HostQuietTells
      <3>2. CASE WsReqLogin(k)
        BY <2>1, <3>2, WsReqLoginTells
      <3>3. CASE HostReqLogin(k)
        BY <2>1, <3>3, HostReqLoginTells
      <3>4. CASE HostExit(k)
        BY <2>1, <3>4, HostExitTells
      <3>5. CASE WsPlace(k)
        BY <2>1, <3>5, WsPlaceTells
      <3> QED
        BY <2>7, <3>1, <3>2, <3>3, <3>4, <3>5 DEF HostNext
    <2>8. ASSUME NEW s \in Servers, FromWs(s) PROVE ListInv'
      <3> DEFINE k == wsSession[s].link
      <3>1. CASE WsRepLogined(s)
        BY <2>1, <3>1, WsRepLoginedTells
      <3>2. CASE WsLost(s)
        <4>1. NoSession \in SessionStates
          BY DEF NoSession, SessionStates, MaybeLink
        <4>2. wsSession' \in [Servers -> SessionStates]
          BY <2>2, <3>2, <4>1 DEF WsLost, Sessions
        <4>3. \A t \in Servers : wsSession'[t] = NoSession \/ (wsSession'[t] = wsSession[t] /\ wsSession[t].link # k)
          BY <2>2, <3>2 DEF WsLost, Sessions
        <4>4. /\ peers' \in [Connectors -> [Acceptors -> SessionStates]]
              /\ \A d \in Connectors, b \in Acceptors : peers'[d][b].link \in {NoLink, peers[d][b].link}
          BY <2>2, <3>2 DEF WsLost, connVars, Sessions
        <4>5. k # NoLink /\ links[k].hostEnd = "closed" /\ links' = [links EXCEPT ![k] = ClientCloses(@)]
          BY <3>2 DEF WsLost
        <4> QED
          BY <2>1, <4>2, <4>3, <4>4, <4>5, ClientEndTells
      <3>3. CASE WsServerInfoList(s) \/ LsNotified(s)
        <4>1. k \in LinkIDs /\ links[k].h2c # <<>>
          BY <2>2, <3>3 DEF WsServerInfoList, LsNotified, ToClient, Sessions
        <4>2. \A j \in LinkIDs : Tells(j, links[j], links'[j]) /\ Lasts(j, links[j], links'[j])
          BY <2>1, <3>3, <4>1, TailTells DEF WsServerInfoList, LsNotified
        <4>3. UNCHANGED <<wsSession, peers>>
          BY <3>3 DEF WsServerInfoList, LsNotified, connVars
        <4> QED
          BY <2>1, <4>2, <4>3, WsTells
      <3> QED
        BY <2>8, <3>1, <3>2, <3>3 DEF FromWs
    <2>9. ASSUME NEW c \in Connectors, MgrUpdate(c) PROVE ListInv'
      BY <1>1, <2>9 DEF MgrUpdate
    <2>10. ASSUME NEW c \in Connectors, NEW a \in Acceptors, PeerNext(c, a) PROVE ListInv'
      <3> DEFINE k == peers[c][a].link
      <3>1. CASE ConnEnter(c, a)
        BY <2>1, <3>1, ConnEnterTells
      <3>2. CASE ConnRepLogined(c, a)
        BY <2>1, <3>2, ConnRepLoginedTells
      <3>3. CASE ConnExit(c, a)
        <4>1. NoSession \in SessionStates /\ NoSession.link = NoLink
          BY DEF NoSession, SessionStates, MaybeLink
        <4>2. k # NoLink /\ links[k].hostEnd = "closed" /\ links' = [links EXCEPT ![k] = ClientCloses(@)]
          BY <3>3 DEF ConnExit
        <4>3. Host(k) = a /\ a # WS
          BY <2>2, <4>2, LinkEnds DEF Sessions
        <4>4. wsSession' \in [Servers -> SessionStates] /\ UNCHANGED wsSession
          BY <2>2, <3>3 DEF ConnExit, Sessions
        <4>5. \A t \in Servers : wsSession[t].link # k
          BY <2>2, <4>2, <4>3 DEF Sessions
        <4>6. peers' \in [Connectors -> [Acceptors -> SessionStates]]
          BY <2>2, <3>3, <4>1 DEF ConnExit, Sessions
        <4>7. \A d \in Connectors, b \in Acceptors : peers'[d][b].link \in {NoLink, peers[d][b].link}
          BY <2>2, <3>3, <4>1 DEF ConnExit, Sessions
        <4> QED
          BY <2>1, <4>2, <4>4, <4>5, <4>6, <4>7, ClientEndTells
      <3>4. CASE ConnEnterEarly(c, a)
        BY <2>1, <3>4, EarlyEnds DEF ListInv
      <3> QED
        BY <2>10, <3>1, <3>2, <3>3, <3>4 DEF PeerNext
    <2> QED
      BY <1>2, <2>3, <2>4, <2>5, <2>6, <2>7, <2>8, <2>9, <2>10 DEF LoginNext, Environment, SystemNext
  <1> QED
    BY <1>1, <1>2 DEF loginVars

(* It holds, with the agreement of the indexes, in every reachable state. *)
THEOREM ListInvariant == LoginSpec => [](LoginInv /\ ListInv)
  <1>1. LoginInit => LoginInv /\ ListInv
    BY LoginInvInit, ListInvInit
  <1>2. LoginInv /\ ListInv /\ [LoginNext]_loginVars => LoginInv' /\ ListInv'
    BY LoginInvStep, ListInvStep
  <1> QED
    BY <1>1, <1>2, PTL DEF LoginSpec

(* ServerInfoMgr.cpp:27 and 45 (OnServerExit): a server that was told it   *)
(* is logged in is on the world server's list with its present connection, *)
(* whatever became of its earlier ones.                                    *)
THEOREM LoginedAlwaysListed == LoginSpec => []LoginedIsListed
  <1>1. LoginInv /\ ListInv => LoginedIsListed
    <2> SUFFICES ASSUME LoginInv, ListInv, aborted = None, NEW s \in Servers, wsSession[s].status = "LOGINED",
                        links[wsSession[s].link].hostEnd # "closed"
                 PROVE  serverInfo[s].link = wsSession[s].link
      BY DEF LoginedIsListed
    <2> DEFINE k == wsSession[s].link
    <2>1. k \in LinkIDs /\ Client(k) = s /\ Host(k) = WS /\ Bears(k, links[k])
      BY DEF ListInv, Sessions, LoginedBears
    <2>2. links[k].sess /\ links[k].id = s /\ s # 0
      BY <2>1, LinkEnds DEF Bears
    <2>3. byID[WS][s] = k
      BY <2>1, <2>2 DEF LoginInv, Bearing
    <2> QED
      BY <2>3 DEF LoginInv, Listed
  <1> QED
    BY <1>1, ListInvariant, PTL

-----------------------------------------------------------------------------
(* As long as no server has gone down and no link has fallen silent, every *)
(* connection is the only one of its two servers, and its host is asked    *)
(* for a login once: so no ASSERT of a login or an exit can fail.          *)

(* What a client sends. *)
ClientMsgs == {ReqLogin, ReqLoadLest}

(* The first message of a connection is its login, and no other is, *)
LoginFirst(link) ==
    /\ link.c2h \in Seq(ClientMsgs)
    /\ \A i \in 1 .. Len(link.c2h) : link.c2h[i].type = "ReqLogin" => i = 1 /\ link.id = 0

(* and no end closes. *)
QuietLink(link) ==
    /\ LoginFirst(link)
    /\ \/ link = Free
       \/ link.clientEnd = "open" /\ link.hostEnd \in {"new", "open"}

QuietLinks == \A k \in LinkIDs : QuietLink(links[k])

(* A client knows its connection to a host: there is no other. *)
Known ==
    \A k \in LinkIDs : links[k].clientEnd = "open" =>
        /\ Client(k) \in up
        /\ \/ Host(k) = WS /\ wsSession[Client(k)].link = k
           \/ Client(k) \in Connectors /\ Host(k) \in Acceptors /\ peers[Client(k)][Host(k)].link = k

(* What a connector has to do with acceptors ends with it. *)
PeersOpen ==
    \A c \in Connectors, a \in Acceptors :
        peers[c][a].link # NoLink => links[peers[c][a].link].clientEnd = "open"
EntriesUp == \A c \in Connectors : vecClients[c] # {} => c \in up

Calm == QuietLinks /\ Known /\ PeersOpen /\ EntriesUp

QuietInv ==
    /\ nFaults \in Nat
    /\ nFaults = 0 => /\ aborted \in {None, "NoServer", "Notify", "GetNetClient"}
                      /\ aborted = None => Calm

----------------------------------------------------------------------------
(* The queue of a host, when its first message is taken *)
LEMMA FirstTaken ==
    ASSUME NEW q \in Seq(ClientMsgs), q # <<>>, \A i \in 1 .. Len(q) : q[i].type = "ReqLogin" => i = 1
    PROVE  Tail(q) \in Seq(ClientMsgs) /\ \A i \in 1 .. Len(Tail(q)) : Tail(q)[i].type # "ReqLogin"
  <1>1. /\ Tail(q) \in Seq(ClientMsgs) /\ Len(q) \in Nat \ {0} /\ Len(Tail(q)) = Len(q) - 1
        /\ \A i \in 1 .. Len(Tail(q)) : Tail(q)[i] = q[i + 1]
    BY HeadTailProperties, EmptySeq
  <1>2. ASSUME NEW i \in 1 .. Len(Tail(q)) PROVE Tail(q)[i].type # "ReqLogin"
    <2>1. i + 1 \in 1 .. Len(q) /\ i + 1 # 1 /\ Tail(q)[i] = q[i + 1]
      BY <1>1
    <2> QED
      BY <2>1
  <1> QED
    BY <1>1, <1>2

(* and when a request is put behind. *)
LEMMA RequestPut ==
    ASSUME NEW q \in Seq(ClientMsgs)
    PROVE  /\ Append(q, ReqLoadLest) \in Seq(ClientMsgs)
           /\ \A i \in 1 .. Len(Append(q, ReqLoadLest)) :
                 Append(q, ReqLoadLest)[i].type = "ReqLogin" => i \in 1 .. Len(q) /\ q[i].type = "ReqLogin"
  <1>1. ReqLoadLest \in ClientMsgs /\ ReqLoadLest.type # "ReqLogin"
    BY DEF ClientMsgs, ReqLoadLest
  <1> DEFINE a == Append(q, ReqLoadLest)
  <1>2. /\ a \in Seq(ClientMsgs) /\ Len(q) \in Nat /\ Len(a) = Len(q) + 1
        /\ \A i \in 1 .. Len(q) : a[i] = q[i]
        /\ a[Len(q) + 1] = ReqLoadLest
    BY <1>1, AppendProperties, LenProperties
  <1> HIDE DEF a
  <1>3. ASSUME NEW i \in 1 .. Len(a), a[i].type = "ReqLogin" PROVE i \in 1 .. Len(q) /\ q[i].type = "ReqLogin"
    <2>1. i # Len(q) + 1
      BY <1>1, <1>2, <1>3
    <2>2. i \in 1 .. Len(q)
      BY <1>2, <2>1
    <2> QED
      BY <1>2, <1>3, <2>2
  <1> QED
    BY <1>2, <1>3 DEF a

(* A host's first message is a login only if its session has no ID yet. *)
LEMMA LoginIsFirst ==
    ASSUME NEW link, LoginFirst(link), link.c2h # <<>>
    PROVE  /\ Tail(link.c2h) \in Seq(ClientMsgs) /\ \A i \in 1 .. Len(Tail(link.c2h)) : Tail(link.c2h)[i].type # "ReqLogin"
           /\ Head(link.c2h).type = "ReqLogin" => link.id = 0
  <1> DEFINE q == link.c2h
  <1>1. q \in Seq(ClientMsgs) /\ \A i \in 1 .. Len(q) : q[i].type = "ReqLogin" => i = 1 /\ link.id = 0
    BY DEF LoginFirst
  <1> HIDE DEF q
  <1>2. Tail(q) \in Seq(ClientMsgs) /\ \A i \in 1 .. Len(Tail(q)) : Tail(q)[i].type # "ReqLogin"
    <2>1. q # <<>> /\ \A i \in 1 .. Len(q) : q[i].type = "ReqLogin" => i = 1
      BY <1>1 DEF q
    <2> QED
      BY <1>1, <2>1, FirstTaken
  <1>3. Head(q) = q[1] /\ 1 \in 1 .. Len(q)
    <2>1. q # <<>>
      BY DEF q
    <2> QED
      BY <1>1, <2>1, HeadTailProperties, EmptySeq, LenProperties
  <1> QED
    BY <1>1, <1>2, <1>3 DEF q

(* A new connection is quiet. *)
LEMMA NewIsQuiet ==
    /\ QuietLink(Free) /\ QuietLink(NewLink) /\ NewLink # Free
    /\ Free.clientEnd = "closed" /\ NewLink.clientEnd = "open" /\ Free.hostEnd = "closed"
  <1>1. Free.c2h = <<>> /\ Free.id = 0 /\ Free.clientEnd = "closed" /\ Free.hostEnd = "closed"
    BY DEF Free
  <1>2. NewLink.c2h = <<ReqLogin>> /\ NewLink.id = 0 /\ NewLink.clientEnd = "open" /\ NewLink.hostEnd = "new"
    BY FreeFields DEF NewLink, LinkShape, HasFields
  <1>3. ReqLogin \in ClientMsgs
    BY DEF ClientMsgs
  <1>4. LoginFirst(Free)
    <2>1. <<>> \in Seq(ClientMsgs) /\ Len(<<>>) = 0
      BY EmptySeq
    <2> QED
      BY <1>1, <2>1 DEF LoginFirst
  <1>5. LoginFirst(NewLink)
    <2>1. <<ReqLogin>> \in Seq(ClientMsgs) /\ Len(<<ReqLogin>>) = 1
      BY <1>3
    <2> QED
      BY <1>2, <2>1 DEF LoginFirst
  <1> QED
    BY <1>1, <1>2, <1>4, <1>5 DEF QuietLink

(* A link keeps quiet if neither end closes. *)
Steady(old, new) == QuietLink(new) /\ new.clientEnd = old.clientEnd

LEMMA ReplySteady ==
    ASSUME NEW old, NEW link, NEW msg, Steady(old, link), LinkShape(link)
    PROVE  Steady(old, Reply(link, msg))
  <1>1. CASE link.clientEnd = "open"
    <2>1. /\ Reply(link, msg).c2h = link.c2h /\ Reply(link, msg).id = link.id
          /\ Reply(link, msg).hostEnd = link.hostEnd /\ Reply(link, msg).clientEnd = link.clientEnd
      BY <1>1 DEF Reply, LinkShape, HasFields
    <2> QED
      BY <1>1, <2>1, NewIsQuiet DEF Steady, QuietLink, LoginFirst
  <1>2. CASE link.clientEnd # "open"
    BY <1>2 DEF Reply
  <1> QED
    BY <1>1, <1>2

(* A link whose host takes its first message keeps quiet. *)
LEMMA TakenSteady ==
    ASSUME NEW old, QuietLink(old), old.c2h # <<>>, NEW new,
           new.c2h = Tail(old.c2h), new.clientEnd = old.clientEnd, new.hostEnd = "open",
           old.hostEnd = "open"
    PROVE  Steady(old, new)
  <1>1. LoginFirst(new)
    BY LoginIsFirst DEF QuietLink, LoginFirst
  <1>2. old.clientEnd = "open"
    BY NewIsQuiet DEF QuietLink
  <1> QED
    BY <1>1, <1>2 DEF Steady, QuietLink

(* The same for all links: a step that opens and closes no end. *)
LEMMA CalmKept ==
    ASSUME Calm, UNCHANGED up,
           \A k \in LinkIDs : Steady(links[k], links'[k]),
           \A s \in Servers : wsSession'[s].link = wsSession[s].link,
           \A c \in Connectors, a \in Acceptors : peers'[c][a].link = peers[c][a].link /\ peers[c][a].link \in LinkIDs \cup {NoLink},
           \A c \in Connectors : vecClients'[c] # {} => vecClients[c] # {} \/ c \in up
    PROVE  Calm'
  <1>1. QuietLinks' /\ \A k \in LinkIDs : links'[k].clientEnd = links[k].clientEnd
    BY DEF QuietLinks, Steady
  <1>2. Known'
    BY <1>1, LinkEnds DEF Calm, Known
  <1>3. PeersOpen' /\ EntriesUp'
    BY <1>1 DEF Calm, PeersOpen, EntriesUp
  <1> QED
    BY <1>1, <1>2, <1>3 DEF Calm

(* The same for a step that changes one link. *)
LEMMA OneLinkCalm ==
    ASSUME LoginInv, ListInv, Calm, aborted = None, NEW k, NEW new,
           links' = [links EXCEPT ![k] = new], k \in LinkIDs => Steady(links[k], new),
           UNCHANGED <<up, wsSession, peers, vecClients>>
    PROVE  Calm'
  <1>1. Shapes /\ Sessions
    BY DEF LoginInv, ListInv
  <1>2. \A j \in LinkIDs : links'[j] = IF j = k THEN new ELSE links[j]
    BY <1>1 DEF Shapes
  <1>3. \A j \in LinkIDs : Steady(links[j], links'[j])
    BY <1>2 DEF Calm, QuietLinks, Steady
  <1>4. \A c \in Connectors, a \in Acceptors : peers[c][a].link \in LinkIDs \cup {NoLink}
    BY <1>1 DEF Sessions
  <1> QED
    BY <1>3, <1>4, CalmKept

(* A message that is taken from a host changes no end. *)
LEMMA TailSteady ==
    ASSUME LoginInv, Calm, aborted = None, NEW k \in LinkIDs, links' = [links EXCEPT ![k].h2c = Tail(@)],
           links[k].h2c # <<>>
    PROVE  \A j \in LinkIDs : Steady(links[j], links'[j])
  <1>1. Shapes /\ QuietLinks
    BY DEF LoginInv, Calm
  <1> DEFINE new == [links[k] EXCEPT !.h2c = Tail(links[k].h2c)]
  <1>2. \A j \in LinkIDs : links'[j] = IF j = k THEN new ELSE links[j]
    BY <1>1 DEF Shapes
  <1>3. /\ new.c2h = links[k].c2h /\ new.id = links[k].id
        /\ new.hostEnd = links[k].hostEnd /\ new.clientEnd = links[k].clientEnd
    BY <1>1 DEF Shapes, LinkShape, HasFields
  <1> HIDE DEF new
  <1>4. links[k] # Free
    BY FreeQueues
  <1>5. Steady(links[k], new)
    BY <1>1, <1>3, <1>4 DEF Steady, QuietLinks, QuietLink, LoginFirst
  <1> QED
    BY <1>1, <1>2, <1>5 DEF QuietLinks, Steady

(* The server that logs in is new to its host. *)
LEMMA OneLogin ==
    ASSUME LoginInv, ListInv, Calm, aborted = None, NEW k \in LinkIDs,
           links[k].hostEnd = "open", ToHost(k, "ReqLogin")
    PROVE  byID[Host(k)][Client(k)] = NoLink
  <1> DEFINE j == byID[Host(k)][Client(k)]
  <1> SUFFICES ASSUME j # NoLink PROVE FALSE
    OBVIOUS
  <1>1. OwnID /\ Indexed /\ Shapes /\ QuietLinks /\ Known
    BY DEF LoginInv, Calm
  <1>2. Client(k) \in Servers /\ Host(k) \in Hosts /\ Client(k) # 0
    BY LinkEnds
  <1>3. j \in LinkIDs /\ Host(j) = Host(k) /\ links[j].sess /\ links[j].id = Client(k)
    BY <1>1, <1>2 DEF Indexed
  <1>4. Client(j) = Client(k)
    BY <1>1, <1>2, <1>3 DEF OwnID
  <1>5. links[k].clientEnd = "open" /\ links[j].clientEnd = "open"
    BY <1>1, <1>3, FreeFields, NewIsQuiet DEF QuietLinks, QuietLink
  <1>6. WS \notin Acceptors
    BY LinkEnds DEF Acceptors, Servers
  <1>7. j = k
    BY <1>1, <1>3, <1>4, <1>5, <1>6 DEF Known
  <1>8. links[k].id = 0
    BY <1>1, LoginIsFirst DEF QuietLinks, QuietLink, ToHost
  <1> QED
    BY <1>2, <1>3, <1>7, <1>8

(* No socket has ended. *)
LEMMA NoEnd ==
    ASSUME LoginInv, ListInv, Calm, aborted = None
    PROVE  /\ \A k \in LinkIDs : ~HostExit(k)
           /\ \A s \in Servers : ~WsLost(s)
           /\ \A c \in Connectors, a \in Acceptors : ~ConnExit(c, a)
  <1>1. Sessions /\ QuietLinks /\ PeersOpen
    BY DEF ListInv, Calm
  <1>2. \A k \in LinkIDs : /\ links[k].clientEnd = "open" => links[k].hostEnd # "closed"
                           /\ links[k].hostEnd # "closing"
                           /\ links[k].hostEnd = "open" => links[k].clientEnd # "closed"
    BY <1>1, NewIsQuiet DEF QuietLinks, QuietLink
  <1>3. \A k \in LinkIDs : ~HostExit(k)
    BY <1>2 DEF HostExit
  <1>4. \A s \in Servers : ~WsLost(s)
    BY <1>1, <1>2 DEF Sessions, WsLost
  <1>5. \A c \in Connectors, a \in Acceptors : ~ConnExit(c, a)
    BY <1>1, <1>2 DEF Sessions, PeersOpen, ConnExit
  <1> QED
    BY <1>3, <1>4, <1>5

----------------------------------------------------------------------------
(* A server that starts has no connection yet. *)
LEMMA ServerStartCalm ==
    ASSUME LoginInv, ListInv, Calm, aborted = None, NEW s \in Servers, ServerStart(s)
    PROVE  Calm'
  <1>1. Shapes /\ Sessions /\ QuietLinks /\ Known /\ PeersOpen /\ EntriesUp
    BY DEF LoginInv, ListInv, Calm
  <1>2. PICK k \in FreshLinks(s, WS) :
           /\ links' = [links EXCEPT ![k] = NewLink]
           /\ wsSession' = [wsSession EXCEPT ![s] = [link |-> k, status |-> "CONNETED"]]
    BY DEF ServerStart
  <1>3. k \in LinkIDs /\ Client(k) = s /\ Host(k) = WS /\ links[k].clientEnd = "closed"
    BY FreeQueues DEF FreshLinks
  <1>4. \A j \in LinkIDs : links'[j] = IF j = k THEN NewLink ELSE links[j]
    BY <1>1, <1>2 DEF Shapes
  <1>5. \A t \in Servers : wsSession'[t].link = IF t = s THEN k ELSE wsSession[t].link
    BY <1>1, <1>2 DEF Sessions
  <1>6. up' = up \cup {s} /\ s \notin up /\ UNCHANGED <<peers, vecClients>>
    BY DEF ServerStart, connVars
  <1>7. QuietLinks'
    BY <1>1, <1>4, NewIsQuiet DEF QuietLinks
  <1>8. Known'
    <2> SUFFICES ASSUME NEW j \in LinkIDs, links'[j].clientEnd = "open"
                 PROVE  /\ Client(j) \in up'
                        /\ \/ Host(j) = WS /\ wsSession'[Client(j)].link = j
                           \/ /\ Client(j) \in Connectors /\ Host(j) \in Acceptors
                              /\ peers'[Client(j)][Host(j)].link = j
      BY DEF Known
    <2>1. CASE j = k
      BY <1>3, <1>5, <1>6, <2>1
    <2>2. CASE j # k
      <3>1. links[j].clientEnd = "open"
        BY <1>4, <2>2
      <3>2. Client(j) \in up /\ Client(j) # s /\ Client(j) \in Servers
        BY <1>1, <1>6, <3>1, LinkEnds DEF Known
      <3> QED
        BY <1>1, <1>5, <1>6, <3>1, <3>2 DEF Known
    <2> QED
      BY <2>1, <2>2
  <1>9. PeersOpen'
    BY <1>1, <1>3, <1>4, <1>6 DEF PeersOpen, Sessions
  <1>10. EntriesUp'
    BY <1>1, <1>6 DEF EntriesUp
  <1> QED
    BY <1>7, <1>8, <1>9, <1>10 DEF Calm

(* A connector has one connection to an acceptor at a time. *)
LEMMA ConnEnterCalm ==
    ASSUME LoginInv, ListInv, Calm, aborted = None, NEW c \in Connectors, NEW a \in Acceptors, ConnEnter(c, a)
    PROVE  Calm'
  <1>1. Shapes /\ Sessions /\ QuietLinks /\ Known /\ PeersOpen /\ EntriesUp
    BY DEF LoginInv, ListInv, Calm
  <1>2. PICK k \in FreshLinks(c, a) :
           /\ links' = [links EXCEPT ![k] = NewLink]
           /\ peers' = [peers EXCEPT ![c][a] = [link |-> k, status |-> "CONNETED"]]
    BY DEF ConnEnter
  <1>3. k \in LinkIDs /\ Client(k) = c /\ Host(k) = a /\ links[k].clientEnd = "closed"
    BY FreeQueues DEF FreshLinks
  <1>4. \A j \in LinkIDs : links'[j] = IF j = k THEN NewLink ELSE links[j]
    BY <1>1, <1>2 DEF Shapes
  <1> DEFINE new == [link |-> k, status |-> "CONNETED"]
  <1>5. new.link = k
    OBVIOUS
  <1> HIDE DEF new
  <1>6. \A d \in Connectors, b \in Acceptors : peers'[d][b] = IF d = c /\ b = a THEN new ELSE peers[d][b]
    BY <1>1, <1>2 DEF Sessions, new
  <1>7. UNCHANGED <<up, wsSession, vecClients>> /\ vecClients[c] # {} /\ peers[c][a].link = NoLink
    BY DEF ConnEnter
  <1>8. QuietLinks'
    BY <1>1, <1>4, NewIsQuiet DEF QuietLinks
  <1>9. c \in up
    BY <1>1, <1>7 DEF EntriesUp
  <1>10. Known'
    <2> SUFFICES ASSUME NEW j \in LinkIDs, links'[j].clientEnd = "open"
                 PROVE  /\ Client(j) \in up
                        /\ \/ Host(j) = WS /\ wsSession[Client(j)].link = j
                           \/ /\ Client(j) \in Connectors /\ Host(j) \in Acceptors
                              /\ peers'[Client(j)][Host(j)].link = j
      BY <1>7 DEF Known
    <2>1. CASE j = k
      BY <1>3, <1>5, <1>6, <1>9, <2>1
    <2>2. CASE j # k
      <3>1. links[j].clientEnd = "open" /\ j # NoLink
        BY <1>4, <2>2, LinkEnds
      <3> QED
        BY <1>1, <1>6, <1>7, <3>1 DEF Known
    <2> QED
      BY <2>1, <2>2
  <1>11. PeersOpen'
    BY <1>1, <1>3, <1>4, <1>5, <1>6, NewIsQuiet DEF PeersOpen, Sessions
  <1>12. EntriesUp'
    BY <1>1, <1>7 DEF EntriesUp
  <1> QED
    BY <1>8, <1>10, <1>11, <1>12 DEF Calm

(* A session begins. *)
LEMMA HostEnterCalm ==
    ASSUME LoginInv, ListInv, Calm, aborted = None, NEW k \in LinkIDs, HostEnter(k)
    PROVE  Calm'
  <1>1. Shapes /\ LinkShape(links[k]) /\ QuietLink(links[k])
    BY DEF LoginInv, Shapes, Calm, QuietLinks
  <1> DEFINE new == [links[k] EXCEPT !.hostEnd = "open", !.sess = TRUE]
  <1>2. links' = [links EXCEPT ![k] = new] /\ UNCHANGED <<up, wsSession, peers, vecClients>>
    BY <1>1 DEF HostEnter, Shapes, connVars
  <1>3. /\ new.c2h = links[k].c2h /\ new.id = links[k].id /\ new.clientEnd = links[k].clientEnd
        /\ new.hostEnd = "open" /\ links[k].hostEnd = "new"
    BY <1>1 DEF HostEnter, LinkShape, HasFields
  <1> HIDE DEF new
  <1>4. Steady(links[k], new)
    BY <1>1, <1>3, NewIsQuiet DEF Steady, QuietLink, LoginFirst
  <1> QED
    BY <1>2, <1>4, OneLinkCalm

(* A request is sent to the world server. *)
LEMMA AskPlacementCalm ==
    ASSUME LoginInv, ListInv, Calm, aborted = None, NEW f \in Feps, AskPlacement(f)
    PROVE  Calm'
  <1> DEFINE k == wsSession[f].link
             q == Append(links[k].c2h, ReqLoadLest)
             new == [links[k] EXCEPT !.c2h = q]
  <1>1. f \in Servers
    BY DEF Servers, Acceptors
  <1>2. k \in LinkIDs
    BY <1>1 DEF AskPlacement, ListInv, Sessions
  <1>3. Shapes /\ LinkShape(links[k]) /\ QuietLink(links[k])
    BY <1>2 DEF LoginInv, Shapes, Calm, QuietLinks
  <1>4. links' = [links EXCEPT ![k] = new] /\ UNCHANGED <<up, wsSession, peers, vecClients>>
    BY DEF AskPlacement, connVars
  <1>5. /\ new.c2h = q /\ new.id = links[k].id /\ new.clientEnd = links[k].clientEnd
        /\ new.hostEnd = links[k].hostEnd /\ links[k].hostEnd # "closed"
    BY <1>3 DEF AskPlacement, LinkShape, HasFields
  <1>6. /\ q \in Seq(ClientMsgs)
        /\ \A i \in 1 .. Len(q) : q[i].type = "ReqLogin" => i \in 1 .. Len(links[k].c2h) /\ links[k].c2h[i].type = "ReqLogin"
    BY <1>3, RequestPut DEF QuietLink, LoginFirst
  <1> HIDE DEF new, q, k
  <1>7. LoginFirst(new)
    BY <1>3, <1>5, <1>6 DEF QuietLink, LoginFirst
  <1>8. Steady(links[k], new)
    BY <1>3, <1>5, <1>7, NewIsQuiet DEF Steady, QuietLink
  <1> QED
    BY <1>4, <1>8, OneLinkCalm

(* A login at an acceptor is accepted: no session is told to exit. *)
LEMMA HostReqLoginCalm ==
    ASSUME LoginInv, ListInv, Calm, aborted = None, NEW k \in LinkIDs, HostReqLogin(k)
    PROVE  Calm'
  <1> DEFINE old == [links[k] EXCEPT !.c2h = Tail(links[k].c2h), !.id = Client(k), !.hostEnd = "open"]
             new == Reply(old, RepLogined(TRUE))
  <1>1. Shapes /\ LinkShape(links[k]) /\ QuietLink(links[k])
    BY DEF LoginInv, Shapes, Calm, QuietLinks
  <1>2. links[k].hostEnd = "open" /\ ToHost(k, "ReqLogin") /\ links[k].c2h # <<>>
    BY DEF HostReqLogin, ToHost
  <1>3. byID[Host(k)][Client(k)] = NoLink
    BY <1>2, OneLogin
  <1>4. links' = [links EXCEPT ![k] = new] /\ UNCHANGED <<up, wsSession, peers, vecClients>>
    BY <1>3 DEF HostReqLogin, connVars
  <1>5. /\ old.c2h = Tail(links[k].c2h) /\ old.clientEnd = links[k].clientEnd /\ old.hostEnd = "open"
        /\ old.sess = links[k].sess /\ LinkShape(old)
    BY <1>1, <1>2 DEF LinkShape, HasFields
  <1> HIDE DEF old
  <1>6. Steady(links[k], old)
    BY <1>1, <1>2, <1>5, TakenSteady
  <1>7. Steady(links[k], new)
    BY <1>5, <1>6, ReplySteady
  <1> HIDE DEF new
  <1> QED
    BY <1>4, <1>7, OneLinkCalm

(* Telling of servers closes no end. *)
LEMMA BoardcastSteady ==
    ASSUME NEW olds, NEW lnks, NEW info, NEW id, HasLinks(lnks),
           \A k \in LinkIDs : Steady(olds[k], lnks[k])
    PROVE  \A k \in LinkIDs : Steady(olds[k], Boardcast(lnks, info, id)[k])
  <1> DEFINE msg == RepServerInfoList(IF id \in Acceptors THEN {id} ELSE {a \in Acceptors : info[a].link # NoLink})
             new == Boardcast(lnks, info, id)
  <1>1. \A k \in LinkIDs : new[k] = Reply(lnks[k], msg) \/ new[k] = lnks[k]
    <2>1. CASE id \in Acceptors
      BY <2>1 DEF Boardcast
    <2>2. CASE id \notin Acceptors
      <3> DEFINE j == info[id].link
      <3>1. new = [lnks EXCEPT ![j] = Reply(lnks[j], msg)]
        BY <2>2 DEF Boardcast
      <3> HIDE DEF j, msg, new
      <3> QED
        BY <3>1 DEF HasLinks
    <2> QED
      BY <2>1, <2>2
  <1> HIDE DEF msg, new
  <1>2. \A k \in LinkIDs : LinkShape(lnks[k])
    BY DEF HasLinks
  <1>3. \A k \in LinkIDs : Steady(olds[k], new[k])
    BY <1>1, <1>2, ReplySteady
  <1> QED
    BY <1>3 DEF new

(* A login at the world server: its ID is new, no ASSERT fails. *)
LEMMA WsReqLoginCalm ==
    ASSUME LoginInv, ListInv, Calm, aborted = None, NEW k \in LinkIDs, WsReqLogin(k)
    PROVE  aborted' = None /\ Calm'
  <1> DEFINE id == Client(k)
             info == OnServerLogin(id, k)
             old == [links[k] EXCEPT !.c2h = Tail(links[k].c2h), !.id = id]
             new == Reply(old, RepLogined(TRUE))
             answered == [links EXCEPT ![k] = new]
  <1>1. Shapes /\ Listed /\ LinkShape(links[k]) /\ QuietLink(links[k]) /\ QuietLinks
    BY DEF LoginInv, Shapes, Calm, QuietLinks
  <1>2. links[k].hostEnd = "open" /\ ToHost(k, "ReqLogin") /\ links[k].c2h # <<>> /\ Host(k) = WS
    BY DEF WsReqLogin, ToHost
  <1>3. byID[WS][id] = NoLink
    BY <1>2, OneLogin
  <1>4. serverInfo[id].link = NoLink
    BY <1>1, <1>3, LinkEnds DEF Listed
  <1>5. aborted' = None
    BY <1>4 DEF WsReqLogin, ASSERT
  <1>6. links' = Boardcast(answered, info, id) /\ UNCHANGED <<up, wsSession, peers, vecClients>>
    BY <1>3, <1>4 DEF WsReqLogin, connVars
  <1>7. /\ old.c2h = Tail(links[k].c2h) /\ old.clientEnd = links[k].clientEnd /\ old.hostEnd = "open"
        /\ old.sess = links[k].sess /\ LinkShape(old)
    BY <1>1, <1>2 DEF LinkShape, HasFields
  <1> HIDE DEF old, info
  <1>8. Steady(links[k], old)
    BY <1>1, <1>2, <1>7, TakenSteady
  <1>9. Steady(links[k], new) /\ LinkShape(new)
    BY <1>7, <1>8, ReplySteady, ReplyKeeps
  <1> HIDE DEF new
  <1>10. answered = [j \in LinkIDs |-> IF j = k THEN new ELSE links[j]]
    BY <1>1 DEF Shapes
  <1> HIDE DEF answered
  <1>11. HasLinks(answered) /\ \A j \in LinkIDs : Steady(links[j], answered[j])
    BY <1>1, <1>9, <1>10 DEF HasLinks, Shapes, QuietLinks, Steady
  <1>12. \A j \in LinkIDs : Steady(links[j], links'[j])
    BY <1>6, <1>11, BoardcastSteady
  <1>13. \A c \in Connectors, a \in Acceptors : peers[c][a].link \in LinkIDs \cup {NoLink}
    BY DEF ListInv, Sessions
  <1>14. Calm'
    BY <1>6, <1>12, <1>13, CalmKept
  <1> QED
    BY <1>5, <1>14

(* A placement, unless it finds no server. *)
LEMMA WsPlaceCalm ==
    ASSUME LoginInv, ListInv, Calm, aborted = None, NEW k \in LinkIDs, WsPlace(k)
    PROVE  aborted' = "NoServer" \/ (aborted' = None /\ Calm')
  <1>1. aborted' = "NoServer" \/ aborted' = None
    BY DEF WsPlace, ASSERT
  <1> SUFFICES ASSUME aborted' = None PROVE Calm'
    BY <1>1
  <1> DEFINE old == [links[k] EXCEPT !.c2h = Tail(links[k].c2h)]
             taken == [links EXCEPT ![k] = old]
  <1>2. Shapes /\ LinkShape(links[k]) /\ QuietLink(links[k]) /\ QuietLinks
    BY DEF LoginInv, Shapes, Calm, QuietLinks
  <1>3. links[k].hostEnd = "open" /\ links[k].c2h # <<>>
    BY DEF WsPlace, ToHost
  <1>4. /\ old.c2h = Tail(links[k].c2h) /\ old.clientEnd = links[k].clientEnd /\ old.hostEnd = "open"
        /\ old.sess = links[k].sess /\ LinkShape(old)
    BY <1>2, <1>3 DEF LinkShape, HasFields
  <1>5. taken = [links EXCEPT ![k].c2h = Tail(@)]
    OBVIOUS
  <1>6. PICK l \in LoadLest(Ls), d \in LoadLest(Dps) :
           links' = [taken EXCEPT ![serverInfo[l].link] = Reply(@, NofitySInfo(links[k].id, d))]
    BY <1>5 DEF WsPlace, ASSERT, None
  <1> DEFINE j == serverInfo[l].link
             msg == NofitySInfo(links[k].id, d)
  <1> HIDE DEF old, msg, j
  <1>7. Steady(links[k], old)
    BY <1>2, <1>3, <1>4, TakenSteady
  <1>8. taken = [i \in LinkIDs |-> IF i = k THEN old ELSE links[i]]
    BY <1>2 DEF Shapes
  <1> HIDE DEF taken
  <1>9. \A i \in LinkIDs : LinkShape(taken[i]) /\ Steady(links[i], taken[i])
    BY <1>2, <1>4, <1>7, <1>8 DEF Shapes, QuietLinks, Steady
  <1>10. \A i \in LinkIDs : links'[i] \in {Reply(taken[i], msg), taken[i]}
    BY <1>6, <1>8 DEF j, msg
  <1>11. \A i \in LinkIDs : Steady(links[i], links'[i])
    BY <1>9, <1>10, ReplySteady
  <1>12. \A c \in Connectors, a \in Acceptors : peers[c][a].link \in LinkIDs \cup {NoLink}
    BY DEF ListInv, Sessions
  <1>13. UNCHANGED <<up, wsSession, peers, vecClients>>
    BY DEF WsPlace, connVars
  <1> QED
    BY <1>11, <1>12, <1>13, CalmKept

(* A server takes a message of the world server. *)
LEMMA FromWsCalm ==
    ASSUME LoginInv, ListInv, Calm, aborted = None, NEW s \in Servers,
           WsRepLogined(s) \/ (s \in Connectors /\ WsServerInfoList(s)) \/ LsNotified(s)
    PROVE  Calm'
  <1> DEFINE k == wsSession[s].link
  <1>1. Sessions /\ Known
    BY DEF ListInv, Calm
  <1>2. k \in LinkIDs /\ links[k].h2c # <<>> /\ links' = [links EXCEPT ![k].h2c = Tail(@)]
    BY <1>1 DEF WsRepLogined, WsServerInfoList, LsNotified, ToClient, Sessions
  <1>3. \A j \in LinkIDs : Steady(links[j], links'[j])
    BY <1>2, TailSteady
  <1>4. s \in up
    <2>1. Client(k) = s /\ links[k].clientEnd = "open"
      BY <1>1, <1>2, LinkEnds DEF Sessions
    <2> QED
      BY <1>1, <1>2, <2>1 DEF Known
  <1>5. \A t \in Servers : wsSession'[t].link = wsSession[t].link
    <2>1. CASE WsRepLogined(s)
      BY <1>1, <2>1 DEF WsRepLogined, Sessions, SessionStates
    <2>2. CASE ~WsRepLogined(s)
      BY <2>2 DEF WsServerInfoList, LsNotified
    <2> QED
      BY <2>1, <2>2
  <1>6. UNCHANGED <<up, peers>>
    BY DEF WsRepLogined, WsServerInfoList, LsNotified, connVars
  <1>7. \A c \in Connectors : vecClients'[c] # {} => vecClients[c] # {} \/ c \in up
    <2>1. CASE WsServerInfoList(s)
      <3>1. \A c \in Connectors : c # s => vecClients'[c] = vecClients[c]
        BY <2>1 DEF WsServerInfoList
      <3> QED
        BY <1>4, <3>1
    <2>2. CASE ~WsServerInfoList(s)
      BY <2>2 DEF WsRepLogined, LsNotified, connVars
    <2> QED
      BY <2>1, <2>2
  <1>8. \A c \in Connectors, a \in Acceptors : peers[c][a].link \in LinkIDs \cup {NoLink}
    BY <1>1 DEF Sessions
  <1> QED
    BY <1>3, <1>5, <1>6, <1>7, <1>8, CalmKept

(* A connector takes the answer of an acceptor, or clears its vector. *)
LEMMA ConnRepLoginedCalm ==
    ASSUME LoginInv, ListInv, Calm, aborted = None, NEW c \in Connectors, NEW a \in Acceptors, ConnRepLogined(c, a)
    PROVE  Calm'
  <1> DEFINE k == peers[c][a].link
  <1>1. Sessions
    BY DEF ListInv
  <1>2. k \in LinkIDs /\ links[k].h2c # <<>> /\ links' = [links EXCEPT ![k].h2c = Tail(@)]
    BY <1>1 DEF ConnRepLogined, ToClient, Sessions
  <1>3. \A j \in LinkIDs : Steady(links[j], links'[j])
    BY <1>2, TailSteady
  <1>4. \A d \in Connectors, b \in Acceptors :
           peers'[d][b].link = peers[d][b].link /\ peers[d][b].link \in LinkIDs \cup {NoLink}
    BY <1>1 DEF ConnRepLogined, Sessions, SessionStates
  <1>5. UNCHANGED <<up, wsSession, vecClients>>
    BY DEF ConnRepLogined
  <1> QED
    BY <1>3, <1>4, <1>5, CalmKept

LEMMA MgrUpdateCalm ==
    ASSUME LoginInv, ListInv, Calm, aborted = None, NEW c \in Connectors, MgrUpdate(c)
    PROVE  Calm'
  <1>1. UNCHANGED <<up, links, wsSession, peers>>
    BY DEF MgrUpdate
  <1>2. \A k \in LinkIDs : Steady(links[k], links'[k])
    BY <1>1 DEF Calm, QuietLinks, Steady
  <1>3. \A d \in Connectors : vecClients'[d] # {} => vecClients[d] # {}
    <2>1. vecClients' = [vecClients EXCEPT ![c] = @ \ toRemove[c]]
      BY DEF MgrUpdate
    <2>2. \A d \in Connectors : vecClients'[d] = vecClients[d] \/ vecClients'[d] = vecClients[d] \ toRemove[c]
      BY <2>1
    <2> QED
      BY <2>2
  <1>4. \A d \in Connectors, b \in Acceptors : peers[d][b].link \in LinkIDs \cup {NoLink}
    BY DEF ListInv, Sessions
  <1> QED
    BY <1>1, <1>2, <1>3, <1>4, CalmKept

----------------------------------------------------------------------------
(* The first state is quiet. *)
LEMMA QuietInvInit == LoginInit => QuietInv
  <1> SUFFICES ASSUME LoginInit PROVE nFaults = 0 /\ aborted = None /\ Calm
    BY DEF QuietInv
  <1>1. QuietLinks /\ Known
    BY NewIsQuiet DEF LoginInit, QuietLinks, Known
  <1>2. PeersOpen /\ EntriesUp
    BY DEF LoginInit, PeersOpen, EntriesUp, NoSession
  <1> QED
    BY <1>1, <1>2 DEF LoginInit, Calm

(* Every step of every process keeps the quiet, until a server goes down   *)
(* or a link falls silent.                                                 *)
LEMMA QuietInvStep == LoginInv /\ ListInv /\ QuietInv /\ [LoginNext]_loginVars => QuietInv'
  <1> SUFFICES ASSUME LoginInv, ListInv, QuietInv, [LoginNext]_loginVars PROVE QuietInv'
    OBVIOUS
  <1>1. CASE UNCHANGED loginVars
    BY <1>1 DEF loginVars, QuietInv, Calm, QuietLinks, Known, PeersOpen, EntriesUp
  <1>2. CASE LoginNext
    <2>1. aborted = None /\ nFaults \in Nat
      BY <1>2 DEF LoginNext, QuietInv
    <2>2. ASSUME NEW s \in Servers, ServerDown(s) PROVE QuietInv'
      BY <2>1, <2>2 DEF ServerDown, QuietInv
    <2>3. ASSUME NEW k \in LinkIDs, LinkTimeout(k) PROVE QuietInv'
      BY <2>1, <2>3 DEF LinkTimeout, QuietInv
    <2>4. ASSUME UNCHANGED nFaults, nFaults = 0 => aborted' \in {"NoServer", "Notify", "GetNetClient"} \/ (aborted' = None /\ Calm')
          PROVE  QuietInv'
      BY <2>1, <2>4 DEF QuietInv, None
    <2>5. nFaults = 0 => Calm
      BY <2>1 DEF QuietInv
    <2>6. ASSUME NEW s \in Servers, ServerStart(s) PROVE QuietInv'
      BY <2>1, <2>4, <2>5, <2>6, ServerStartCalm DEF ServerStart
    <2>7. ASSUME NEW f \in Feps, AskPlacement(f) PROVE QuietInv'
      BY <2>1, <2>4, <2>5, <2>7, AskPlacementCalm DEF AskPlacement
    <2>8. ASSUME NEW k \in LinkIDs, HostNext(k) PROVE QuietInv'
      <3>1. CASE HostEnter(k)
        BY <2>1, <2>4, <2>5, <3>1, HostEnterCalm DEF HostEnter
      <3>2. CASE WsReqLogin(k)
        BY <2>1, <2>4, <2>5, <3>2, WsReqLoginCalm DEF WsReqLogin
      <3>3. CASE HostReqLogin(k)
        BY <2>1, <2>4, <2>5, <3>3, HostReqLoginCalm DEF HostReqLogin
      <3>4. CASE HostExit(k)
        BY <2>1, <2>4, <2>5, <3>4, NoEnd DEF HostExit
      <3>5. CASE WsPlace(k)
        BY <2>1, <2>4, <2>5, <3>5, WsPlaceCalm DEF WsPlace
      <3> QED
        BY <2>8, <3>1, <3>2, <3>3, <3>4, <3>5 DEF HostNext
    <2>9. ASSUME NEW s \in Servers, FromWs(s) PROVE QuietInv'
      <3>1. CASE WsRepLogined(s)
        BY <2>1, <2>4, <2>5, <3>1, FromWsCalm DEF WsRepLogined
      <3>2. CASE WsLost(s)
        BY <2>1, <2>4, <2>5, <3>2, NoEnd DEF WsLost
      <3>3. CASE s \in Connectors /\ WsServerInfoList(s)
        BY <2>1, <2>4, <2>5, <3>3, FromWsCalm DEF WsServerInfoList
      <3>4. CASE LsNotified(s)
        BY <2>1, <2>4, <2>5, <3>4, FromWsCalm DEF LsNotified, ASSERT
      <3> QED
        BY <2>9, <3>1, <3>2, <3>3, <3>4 DEF FromWs
    <2>10. ASSUME NEW c \in Connectors, MgrUpdate(c) PROVE QuietInv'
      BY <2>1, <2>4, <2>5, <2>10, MgrUpdateCalm DEF MgrUpdate
    <2>11. ASSUME NEW c \in Connectors, NEW a \in Acceptors, PeerNext(c, a) PROVE QuietInv'
      <3>1. CASE ConnEnter(c, a)
        BY <2>1, <2>4, <2>5, <3>1, ConnEnterCalm DEF ConnEnter
      <3>2. CASE ConnRepLogined(c, a)
        BY <2>1, <2>4, <2>5, <3>2, ConnRepLoginedCalm DEF ConnRepLogined
      <3>3. CASE ConnExit(c, a)
        BY <2>1, <2>4, <2>5, <3>3, NoEnd DEF ConnExit
      <3>4. CASE ConnEnterEarly(c, a)
        BY <2>1, <2>4, <3>4, EarlyEnds DEF ConnEnterEarly
      <3> QED
        BY <2>11, <3>1, <3>2, <3>3, <3>4 DEF PeerNext
    <2> QED
      BY <1>2, <2>2, <2>3, <2>6, <2>7, <2>8, <2>9, <2>10, <2>11 DEF LoginNext, Environment, SystemNext
  <1> QED
    BY <1>1, <1>2

(* ServerInfoMgr.cpp:27, ServerSession.cpp:169: servers that come up in     *)
(* any order and any number, while none goes down, fail no ASSERT of a      *)
(* login at the world server or of an exit.  What is left are placements    *)
(* before the servers know each other, and a NetClient connected before     *)
(* its entry is pushed.                                                     *)
THEOREM QuietStartUp == LoginSpec => []QuietStart
  <1>1. LoginInit => LoginInv /\ ListInv /\ QuietInv
    BY LoginInvInit, ListInvInit, QuietInvInit
  <1>2. LoginInv /\ ListInv /\ QuietInv /\ [LoginNext]_loginVars => LoginInv' /\ ListInv' /\ QuietInv'
    BY LoginInvStep, ListInvStep, QuietInvStep
  <1>3. QuietInv => QuietStart
    BY DEF QuietInv, QuietStart
  <1> QED
    BY <1>1, <1>2, <1>3, PTL DEF LoginSpec

-----------------------------------------------------------------------------
(* A connector that is logged in knows, or is told of, every acceptor that *)
(* is: on top of the agreement of the indexes and of the list.  What the   *)
(* connector must not do is to take a list before it knows that it is      *)
(* logged in, for it throws such a list away.                              *)

(* The world server's answer is the first message of a link, and nothing   *)
(* comes before the login; s is the client's session with the world server.*)
Greeted(k, link, s) ==
    (Host(k) = WS /\ link.clientEnd = "open") =>
        /\ s.link = k /\ LoginFirst(link)
        /\ link.id = 0 => link.h2c = <<>> /\ s.status = "CONNETED"
        /\ link.id # 0 => \/ s.status = "LOGINED"
                          \/ /\ s.status = "CONNETED"
                             /\ link.h2c # <<>> /\ Head(link.h2c) = RepLogined(TRUE)

AllGreeted == \A k \in LinkIDs : Greeted(k, links[k], wsSession[Client(k)])
DownAreAway == \A s \in Servers : s \notin up => wsSession[s].link = NoLink

Entries == vecClients \in [Connectors -> SUBSET Servers]

NoticeInv == aborted = None => AllGreeted /\ DownAreAway /\ Entries

(* What a step must do: keep the invariant and miss nobody. *)
Notices ==
    /\ NoticeInv'
    /\ \A c \in Connectors, a \in Acceptors : Missed(c, a)' => Missed(c, a) \/ a \in toRemove[c]

----------------------------------------------------------------------------
(* What the lists in a queue name. *)
LEMMA AnnouncedIs ==
    ASSUME NEW q \in Seq(HostMsgs), NEW a
    PROVE  a \in Announced(q) <=> \E i \in 1 .. Len(q) : q[i].type = "ServerInfoList" /\ a \in q[i].ids
  <1>1. DOMAIN q = 1 .. Len(q)
    BY LenProperties
  <1> QED
    BY <1>1 DEF Announced

(* A message that is added keeps the first and adds what it names, *)
LEMMA ListAdded ==
    ASSUME NEW q \in Seq(HostMsgs), NEW m \in HostMsgs
    PROVE  /\ Append(q, m) \in Seq(HostMsgs) /\ Append(q, m) # <<>>
           /\ Head(Append(q, m)) = IF q = <<>> THEN m ELSE Head(q)
           /\ Announced(q) \subseteq Announced(Append(q, m))
           /\ m.type = "ServerInfoList" => m.ids \subseteq Announced(Append(q, m))
  <1> DEFINE p == Append(q, m)
  <1>1. /\ p \in Seq(HostMsgs) /\ Len(q) \in Nat /\ Len(p) = Len(q) + 1 /\ p # <<>>
        /\ \A i \in 1 .. Len(q) : p[i] = q[i]
        /\ p[Len(q) + 1] = m
    BY AppendProperties, LenProperties
  <1>2. Head(p) = p[1]
    BY <1>1, HeadTailProperties
  <1> HIDE DEF p
  <1>3. Head(p) = IF q = <<>> THEN m ELSE Head(q)
    <2>1. CASE q = <<>>
      <3>1. Len(q) = 0
        BY <2>1, EmptySeq
      <3> QED
        BY <1>1, <1>2, <2>1, <3>1
    <2>2. CASE q # <<>>
      <3>1. Head(q) = q[1] /\ 1 \in 1 .. Len(q)
        BY <1>1, <2>2, HeadTailProperties, EmptySeq
      <3> QED
        BY <1>1, <1>2, <2>2, <3>1
    <2> QED
      BY <2>1, <2>2
  <1>4. ASSUME NEW a \in Announced(q) PROVE a \in Announced(p)
    <2>1. PICK i \in 1 .. Len(q) : q[i].type = "ServerInfoList" /\ a \in q[i].ids
      BY <1>4, AnnouncedIs
    <2>2. i \in 1 .. Len(p) /\ p[i] = q[i]
      BY <1>1
    <2> QED
      BY <1>1, <2>1, <2>2, AnnouncedIs
  <1>5. ASSUME m.type = "ServerInfoList", NEW a \in m.ids PROVE a \in Announced(p)
    <2>1. Len(q) + 1 \in 1 .. Len(p) /\ p[Len(q) + 1] = m
      BY <1>1
    <2> QED
      BY <1>1, <1>5, <2>1, AnnouncedIs
  <1> QED
    BY <1>1, <1>3, <1>4, <1>5 DEF p

(* and of one that is taken no more is lost than it names. *)
LEMMA ListTaken ==
    ASSUME NEW q \in Seq(HostMsgs), q # <<>>, NEW a \in Announced(q)
    PROVE  a \in Announced(Tail(q)) \/ (Head(q).type = "ServerInfoList" /\ a \in Head(q).ids)
  <1>1. /\ Tail(q) \in Seq(HostMsgs) /\ Len(q) \in Nat \ {0} /\ Len(Tail(q)) = Len(q) - 1
        /\ \A i \in 1 .. Len(Tail(q)) : Tail(q)[i] = q[i + 1]
        /\ Head(q) = q[1]
    BY HeadTailProperties, EmptySeq
  <1>2. PICK i \in 1 .. Len(q) : q[i].type = "ServerInfoList" /\ a \in q[i].ids
    BY AnnouncedIs
  <1>3. CASE i = 1
    BY <1>1, <1>2, <1>3
  <1>4. CASE i # 1
    <2>1. i - 1 \in 1 .. Len(Tail(q)) /\ Tail(q)[i - 1] = q[i]
      <3>1. i - 1 \in 1 .. Len(Tail(q)) /\ (i - 1) + 1 = i
        BY <1>1, <1>4
      <3> QED
        BY <1>1, <3>1
    <2> QED
      BY <1>1, <1>2, <2>1, AnnouncedIs
  <1> QED
    BY <1>3, <1>4

(* Where the world server's list leads: a session that bears the ID. *)
LEMMA ListedLinks ==
    ASSUME LoginInv, aborted = None, NEW s \in Servers, serverInfo[s].link # NoLink
    PROVE  LET k == serverInfo[s].link
           IN k \in LinkIDs /\ Host(k) = WS /\ Client(k) = s /\ links[k].id = s /\ s # 0 /\ links[k].sess
  <1> DEFINE k == serverInfo[s].link
  <1>1. k = byID[WS][s] /\ Indexed /\ OwnID
    BY DEF LoginInv, Listed
  <1>2. k \in LinkIDs /\ Host(k) = WS /\ links[k].sess /\ links[k].id = s /\ s # 0
    BY <1>1, LinkEnds DEF Indexed
  <1>3. Client(k) = s
    BY <1>1, <1>2 DEF OwnID
  <1> QED
    BY <1>2, <1>3

----------------------------------------------------------------------------
(* What most steps do to the links of the world server: no more than to    *)
(* close an end, to take a message at the host, or to send one to a client *)
(* that has its ID.                                                        *)
Onward(k, old, new) ==
    (Host(k) = WS /\ new.clientEnd = "open") =>
        /\ old.clientEnd = "open" /\ new.id = old.id
        /\ LoginFirst(old) => LoginFirst(new)
        /\ \/ new.h2c = old.h2c
           \/ old.id # 0 /\ \E m \in HostMsgs : new.h2c = Append(old.h2c, m)

LEMMA OnwardGreets ==
    ASSUME NEW k, NEW old, NEW new, NEW s, old.h2c \in Seq(HostMsgs),
           Onward(k, old, new), Greeted(k, old, s)
    PROVE  Greeted(k, new, s)
  <1> SUFFICES ASSUME Host(k) = WS, new.clientEnd = "open" PROVE Greeted(k, new, s)
    BY DEF Greeted
  <1>1. old.clientEnd = "open" /\ new.id = old.id /\ s.link = k /\ LoginFirst(new)
    BY DEF Onward, Greeted
  <1>2. CASE new.h2c = old.h2c
    BY <1>1, <1>2 DEF Greeted
  <1>3. CASE old.id # 0 /\ \E m \in HostMsgs : new.h2c = Append(old.h2c, m)
    <2>1. PICK m \in HostMsgs : new.h2c = Append(old.h2c, m)
      BY <1>3
    <2>2. new.h2c # <<>> /\ (old.h2c # <<>> => Head(new.h2c) = Head(old.h2c))
      BY <2>1, ListAdded
    <2> QED
      BY <1>1, <1>3, <2>2 DEF Greeted
  <1> QED
    BY <1>2, <1>3 DEF Onward

LEMMA OnwardAnnounces ==
    ASSUME NEW k, NEW old, NEW new, old.h2c \in Seq(HostMsgs),
           Onward(k, old, new), Host(k) = WS, new.clientEnd = "open"
    PROVE  old.clientEnd = "open" /\ Announced(old.h2c) \subseteq Announced(new.h2c)
  <1>1. old.clientEnd = "open"
    BY DEF Onward
  <1>2. CASE new.h2c = old.h2c
    BY <1>1, <1>2
  <1>3. CASE \E m \in HostMsgs : new.h2c = Append(old.h2c, m)
    BY <1>1, <1>3, ListAdded
  <1> QED
    BY <1>2, <1>3 DEF Onward

(* A connector that was and is listed on the same link does not miss an    *)
(* acceptor as long as its queue and its entries lose nothing.             *)
LEMMA MissedBefore ==
    ASSUME NEW c \in Connectors, NEW a \in Acceptors, Missed(c, a)',
           serverInfo'[c].link = serverInfo[c].link, serverInfo[a].link # NoLink,
           links[serverInfo[c].link].clientEnd = "open",
           Announced(links[serverInfo[c].link].h2c)
             \subseteq Announced(links'[serverInfo[c].link].h2c) \cup vecClients'[c],
           vecClients[c] \subseteq vecClients'[c] \cup toRemove[c]
    PROVE  Missed(c, a) \/ a \in toRemove[c]
  BY DEF Missed

(* The end of a server's connection to the world server at the server. *)
Away(s) == \A k \in LinkIDs : (Host(k) = WS /\ Client(k) = s) => links'[k].clientEnd # "open"

LEMMA OnwardNotices ==
    ASSUME LoginInv, ListInv, NoticeInv, aborted = None,
           \A k \in LinkIDs : Onward(k, links[k], links'[k]),
           \A s \in Servers : wsSession'[s] = wsSession[s] \/ (wsSession'[s] = NoSession /\ Away(s)),
           \A s \in Servers : s \in up /\ s \notin up' => wsSession'[s] = NoSession,
           \A s \in Servers : serverInfo'[s].link \in {NoLink, serverInfo[s].link},
           vecClients' \in [Connectors -> SUBSET Servers],
           \A c \in Connectors : vecClients[c] \subseteq vecClients'[c] \cup toRemove[c] \/ Away(c)
    PROVE  Notices
  <1>1. AllGreeted /\ DownAreAway /\ Queues
    BY DEF NoticeInv, ListInv
  <1>2. ASSUME NEW k \in LinkIDs PROVE Greeted(k, links'[k], wsSession'[Client(k)])
    <2>1. Client(k) \in Servers
      BY LinkEnds
    <2>2. CASE wsSession'[Client(k)] = wsSession[Client(k)]
      BY <1>1, <2>2, OnwardGreets DEF AllGreeted, Queues
    <2>3. CASE Away(Client(k))
      BY <2>3 DEF Away, Greeted
    <2> QED
      BY <2>1, <2>2, <2>3
  <1>3. AllGreeted'
    BY <1>2 DEF AllGreeted, Greeted
  <1>4. DownAreAway'
    BY <1>1 DEF DownAreAway, NoSession
  <1>5. ASSUME NEW c \in Connectors, NEW a \in Acceptors, Missed(c, a)'
        PROVE  Missed(c, a) \/ a \in toRemove[c]
    <2> DEFINE k == serverInfo[c].link
    <2>1. c \in Servers /\ a \in Servers
      BY DEF Servers
    <2>2. k # NoLink /\ serverInfo'[c].link = k /\ serverInfo[a].link # NoLink /\ links'[k].clientEnd = "open"
      BY <1>5, <2>1 DEF Missed
    <2>3. k \in LinkIDs /\ Host(k) = WS /\ Client(k) = c
      BY <2>1, <2>2, ListedLinks
    <2>4. ~Away(c)
      BY <2>2, <2>3 DEF Away
    <2>5. links[k].clientEnd = "open" /\ Announced(links[k].h2c) \subseteq Announced(links'[k].h2c)
      <3>1. links[k].h2c \in Seq(HostMsgs) /\ Onward(k, links[k], links'[k])
        BY <1>1, <2>3 DEF Queues
      <3> HIDE DEF k
      <3> QED
        BY <2>2, <2>3, <3>1, OnwardAnnounces
    <2> QED
      BY <1>5, <2>2, <2>4, <2>5, MissedBefore
  <1> QED
    BY <1>3, <1>4, <1>5 DEF Notices, NoticeInv, Entries

----------------------------------------------------------------------------
(* The first state has the invariant. *)
LEMMA NoticeInvInit == LoginInit => NoticeInv
  <1> SUFFICES ASSUME LoginInit PROVE AllGreeted /\ DownAreAway /\ Entries
    BY DEF NoticeInv
  <1>1. AllGreeted
    BY FreeQueues DEF LoginInit, AllGreeted, Greeted
  <1>2. DownAreAway /\ Entries
    BY DEF LoginInit, DownAreAway, NoSession, Entries
  <1> QED
    BY <1>1, <1>2

(* A step that changes at most one link, and that onward. *)
LEMMA OneLinkOnward ==
    ASSUME LoginInv, aborted = None, NEW k, NEW new,
           links' = [links EXCEPT ![k] = new],
           k \in LinkIDs => Onward(k, links[k], new)
    PROVE  \A j \in LinkIDs : Onward(j, links[j], links'[j])
  <1>1. \A j \in LinkIDs : links'[j] = IF j = k THEN new ELSE links[j]
    BY DEF LoginInv, Shapes
  <1>2. \A j \in LinkIDs : Onward(j, links[j], links[j])
    BY DEF Onward
  <1> QED
    BY <1>1, <1>2

(* A server makes its connection on a link nobody is on. *)
LEMMA ServerStartNotices ==
    ASSUME LoginInv, ListInv, NoticeInv, aborted = None, NEW s \in Servers, ServerStart(s)
    PROVE  Notices
  <1>1. Shapes /\ AllGreeted /\ DownAreAway /\ Sessions
    BY DEF LoginInv, ListInv, NoticeInv
  <1>2. PICK k \in FreshLinks(s, WS) :
           /\ links' = [links EXCEPT ![k] = NewLink]
           /\ wsSession' = [wsSession EXCEPT ![s] = [link |-> k, status |-> "CONNETED"]]
    BY DEF ServerStart
  <1>3. k \in LinkIDs /\ Client(k) = s /\ Host(k) = WS /\ links[k] = Free
    BY DEF FreshLinks
  <1>4. \A j \in LinkIDs : links'[j] = IF j = k THEN NewLink ELSE links[j]
    BY <1>1, <1>2 DEF Shapes
  <1>5. \A t \in Servers : wsSession'[t] = IF t = s THEN [link |-> k, status |-> "CONNETED"] ELSE wsSession[t]
    BY <1>1, <1>2 DEF Sessions
  <1>6. s \notin up /\ up' = up \cup {s} /\ UNCHANGED <<serverInfo, vecClients>>
    BY DEF ServerStart, connVars
  <1>7. NewLink.id = 0 /\ NewLink.h2c = <<>> /\ LoginFirst(NewLink)
    BY FreeFields, FreeQueues, NewIsQuiet DEF QuietLink
  <1>8. ASSUME NEW j \in LinkIDs PROVE Greeted(j, links'[j], wsSession'[Client(j)])
    <2>0. Client(j) \in Servers
      BY LinkEnds
    <2>1. CASE j = k
      <3>1. Client(j) = s /\ links'[j] = NewLink /\ wsSession'[s].link = j /\ wsSession'[s].status = "CONNETED"
        BY <1>3, <1>4, <1>5, <2>1
      <3> QED
        BY <1>7, <3>1 DEF Greeted
    <2>2. CASE j # k /\ Client(j) = s
      <3>1. wsSession[s].link # j
        BY <1>1, <1>6, LinkEnds DEF DownAreAway
      <3> QED
        BY <1>1, <1>4, <2>2, <3>1 DEF AllGreeted, Greeted
    <2>3. CASE Client(j) # s
      <3>1. links'[j] = links[j] /\ wsSession'[Client(j)] = wsSession[Client(j)]
        BY <1>3, <1>4, <1>5, <2>0, <2>3
      <3> QED
        BY <1>1, <3>1 DEF AllGreeted
    <2> QED
      BY <2>1, <2>2, <2>3
  <1>9. AllGreeted'
    BY <1>8 DEF AllGreeted, Greeted
  <1>10. DownAreAway' /\ Entries'
    BY <1>1, <1>5, <1>6 DEF DownAreAway, NoticeInv, Entries
  <1>11. ASSUME NEW c \in Connectors, NEW a \in Acceptors, Missed(c, a)' PROVE Missed(c, a)
    <2> DEFINE j == serverInfo[c].link
    <2>1. j # NoLink /\ c \in Servers
      BY <1>6, <1>11 DEF Missed, Servers
    <2>2. j \in LinkIDs /\ links[j].sess
      BY <2>1, ListedLinks
    <2>3. j # k
      BY <1>3, <2>2, FreeFields
    <2>4. links'[j] = links[j]
      BY <1>4, <2>2, <2>3
    <2> QED
      BY <1>6, <1>11, <2>4 DEF Missed
  <1> QED
    BY <1>9, <1>10, <1>11 DEF Notices, NoticeInv

(* A process that dies leaves its links; the world server stays. *)
LEMMA ServerDownNotices ==
    ASSUME LoginInv, ListInv, NoticeInv, aborted = None, NEW s \in Servers, ServerDown(s)
    PROVE  Notices
  <1> DEFINE Closes(k) == Client(k) = s /\ links[k].clientEnd = "open"
             Dies(k) == ~Closes(k) /\ Host(k) = s /\ links[k].hostEnd # "closed"
  <1>1. Shapes /\ Sessions
    BY DEF LoginInv, ListInv
  <1>2. links' = [k \in LinkIDs |-> IF Closes(k) THEN ClientCloses(links[k])
                                    ELSE IF Dies(k) THEN HostCloses(links[k]) ELSE links[k]]
    BY DEF ServerDown
  <1>3. ASSUME NEW k \in LinkIDs, Host(k) = WS
        PROVE  links'[k] = IF Closes(k) THEN ClientCloses(links[k]) ELSE links[k]
    BY <1>2, <1>3, LinkEnds
  <1>4. \A k \in LinkIDs : ClientCloses(links[k]).clientEnd = "closed"
    BY <1>1, FreeQueues DEF Shapes, LinkShape, HasFields, ClientCloses
  <1>5. \A k \in LinkIDs : Onward(k, links[k], links'[k])
    BY <1>3, <1>4 DEF Onward
  <1>6. Away(s)
    BY <1>3, <1>4 DEF Away
  <1>7. wsSession' = [wsSession EXCEPT ![s] = NoSession] /\ up' = up \ {s} /\ UNCHANGED serverInfo
    BY DEF ServerDown
  <1>8. \A t \in Servers : wsSession'[t] = IF t = s THEN NoSession ELSE wsSession[t]
    BY <1>1, <1>7 DEF Sessions
  <1>9. /\ vecClients' \in [Connectors -> SUBSET Servers]
        /\ \A c \in Connectors : c # s => vecClients'[c] = vecClients[c]
    BY DEF ServerDown, NoticeInv, Entries
  <1> QED
    BY <1>5, <1>6, <1>7, <1>8, <1>9, OnwardNotices

(* The steps that have nothing to do with the world server's messages. *)
LEMMA EndNotices ==
    ASSUME LoginInv, ListInv, NoticeInv, aborted = None, NEW k \in LinkIDs,
           HostEnter(k) \/ LinkTimeout(k) \/ HostReqLogin(k)
    PROVE  Notices
  <1>1. Shapes /\ LinkShape(links[k]) /\ Entries
    BY DEF LoginInv, Shapes, NoticeInv
  <1>2. UNCHANGED <<up, serverInfo, wsSession, vecClients>>
    BY DEF HostEnter, LinkTimeout, HostReqLogin, connVars
  <1>3. \A j \in LinkIDs : Onward(j, links[j], links'[j])
    <2>1. CASE HostEnter(k)
      <3> DEFINE new == [links[k] EXCEPT !.hostEnd = "open", !.sess = TRUE]
      <3>1. links' = [links EXCEPT ![k] = new]
        BY <1>1, <2>1 DEF HostEnter, Shapes
      <3>2. /\ new.clientEnd = links[k].clientEnd /\ new.h2c = links[k].h2c
            /\ new.id = links[k].id /\ new.c2h = links[k].c2h
        BY <1>1 DEF LinkShape, HasFields
      <3> HIDE DEF new
      <3>3. Onward(k, links[k], new)
        BY <3>2 DEF Onward, LoginFirst
      <3> QED
        BY <3>1, <3>3, OneLinkOnward
    <2>2. CASE LinkTimeout(k)
      <3> DEFINE new == [links[k] EXCEPT !.hostEnd = "closing"]
      <3>1. links' = [links EXCEPT ![k] = new]
        BY <2>2 DEF LinkTimeout
      <3>2. /\ new.clientEnd = links[k].clientEnd /\ new.h2c = links[k].h2c
            /\ new.id = links[k].id /\ new.c2h = links[k].c2h
        BY <1>1 DEF LinkShape, HasFields
      <3> HIDE DEF new
      <3>3. Onward(k, links[k], new)
        BY <3>2 DEF Onward, LoginFirst
      <3> QED
        BY <3>1, <3>3, OneLinkOnward
    <2>3. CASE HostReqLogin(k)
      <3>1. Host(k) # WS
        <4>1. Host(k) \in Acceptors
          BY <2>3 DEF HostReqLogin
        <4> QED
          BY <4>1, LinkEnds
      <3>2. \A j \in LinkIDs : j # k => links'[j] = links[j]
        BY <1>1, <2>3 DEF HostReqLogin, Shapes
      <3> QED
        BY <3>1, <3>2 DEF Onward
    <2> QED
      BY <2>1, <2>2, <2>3
  <1> QED
    BY <1>1, <1>2, <1>3, OnwardNotices DEF Entries

(* A request is put behind the login. *)
LEMMA AskPlacementNotices ==
    ASSUME LoginInv, ListInv, NoticeInv, aborted = None, NEW f \in Feps, AskPlacement(f)
    PROVE  Notices
  <1> DEFINE k == wsSession[f].link
             new == [links[k] EXCEPT !.c2h = Append(links[k].c2h, ReqLoadLest)]
  <1>1. Shapes /\ Sessions /\ Entries
    BY DEF LoginInv, ListInv, NoticeInv
  <1>2. k \in LinkIDs /\ links' = [links EXCEPT ![k] = new]
    <2>1. f \in Servers
      BY DEF Servers, Acceptors
    <2> QED
      BY <1>1, <2>1 DEF AskPlacement, Sessions
  <1>3. UNCHANGED <<up, serverInfo, wsSession, vecClients>>
    BY DEF AskPlacement, connVars
  <1>4. /\ new.clientEnd = links[k].clientEnd /\ new.h2c = links[k].h2c
        /\ new.id = links[k].id /\ new.c2h = Append(links[k].c2h, ReqLoadLest)
    BY <1>1, <1>2 DEF Shapes, LinkShape, HasFields
  <1> HIDE DEF new, k
  <1>5. LoginFirst(links[k]) => LoginFirst(new)
    <2> SUFFICES ASSUME LoginFirst(links[k]) PROVE LoginFirst(new)
      OBVIOUS
    <2> DEFINE q == links[k].c2h
    <2>1. q \in Seq(ClientMsgs) /\ \A i \in 1 .. Len(q) : q[i].type = "ReqLogin" => i = 1 /\ links[k].id = 0
      BY DEF LoginFirst
    <2>2. /\ new.c2h \in Seq(ClientMsgs)
          /\ \A i \in 1 .. Len(new.c2h) : new.c2h[i].type = "ReqLogin" => i \in 1 .. Len(q) /\ q[i].type = "ReqLogin"
      BY <1>4, <2>1, RequestPut
    <2> QED
      BY <1>4, <2>1, <2>2 DEF LoginFirst
  <1>6. Onward(k, links[k], new)
    BY <1>4, <1>5 DEF Onward
  <1>7. \A j \in LinkIDs : Onward(j, links[j], links'[j])
    BY <1>2, <1>6, OneLinkOnward
  <1> QED
    BY <1>1, <1>3, <1>7, OnwardNotices DEF Entries

(* The world server's end of a link closes; its ID is struck off. *)
LEMMA HostExitNotices ==
    ASSUME LoginInv, ListInv, NoticeInv, aborted = None, aborted' = None, NEW k \in LinkIDs, HostExit(k)
    PROVE  Notices
  <1> DEFINE h == Host(k)
             id == links[k].id
             old == [links[k] EXCEPT !.sess = FALSE]
             new == HostCloses(old)
  <1>1. Shapes /\ OwnID /\ Bearing /\ Entries
    BY DEF LoginInv, NoticeInv
  <1>2. links[k].sess /\ LinkShape(links[k])
    BY <1>1 DEF HostExit, Shapes, LinkShape
  <1>3. id # 0 /\ byID[h][id] = k /\ k # NoLink
    BY <1>1, <1>2, LinkEnds DEF HostExit, ASSERT, None, Bearing
  <1>4. links' = [[links EXCEPT ![k].sess = FALSE] EXCEPT ![k] = HostCloses(@)]
    BY <1>3 DEF HostExit
  <1>5. links' = [links EXCEPT ![k] = new]
    <2>1. [links EXCEPT ![k].sess = FALSE] = [j \in LinkIDs |-> IF j = k THEN old ELSE links[j]]
      BY <1>1 DEF Shapes
    <2> HIDE DEF old
    <2>2. links' = [[j \in LinkIDs |-> IF j = k THEN old ELSE links[j]] EXCEPT ![k] = HostCloses(@)]
      BY <1>4, <2>1
    <2> QED
      BY <1>1, <2>2 DEF Shapes
  <1>6. HasFields(old) /\ old.h2c = links[k].h2c /\ old.clientEnd = links[k].clientEnd /\ old.id = id
    BY <1>2 DEF LinkShape, HasFields
  <1> HIDE DEF old
  <1>7. new.clientEnd = "open" =>
           /\ links[k].clientEnd = "open" /\ new.id = id /\ new.h2c = links[k].h2c /\ new.c2h = <<>>
    <2>1. CASE old.clientEnd = "closed"
      BY <2>1, FreeQueues DEF HostCloses
    <2>2. CASE old.clientEnd # "closed"
      <3>1. new.clientEnd = old.clientEnd /\ new.h2c = old.h2c /\ new.id = old.id /\ new.c2h = <<>>
        BY <1>6, <2>2 DEF HostCloses, HasFields
      <3> QED
        BY <1>6, <3>1
    <2> QED
      BY <2>1, <2>2
  <1> HIDE DEF new
  <1>8. new.c2h = <<>> => LoginFirst(new)
    BY EmptySeq DEF LoginFirst
  <1>9. Onward(k, links[k], new)
    BY <1>7, <1>8 DEF Onward
  <1>10. \A j \in LinkIDs : Onward(j, links[j], links'[j])
    BY <1>5, <1>9, OneLinkOnward
  <1>11. \A s \in Servers : serverInfo'[s].link \in {NoLink, serverInfo[s].link}
    BY <1>1 DEF HostExit, OnServerExit, NotListed, Shapes
  <1>12. UNCHANGED <<up, wsSession, vecClients>>
    BY DEF HostExit, connVars
  <1> QED
    BY <1>1, <1>10, <1>11, <1>12, OnwardNotices DEF Entries

(* A placement is sent to a server that is on the list. *)
LEMMA WsPlaceNotices ==
    ASSUME LoginInv, ListInv, NoticeInv, aborted = None, aborted' = None, NEW k \in LinkIDs, WsPlace(k)
    PROVE  Notices
  <1> DEFINE old == [links[k] EXCEPT !.c2h = Tail(links[k].c2h)]
             taken == [links EXCEPT ![k] = old]
  <1>1. HasLinks(links) /\ Shapes /\ OwnID /\ Queues /\ Entries
    BY DEF LoginInv, Shapes, HasLinks, ListInv, NoticeInv
  <1>2. /\ LinkShape(old) /\ old.id = links[k].id /\ old.c2h = Tail(links[k].c2h)
        /\ old.clientEnd = links[k].clientEnd /\ old.h2c = links[k].h2c
    BY <1>1 DEF Shapes, LinkShape, HasFields
  <1>3. taken = [links EXCEPT ![k].c2h = Tail(@)]
    OBVIOUS
  <1>4. PICK l \in LoadLest(Ls), d \in LoadLest(Dps) :
           /\ links' = [taken EXCEPT ![serverInfo[l].link] = Reply(@, NofitySInfo(links[k].id, d))]
           /\ serverInfo' = OnLoadAddOne({l, d, links[k].id})
    BY <1>3 DEF WsPlace, ASSERT, None
  <1> DEFINE j == serverInfo[l].link
             msg == NofitySInfo(links[k].id, d)
  <1>5. msg \in HostMsgs
    <2>1. d \in Servers
      BY DEF LoadLest, Servers, Acceptors
    <2>2. links[k].id \in Servers \cup {0}
      BY <1>1, LinkEnds DEF OwnID
    <2> QED
      BY <2>1, <2>2, MessagesSent
  <1>6. j \in LinkIDs /\ links[j].id # 0
    <2>1. l \in Servers /\ j # NoLink
      BY DEF LoadLest, Servers, Connectors
    <2> QED
      BY <2>1, ListedLinks
  <1>7. links[k].c2h # <<>>
    BY DEF WsPlace, ToHost
  <1> HIDE DEF old, msg, j
  <1>8. taken = [i \in LinkIDs |-> IF i = k THEN old ELSE links[i]]
    BY <1>1 DEF HasLinks
  <1> HIDE DEF taken
  <1>9. \A i \in LinkIDs :
            /\ LinkShape(taken[i]) /\ taken[i].h2c = links[i].h2c /\ taken[i].clientEnd = links[i].clientEnd
            /\ taken[i].id = links[i].id /\ (LoginFirst(links[i]) => LoginFirst(taken[i]))
    <2>1. LoginFirst(links[k]) => LoginFirst(old)
      BY <1>2, <1>7, LoginIsFirst DEF LoginFirst
    <2> QED
      BY <1>1, <1>2, <1>8, <2>1 DEF HasLinks
  <1>10. \A i \in LinkIDs : links'[i] = IF i = j THEN Reply(taken[i], msg) ELSE taken[i]
    BY <1>4, <1>8 DEF j, msg
  <1>11. \A i \in LinkIDs : Onward(i, links[i], taken[i])
    BY <1>9 DEF Onward
  <1>12. ASSUME NEW i \in LinkIDs PROVE Onward(i, links[i], links'[i])
    <2>1. CASE i = j /\ taken[i].clientEnd = "open"
      <3>1. /\ links'[i].h2c = Append(links[i].h2c, msg) /\ links'[i].id = links[i].id
            /\ links'[i].clientEnd = links[i].clientEnd /\ links'[i].c2h = taken[i].c2h
        BY <1>9, <1>10, <2>1 DEF Reply, LinkShape, HasFields
      <3>2. LoginFirst(links[i]) => LoginFirst(links'[i])
        BY <1>9, <3>1 DEF LoginFirst
      <3> QED
        BY <1>5, <1>6, <2>1, <3>1, <3>2 DEF Onward
    <2>2. CASE i # j \/ taken[i].clientEnd # "open"
      BY <1>10, <1>11, <2>2 DEF Reply
    <2> QED
      BY <2>1, <2>2
  <1>13. \A s \in Servers : serverInfo'[s].link = serverInfo[s].link
    BY <1>1, <1>4 DEF OnLoadAddOne, Shapes
  <1>14. UNCHANGED <<up, wsSession, vecClients>>
    BY DEF WsPlace, connVars
  <1> QED
    BY <1>1, <1>12, <1>13, <1>14, OnwardNotices DEF Entries

(* A server that has lost the world server closes its end. *)
LEMMA WsLostNotices ==
    ASSUME LoginInv, ListInv, NoticeInv, aborted = None, NEW s \in Servers, WsLost(s)
    PROVE  Notices
  <1> DEFINE k == wsSession[s].link
             new == ClientCloses(links[k])
  <1>1. Shapes /\ Sessions /\ Entries /\ AllGreeted
    BY DEF LoginInv, ListInv, NoticeInv
  <1>2. k \in LinkIDs /\ links' = [links EXCEPT ![k] = new] /\ links[k].hostEnd = "closed"
    BY <1>1 DEF WsLost, Sessions
  <1>3. new.clientEnd = "closed"
    BY <1>2, FreeQueues DEF ClientCloses
  <1>4. wsSession' = [wsSession EXCEPT ![s] = NoSession] /\ UNCHANGED <<up, serverInfo, vecClients>>
    BY DEF WsLost, connVars
  <1> HIDE DEF new
  <1>5. Onward(k, links[k], new)
    BY <1>3 DEF Onward
  <1>6. \A j \in LinkIDs : Onward(j, links[j], links'[j])
    BY <1>2, <1>5, OneLinkOnward
  <1>7. Away(s)
    <2> SUFFICES ASSUME NEW j \in LinkIDs, Host(j) = WS, Client(j) = s PROVE links'[j].clientEnd # "open"
      BY DEF Away
    <2>1. CASE j = k
      BY <1>1, <1>2, <1>3, <2>1 DEF Shapes
    <2>2. CASE j # k
      <3>1. links[j].clientEnd # "open"
        BY <1>1, <2>2 DEF AllGreeted, Greeted
      <3>2. links'[j] = links[j]
        BY <1>1, <1>2, <2>2 DEF Shapes
      <3> QED
        BY <3>1, <3>2
    <2> QED
      BY <2>1, <2>2
  <1>8. \A t \in Servers : wsSession'[t] = IF t = s THEN NoSession ELSE wsSession[t]
    BY <1>1, <1>4 DEF Sessions
  <1> QED
    BY <1>1, <1>4, <1>6, <1>7, <1>8, OnwardNotices DEF Entries

(* What passes between connectors and acceptors, and the entries that go. *)
LEMMA PeerNotices ==
    ASSUME LoginInv, ListInv, NoticeInv, aborted = None, NEW c \in Connectors,
           MgrUpdate(c) \/ \E a \in Acceptors : PeerNext(c, a), aborted' = None
    PROVE  Notices
  <1>1. Shapes /\ Sessions /\ Entries
    BY DEF LoginInv, ListInv, NoticeInv
  <1>0. \A a \in Acceptors : ~ConnEnterEarly(c, a)
    BY EarlyEnds
  <1>2. UNCHANGED <<up, serverInfo, wsSession>>
    BY <1>0 DEF MgrUpdate, PeerNext, ConnEnter, ConnRepLogined, ConnExit
  <1>3. /\ vecClients' \in [Connectors -> SUBSET Servers]
        /\ \A d \in Connectors : vecClients[d] \subseteq vecClients'[d] \cup toRemove[d]
    <2>1. CASE MgrUpdate(c)
      BY <1>1, <2>1 DEF MgrUpdate, Entries
    <2>2. CASE \E a \in Acceptors : PeerNext(c, a)
      BY <1>0, <1>1, <2>2 DEF PeerNext, ConnEnter, ConnRepLogined, ConnExit, Entries
    <2> QED
      BY <2>1, <2>2
  <1>4. \A j \in LinkIDs : Host(j) = WS => links'[j] = links[j]
    <2>1. CASE MgrUpdate(c)
      BY <2>1 DEF MgrUpdate
    <2>2. CASE \E a \in Acceptors : PeerNext(c, a)
      <3>1. PICK a \in Acceptors : PeerNext(c, a)
        BY <2>2
      <3>2. a # WS
        BY LinkEnds
      <3>3. peers[c][a].link # NoLink => Host(peers[c][a].link) = a
        BY <1>1 DEF Sessions
      <3>4. CASE ConnEnter(c, a)
        BY <1>1, <3>2, <3>4 DEF ConnEnter, FreshLinks, Shapes
      <3>5. CASE ConnRepLogined(c, a)
        BY <1>1, <3>2, <3>3, <3>5 DEF ConnRepLogined, ToClient, Shapes
      <3>6. CASE ConnExit(c, a)
        BY <1>1, <3>2, <3>3, <3>6 DEF ConnExit, Shapes
      <3> QED
        BY <1>0, <3>1, <3>4, <3>5, <3>6 DEF PeerNext
    <2> QED
      BY <2>1, <2>2
  <1>5. \A j \in LinkIDs : Onward(j, links[j], links'[j])
    BY <1>4 DEF Onward
  <1> QED
    BY <1>2, <1>3, <1>5, OnwardNotices

(* A server takes what the world server has sent: what comes first is the  *)
(* answer, so that everything else is taken by a server that knows it is   *)
(* logged in.                                                              *)
LEMMA TakeNotices ==
    ASSUME LoginInv, ListInv, NoticeInv, aborted = None, NEW s \in Servers,
           wsSession[s].link # NoLink, links[wsSession[s].link].h2c # <<>>,
           links' = [links EXCEPT ![wsSession[s].link].h2c = Tail(@)],
           wsSession'[s].link = wsSession[s].link, wsSession'[s].status = "LOGINED",
           \A t \in Servers : t # s => wsSession'[t] = wsSession[t],
           UNCHANGED <<up, serverInfo>>,
           vecClients' \in [Connectors -> SUBSET Servers],
           \A c \in Connectors : vecClients[c] \subseteq vecClients'[c],
           LET m == Head(links[wsSession[s].link].h2c)
           IN m.type = "ServerInfoList" => s \in Connectors /\ m.ids \subseteq vecClients'[s]
    PROVE  Notices
  <1> DEFINE k == wsSession[s].link
             new == [links[k] EXCEPT !.h2c = Tail(links[k].h2c)]
  <1>1. Shapes /\ Sessions /\ Queues /\ AllGreeted /\ DownAreAway
    BY DEF LoginInv, ListInv, NoticeInv
  <1>2. k \in LinkIDs /\ Client(k) = s /\ Host(k) = WS /\ links[k].clientEnd = "open"
    BY <1>1 DEF Sessions
  <1>3. \A j \in LinkIDs : links'[j] = IF j = k THEN new ELSE links[j]
    BY <1>1 DEF Shapes
  <1>4. /\ new.clientEnd = links[k].clientEnd /\ new.h2c = Tail(links[k].h2c)
        /\ new.id = links[k].id /\ new.c2h = links[k].c2h
    BY <1>1, <1>2 DEF Shapes, LinkShape, HasFields
  <1> HIDE DEF new
  <1>5. links[k].id # 0 /\ LoginFirst(links[k])
    BY <1>1, <1>2 DEF AllGreeted, Greeted
  <1>6. ASSUME NEW j \in LinkIDs PROVE Greeted(j, links'[j], wsSession'[Client(j)])
    <2>0. Client(j) \in Servers
      BY LinkEnds
    <2>1. CASE j = k
      <3>1. LoginFirst(new)
        BY <1>4, <1>5 DEF LoginFirst
      <3> QED
        BY <1>2, <1>3, <1>4, <1>5, <2>1, <3>1 DEF Greeted
    <2>2. CASE j # k /\ Client(j) = s
      <3>1. Greeted(j, links[j], wsSession[s]) /\ links'[j] = links[j]
        BY <1>1, <1>3, <2>2 DEF AllGreeted
      <3>2. Host(j) = WS => links[j].clientEnd # "open"
        BY <2>2, <3>1 DEF Greeted
      <3> QED
        BY <3>1, <3>2 DEF Greeted
    <2>3. CASE Client(j) # s
      BY <1>1, <1>2, <1>3, <2>0, <2>3 DEF AllGreeted
    <2> QED
      BY <2>1, <2>2, <2>3
  <1>7. AllGreeted' /\ DownAreAway' /\ Entries'
    <2>1. AllGreeted'
      BY <1>6 DEF AllGreeted, Greeted
    <2>2. \A t \in Servers : wsSession'[t].link = wsSession[t].link
      OBVIOUS
    <2> QED
      BY <1>1, <2>1, <2>2 DEF DownAreAway, Entries
  <1>8. ASSUME NEW c \in Connectors, NEW a \in Acceptors, Missed(c, a)'
        PROVE  Missed(c, a) \/ a \in toRemove[c]
    <2> DEFINE j == serverInfo[c].link
    <2>1. c \in Servers
      BY DEF Servers
    <2>2. j # NoLink /\ serverInfo[a].link # NoLink /\ links'[j].clientEnd = "open"
      BY <1>8 DEF Missed
    <2>3. j \in LinkIDs /\ Host(j) = WS /\ Client(j) = c
      BY <2>1, <2>2, ListedLinks
    <2>4. links[j].clientEnd = "open"
      BY <1>2, <1>3, <2>2, <2>3
    <2>5. Announced(links[j].h2c) \subseteq Announced(links'[j].h2c) \cup vecClients'[c]
      <3>1. CASE j # k
        BY <1>3, <2>3, <3>1
      <3>2. CASE j = k
        <4> SUFFICES ASSUME NEW b \in Announced(links[k].h2c), b \notin Announced(Tail(links[k].h2c))
                     PROVE  b \in vecClients'[c]
          BY <1>3, <1>4, <2>3, <3>2
        <4>1. links[k].h2c \in Seq(HostMsgs) /\ links[k].h2c # <<>>
          BY <1>1, <1>2 DEF Queues
        <4>2. Head(links[k].h2c).type = "ServerInfoList" /\ b \in Head(links[k].h2c).ids
          <5> HIDE DEF k
          <5> QED
            BY <4>1, ListTaken
        <4> QED
          BY <1>2, <2>3, <3>2, <4>2
      <3> QED
        BY <3>1, <3>2
    <2> HIDE DEF j
    <2>6. serverInfo'[c].link = serverInfo[c].link /\ vecClients[c] \subseteq vecClients'[c] \cup toRemove[c]
      OBVIOUS
    <2> QED
      BY <1>8, <2>2, <2>4, <2>5, <2>6, MissedBefore DEF j
  <1> QED
    BY <1>7, <1>8 DEF Notices, NoticeInv

(* The three kinds of message from the world server. *)
LEMMA FromWsNotices ==
    ASSUME LoginInv, ListInv, NoticeInv, aborted = None, NEW s \in Servers,
           WsRepLogined(s) \/ (s \in Connectors /\ WsServerInfoList(s)) \/ LsNotified(s)
    PROVE  Notices
  <1> DEFINE k == wsSession[s].link
             q == links[k].h2c
  <1>1. Shapes /\ Sessions /\ Queues /\ AllGreeted /\ Entries
    BY DEF LoginInv, ListInv, NoticeInv
  <1>2. k # NoLink /\ q # <<>> /\ links' = [links EXCEPT ![k].h2c = Tail(@)] /\ UNCHANGED <<up, serverInfo>>
    BY DEF WsRepLogined, WsServerInfoList, LsNotified, ToClient
  <1>3. k \in LinkIDs /\ Client(k) = s /\ Host(k) = WS /\ links[k].clientEnd = "open" /\ q \in Seq(HostMsgs)
    BY <1>1, <1>2 DEF Sessions, Queues
  <1>4. wsSession[s].status = "LOGINED" \/ (wsSession[s].status = "CONNETED" /\ Head(q) = RepLogined(TRUE))
    <2>1. Greeted(k, links[k], wsSession[s])
      BY <1>1, <1>3 DEF AllGreeted
    <2> QED
      BY <1>2, <1>3, <2>1 DEF Greeted
  <1>5. RepLogined(TRUE).type = "RepLogined" /\ RepLogined(TRUE).ok
    BY DEF RepLogined
  <1>6. CASE WsRepLogined(s)
    <2> DEFINE status == IF wsSession[s].status = "CONNETED" /\ Head(q).ok THEN "LOGINED" ELSE wsSession[s].status
    <2>1. wsSession' = [wsSession EXCEPT ![s].status = status] /\ UNCHANGED vecClients
      BY <1>6 DEF WsRepLogined, connVars
    <2>2. status = "LOGINED"
      BY <1>4, <1>5
    <2> HIDE DEF status
    <2>3. wsSession'[s].status = "LOGINED" /\ wsSession'[s].link = k
      BY <1>1, <2>1, <2>2 DEF Sessions, SessionStates
    <2>4. \A t \in Servers : t # s => wsSession'[t] = wsSession[t]
      BY <1>1, <2>1 DEF Sessions
    <2>5. Head(q).type = "RepLogined"
      BY <1>6 DEF WsRepLogined, ToClient
    <2> QED
      BY <1>1, <1>2, <2>1, <2>3, <2>4, <2>5, TakeNotices DEF Entries
  <1>7. CASE s \in Connectors /\ WsServerInfoList(s)
    <2>1. Head(q).type = "ServerInfoList" /\ UNCHANGED wsSession
      BY <1>7 DEF WsServerInfoList, ToClient
    <2>2. wsSession[s].status = "LOGINED"
      BY <1>4, <1>5, <2>1
    <2>3. vecClients' = [vecClients EXCEPT ![s] = @ \cup Head(q).ids]
      BY <1>7, <2>2 DEF WsServerInfoList
    <2>4. Head(q).ids \subseteq Servers
      <3>1. Head(q) \in HostMsgs
        <4> HIDE DEF q
        <4> QED
          BY <1>2, <1>3, HeadTailProperties
      <3>2. \A m \in HostMsgs : m.type = "ServerInfoList" => m.ids \subseteq Servers
        BY DEF HostMsgs, RepLogined, RepServerInfoList, NofitySInfo
      <3> QED
        BY <2>1, <3>1, <3>2
    <2> HIDE DEF q
    <2>5. /\ vecClients' \in [Connectors -> SUBSET Servers]
          /\ \A c \in Connectors : vecClients[c] \subseteq vecClients'[c]
          /\ Head(q).ids \subseteq vecClients'[s]
      BY <1>1, <1>7, <2>3, <2>4 DEF Entries
    <2> QED
      BY <1>1, <1>2, <1>7, <2>1, <2>2, <2>5, TakeNotices DEF q
  <1>8. CASE LsNotified(s)
    <2>1. Head(q).type = "SInfo" /\ UNCHANGED <<wsSession, vecClients>>
      BY <1>8 DEF LsNotified, ToClient, connVars
    <2>2. wsSession[s].status = "LOGINED"
      BY <1>4, <1>5, <2>1
    <2> QED
      BY <1>1, <1>2, <2>1, <2>2, TakeNotices DEF Entries
  <1> QED
    BY <1>6, <1>7, <1>8

(* A login: the answer goes first, then the list.  A new connector is told  *)
(* of every acceptor that is listed, and a new acceptor to every connector. *)
LEMMA BoardcastNames ==
    ASSUME LoginInv, aborted = None, NEW k \in LinkIDs, NEW lnks, HasLinks(lnks)
    PROVE  LET id == Client(k)
               info == OnServerLogin(id, k)
               ids == {a \in Acceptors : info[a].link # NoLink}
               msg == RepServerInfoList(IF id \in Acceptors THEN {id} ELSE ids)
               new == Boardcast(lnks, info, id)
           IN /\ msg \in HostMsgs
              /\ new[k] \in {lnks[k], Reply(lnks[k], msg)}
              /\ id \in Connectors => new[k] = Reply(lnks[k], msg)
              /\ \A j \in LinkIDs \ {k} :
                    \/ new[j] = lnks[j]
                    \/ new[j] = Reply(lnks[j], msg) /\ links[j].id # 0
              /\ id \in Acceptors =>
                    \A c \in Connectors : info[c].link \in LinkIDs =>
                        new[info[c].link] = Reply(lnks[info[c].link], msg)
  <1> DEFINE id == Client(k)
             info == OnServerLogin(id, k)
             ids == {a \in Acceptors : info[a].link # NoLink}
             msg == RepServerInfoList(IF id \in Acceptors THEN {id} ELSE ids)
             new == Boardcast(lnks, info, id)
  <1>1. id \in Servers /\ Acceptors \subseteq Servers /\ (id \in Connectors => id \notin Acceptors)
    BY LinkEnds, LoginAssumption
  <1>2. \A t \in Servers : info[t].link = IF t = id THEN k ELSE serverInfo[t].link
    BY <1>1 DEF LoginInv, Shapes, OnServerLogin
  <1>3. msg \in HostMsgs
    <2>1. (IF id \in Acceptors THEN {id} ELSE ids) \in SUBSET Servers
      BY <1>1
    <2> QED
      BY <2>1, MessagesSent
  <1>4. CASE id \in Acceptors
    <2>1. new = [j \in LinkIDs |-> IF \E c \in Connectors : info[c].link = j THEN Reply(lnks[j], msg) ELSE lnks[j]]
      BY <1>4 DEF Boardcast
    <2> HIDE DEF msg, new
    <2>2. ASSUME NEW j \in LinkIDs \ {k}, NEW c \in Connectors, info[c].link = j PROVE links[j].id # 0
      <3>1. c \in Servers /\ j # NoLink
        BY LinkEnds DEF Servers
      <3>2. serverInfo[c].link = j
        BY <1>2, <2>2, <3>1
      <3> QED
        BY <3>1, <3>2, ListedLinks
    <2> QED
      BY <1>1, <1>3, <1>4, <2>1, <2>2 DEF msg, new
  <1>5. CASE id \notin Acceptors
    <2>1. new = [lnks EXCEPT ![info[id].link] = Reply(@, msg)]
      BY <1>5 DEF Boardcast
    <2>2. info[id].link = k
      BY <1>1, <1>2
    <2> HIDE DEF msg, new
    <2>3. \A j \in LinkIDs : new[j] = IF j = k THEN Reply(lnks[k], msg) ELSE lnks[j]
      BY <2>1, <2>2 DEF HasLinks
    <2> QED
      BY <1>3, <1>5, <2>3 DEF msg, new
  <1> QED
    BY <1>4, <1>5

(* A message that is answered to a link. *)
LEMMA ReplyIs ==
    ASSUME NEW link, LinkShape(link), NEW m
    PROVE  LET new == Reply(link, m)
           IN /\ new.clientEnd = link.clientEnd /\ new.id = link.id /\ new.c2h = link.c2h
              /\ link.clientEnd = "open" => new.h2c = Append(link.h2c, m)
  BY DEF Reply, LinkShape, HasFields

LEMMA WsReqLoginNotices ==
    ASSUME LoginInv, ListInv, NoticeInv, aborted = None, aborted' = None, NEW k \in LinkIDs, WsReqLogin(k)
    PROVE  Notices
  <1> DEFINE id == Client(k)
             ok == byID[WS][id] = NoLink
             info == OnServerLogin(id, k)
             old == [links[k] EXCEPT !.c2h = Tail(links[k].c2h), !.id = id]
             first == RepLogined(TRUE)
             new == Reply(old, first)
             answered == [links EXCEPT ![k] = new]
             msg == RepServerInfoList(IF id \in Acceptors THEN {id}
                                      ELSE {a \in Acceptors : info[a].link # NoLink})
  <1>1. /\ LinkShape(links[k]) /\ Shapes /\ Listed /\ OwnID
        /\ Queues /\ AllGreeted /\ DownAreAway /\ Entries
    BY DEF LoginInv, Shapes, ListInv, NoticeInv
  <1>2. links[k].hostEnd = "open" /\ Host(k) = WS /\ id \in Servers /\ id # 0 /\ links[k].c2h # <<>>
        /\ Head(links[k].c2h).type = "ReqLogin"
    BY LinkEnds DEF WsReqLogin, ToHost
  <1>3. serverInfo[id].link = NoLink
    BY DEF WsReqLogin, ASSERT, None
  <1>4. byID[WS][id] = NoLink
    BY <1>1, <1>2, <1>3 DEF Listed
  <1>5. links' = Boardcast(answered, info, id) /\ serverInfo' = info /\ UNCHANGED <<up, wsSession, vecClients>>
    BY <1>3, <1>4 DEF WsReqLogin, connVars
  <1>6. /\ LinkShape(old) /\ old.id = id /\ old.c2h = Tail(links[k].c2h)
        /\ old.clientEnd = links[k].clientEnd /\ old.h2c = links[k].h2c
    BY <1>1, <1>2 DEF LinkShape, HasFields
  <1> HIDE DEF old
  <1>7. first \in HostMsgs /\ LinkShape(new)
    BY <1>6, MessagesSent, ReplyKeeps
  <1>8. /\ new.clientEnd = links[k].clientEnd /\ new.id = id /\ new.c2h = Tail(links[k].c2h)
        /\ links[k].clientEnd = "open" => new.h2c = Append(links[k].h2c, first)
    <2>1. LET r == Reply(old, first)
          IN /\ r.clientEnd = old.clientEnd /\ r.id = old.id /\ r.c2h = old.c2h
             /\ old.clientEnd = "open" => r.h2c = Append(old.h2c, first)
      BY <1>6, ReplyIs
    <2> QED
      BY <1>6, <2>1
  <1> HIDE DEF new, first
  <1>9. answered = [j \in LinkIDs |-> IF j = k THEN new ELSE links[j]]
    BY <1>1 DEF Shapes
  <1> HIDE DEF answered
  <1>10. HasLinks(answered)
    BY <1>1, <1>7, <1>9 DEF HasLinks, Shapes
  <1>11. \A t \in Servers : info[t].link = IF t = id THEN k ELSE serverInfo[t].link
    BY <1>1, <1>2 DEF Shapes, OnServerLogin
  <1>12. /\ msg \in HostMsgs
         /\ links'[k] \in {answered[k], Reply(answered[k], msg)}
         /\ id \in Connectors => links'[k] = Reply(answered[k], msg)
         /\ \A j \in LinkIDs \ {k} :
               \/ links'[j] = answered[j]
               \/ links'[j] = Reply(answered[j], msg) /\ links[j].id # 0
         /\ id \in Acceptors =>
               \A c \in Connectors : info[c].link \in LinkIDs =>
                   links'[info[c].link] = Reply(answered[info[c].link], msg)
    <2> DEFINE sent == Boardcast(answered, info, id)
    <2>1. /\ msg \in HostMsgs
          /\ sent[k] \in {answered[k], Reply(answered[k], msg)}
          /\ id \in Connectors => sent[k] = Reply(answered[k], msg)
          /\ \A j \in LinkIDs \ {k} :
                \/ sent[j] = answered[j]
                \/ sent[j] = Reply(answered[j], msg) /\ links[j].id # 0
          /\ id \in Acceptors =>
                \A c \in Connectors : info[c].link \in LinkIDs =>
                    sent[info[c].link] = Reply(answered[info[c].link], msg)
      BY <1>10, BoardcastNames
    <2>2. links' = sent
      BY <1>5
    <2> HIDE DEF msg, info, sent
    <2> QED
      BY <2>1, <2>2
  <1>13. /\ msg.type = "ServerInfoList" /\ (id \in Acceptors => msg.ids = {id})
         /\ id \notin Acceptors => msg.ids = {a \in Acceptors : info[a].link # NoLink}
    BY DEF RepServerInfoList
  <1> HIDE DEF msg, info
  <1>14. ASSUME NEW j \in LinkIDs, j # k PROVE Onward(j, links[j], links'[j])
    <2>1. answered[j] = links[j] /\ LinkShape(links[j])
      BY <1>1, <1>9, <1>14 DEF Shapes
    <2>2. CASE links'[j] = links[j]
      BY <2>2 DEF Onward
    <2>3. CASE links'[j] = Reply(links[j], msg) /\ links[j].id # 0
      <3>1. /\ links'[j].clientEnd = links[j].clientEnd /\ links'[j].id = links[j].id /\ links'[j].c2h = links[j].c2h
            /\ links[j].clientEnd = "open" => links'[j].h2c = Append(links[j].h2c, msg)
        BY <2>1, <2>3, ReplyIs
      <3> QED
        BY <1>12, <2>3, <3>1 DEF Onward, LoginFirst
    <2> QED
      BY <1>12, <1>14, <2>1, <2>2, <2>3
  <1>15. /\ links'[k].clientEnd = links[k].clientEnd /\ links'[k].id = id /\ links'[k].c2h = Tail(links[k].c2h)
         /\ links[k].clientEnd = "open" =>
               \/ links'[k].h2c = Append(links[k].h2c, first)
               \/ links'[k].h2c = Append(Append(links[k].h2c, first), msg)
         /\ (links[k].clientEnd = "open" /\ id \in Connectors) =>
               links'[k].h2c = Append(Append(links[k].h2c, first), msg)
    <2>1. answered[k] = new
      BY <1>9
    <2>2. LET r == Reply(new, msg)
          IN /\ r.clientEnd = new.clientEnd /\ r.id = new.id /\ r.c2h = new.c2h
             /\ new.clientEnd = "open" => r.h2c = Append(new.h2c, msg)
      BY <1>7, ReplyIs
    <2> QED
      BY <1>8, <1>12, <2>1, <2>2
  <1>16. links[k].clientEnd = "open" =>
            links[k].id = 0 /\ links[k].h2c = <<>> /\ wsSession[id].link = k /\ wsSession[id].status = "CONNETED"
    <2> SUFFICES ASSUME links[k].clientEnd = "open"
                 PROVE  links[k].id = 0 /\ links[k].h2c = <<>> /\ wsSession[id].link = k
                        /\ wsSession[id].status = "CONNETED"
      OBVIOUS
    <2>1. Greeted(k, links[k], wsSession[id])
      BY <1>1 DEF AllGreeted
    <2>2. LoginFirst(links[k])
      BY <1>2, <2>1 DEF Greeted
    <2>3. links[k].id = 0
      BY <1>2, <2>2, LoginIsFirst
    <2> QED
      BY <1>2, <2>1, <2>3 DEF Greeted
  <1>17. ASSUME NEW j \in LinkIDs PROVE Greeted(j, links'[j], wsSession[Client(j)])
    <2>1. CASE j # k
      BY <1>1, <1>14, <2>1, OnwardGreets DEF AllGreeted, Queues
    <2>2. CASE j = k
      <3> SUFFICES ASSUME links[k].clientEnd = "open" PROVE Greeted(k, links'[k], wsSession[id])
        BY <1>15, <2>2 DEF Greeted
      <3>1. LoginFirst(links'[k])
        <4>1. LoginFirst(links[k])
          BY <1>1, <1>2 DEF AllGreeted, Greeted
        <4> QED
          BY <1>2, <1>15, <4>1, LoginIsFirst DEF LoginFirst
      <3>2. /\ Append(<<>>, first) \in Seq(HostMsgs) /\ Append(<<>>, first) # <<>>
            /\ Head(Append(<<>>, first)) = first
        BY <1>7, EmptySeq, ListAdded
      <3>3. /\ Append(Append(<<>>, first), msg) # <<>>
            /\ Head(Append(Append(<<>>, first), msg)) = first
        BY <1>12, <3>2, ListAdded
      <3>4. links'[k].h2c # <<>> /\ Head(links'[k].h2c) = first
        BY <1>15, <1>16, <3>2, <3>3
      <3> QED
        BY <1>2, <1>15, <1>16, <3>1, <3>4 DEF Greeted, first
    <2> QED
      BY <2>1, <2>2
  <1>18. AllGreeted' /\ DownAreAway' /\ Entries'
    BY <1>1, <1>5, <1>17 DEF AllGreeted, Greeted, DownAreAway, Entries
  <1>19. ASSUME NEW c \in Connectors, NEW a \in Acceptors, Missed(c, a)'
         PROVE  Missed(c, a) \/ a \in toRemove[c]
    <2> DEFINE j == serverInfo'[c].link
    <2>1. c \in Servers /\ a \in Servers /\ c # a
      BY LoginAssumption DEF Servers
    <2>2. /\ j # NoLink /\ links'[j].clientEnd = "open" /\ serverInfo'[a].link # NoLink
          /\ a \notin vecClients[c] /\ a \notin Announced(links'[j].h2c)
      BY <1>5, <1>19 DEF Missed
    <2>3. c # id
      <3> SUFFICES ASSUME c = id PROVE FALSE
        OBVIOUS
      <3>1. j = k /\ id \notin Acceptors
        BY <1>2, <1>5, <1>11, LoginAssumption
      <3>2. links'[k].h2c = Append(Append(links[k].h2c, first), msg)
        BY <1>15, <2>2, <3>1
      <3>3. links[k].h2c \in Seq(HostMsgs)
        BY <1>1 DEF Queues
      <3>4. msg.ids \subseteq Announced(links'[k].h2c)
        BY <1>7, <1>12, <1>13, <3>2, <3>3, ListAdded
      <3>5. a \in msg.ids
        BY <1>5, <1>13, <2>2, <3>1
      <3> QED
        BY <2>2, <3>1, <3>4, <3>5
    <2>4. j = serverInfo[c].link
      BY <1>5, <1>11, <2>1, <2>3
    <2>5. j \in LinkIDs /\ Host(j) = WS /\ j # k
      BY <2>1, <2>2, <2>3, <2>4, ListedLinks
    <2>6. links[j].h2c \in Seq(HostMsgs) /\ answered[j] = links[j] /\ LinkShape(links[j])
      BY <1>1, <1>9, <2>5 DEF Queues, Shapes
    <2>7. a # id
      <3> SUFFICES ASSUME a = id PROVE FALSE
        OBVIOUS
      <3>1. links'[j] = Reply(links[j], msg)
        BY <1>5, <1>12, <2>5, <2>6
      <3>2. links'[j].h2c = Append(links[j].h2c, msg)
        BY <2>2, <2>6, <3>1, ReplyIs
      <3>3. msg.ids \subseteq Announced(links'[j].h2c) /\ msg.ids = {id}
        BY <1>12, <1>13, <2>6, <3>2, ListAdded
      <3> QED
        BY <2>2, <3>3
    <2>8. serverInfo[a].link # NoLink
      BY <1>5, <1>11, <2>1, <2>2, <2>7
    <2>9. links[j].clientEnd = "open" /\ Announced(links[j].h2c) \subseteq Announced(links'[j].h2c)
      <3>1. Onward(j, links[j], links'[j])
        BY <1>14, <2>5
      <3> HIDE DEF j
      <3> QED
        BY <2>2, <2>5, <2>6, <3>1, OnwardAnnounces
    <2> HIDE DEF j
    <2> QED
      BY <1>5, <1>19, <2>4, <2>8, <2>9, MissedBefore DEF j
  <1> QED
    BY <1>18, <1>19 DEF Notices, NoticeInv

----------------------------------------------------------------------------
(* Every step keeps the invariant and misses nobody. *)
LEMMA NoticeInvStep ==
    ASSUME LoginInv, ListInv, NoticeInv, aborted = None, aborted' = None, LoginNext
    PROVE  Notices
  <1>1. ASSUME NEW s \in Servers, ServerStart(s) PROVE Notices
    BY <1>1, ServerStartNotices
  <1>2. ASSUME NEW s \in Servers, ServerDown(s) PROVE Notices
    BY <1>2, ServerDownNotices
  <1>3. ASSUME NEW k \in LinkIDs, LinkTimeout(k) PROVE Notices
    BY <1>3, EndNotices
  <1>4. ASSUME NEW f \in Feps, AskPlacement(f) PROVE Notices
    BY <1>4, AskPlacementNotices
  <1>5. ASSUME NEW k \in LinkIDs, HostNext(k) PROVE Notices
    <2>1. CASE HostEnter(k) \/ HostReqLogin(k)
      BY <2>1, EndNotices
    <2>2. CASE WsReqLogin(k)
      BY <2>2, WsReqLoginNotices
    <2>3. CASE HostExit(k)
      BY <2>3, HostExitNotices
    <2>4. CASE WsPlace(k)
      BY <2>4, WsPlaceNotices
    <2> QED
      BY <1>5, <2>1, <2>2, <2>3, <2>4 DEF HostNext
  <1>6. ASSUME NEW s \in Servers, FromWs(s) PROVE Notices
    <2>1. CASE WsLost(s)
      BY <2>1, WsLostNotices
    <2>2. CASE ~WsLost(s)
      BY <1>6, <2>2, FromWsNotices DEF FromWs
    <2> QED
      BY <2>1, <2>2
  <1>7. ASSUME NEW c \in Connectors, MgrUpdate(c) \/ \E a \in Acceptors : PeerNext(c, a) PROVE Notices
    BY <1>7, PeerNotices
  <1> QED
    BY <1>1, <1>2, <1>3, <1>4, <1>5, <1>6, <1>7 DEF LoginNext, Environment, SystemNext

LEMMA NoticeInvKept == LoginInv /\ ListInv /\ NoticeInv /\ [LoginNext]_loginVars => NoticeInv'
  <1> SUFFICES ASSUME LoginInv, ListInv, NoticeInv, [LoginNext]_loginVars PROVE NoticeInv'
    OBVIOUS
  <1>1. CASE UNCHANGED loginVars
    BY <1>1 DEF loginVars, connVars, NoticeInv, AllGreeted, Greeted, DownAreAway, Entries
  <1>2. CASE LoginNext
    <2>1. aborted = None
      BY <1>2 DEF LoginNext
    <2> QED
      BY <1>2, <2>1, NoticeInvStep DEF Notices, NoticeInv
  <1> QED
    BY <1>1, <1>2

(* The login and scene servers hear of every front end and data server     *)
(* (ForServerMsgHandler.cpp:141, ServerInfoMgr.cpp:120): in whatever order  *)
(* servers log in, go down, come back and lose their links, a connector     *)
(* that is listed has an entry for each acceptor that is, or a list that    *)
(* names it is on its way; it loses it only by removing its own entry.      *)
THEOREM NobodyMissed == LoginSpec => NoneMissed
  <1>1. LoginInit => LoginInv /\ ListInv /\ NoticeInv
    BY LoginInvInit, ListInvInit, NoticeInvInit
  <1>2. LoginInv /\ ListInv /\ NoticeInv /\ [LoginNext]_loginVars => LoginInv' /\ ListInv' /\ NoticeInv'
    BY LoginInvStep, ListInvStep, NoticeInvKept
  <1>3. LoginInv /\ ListInv /\ NoticeInv /\ [LoginNext]_loginVars
        => [\A c \in Connectors, a \in Acceptors :
               Missed(c, a)' => Missed(c, a) \/ a \in toRemove[c] \/ aborted' # None]_loginVars
    <2> SUFFICES ASSUME LoginInv, ListInv, NoticeInv, LoginNext, aborted' = None
                 PROVE  \A c \in Connectors, a \in Acceptors : Missed(c, a)' => Missed(c, a) \/ a \in toRemove[c]
      OBVIOUS
    <2>1. aborted = None
      BY DEF LoginNext
    <2> QED
      BY <2>1, NoticeInvStep DEF Notices
  <1> QED
    BY <1>1, <1>2, <1>3, PTL DEF LoginSpec, NoneMissed

-----------------------------------------------------------------------------
(* Until something goes down no entry is removed, and so nobody is missed. *)
Met ==
    (nFaults = 0 /\ aborted = None) =>
        \A c \in Connectors : toRemove[c] = {} /\ \A a \in Acceptors : ~Missed(c, a)

LEMMA MetInit == LoginInit => Met
  <1> SUFFICES ASSUME LoginInit, NEW c \in Connectors PROVE serverInfo[c].link = NoLink /\ toRemove[c] = {}
    BY DEF Met, Missed
  <1> QED
    BY DEF LoginInit, NotListed, Servers

(* Nothing that ends is taken, so nothing is removed. *)
LEMMA NothingRemoved ==
    ASSUME LoginInv, ListInv, QuietInv, LoginNext, nFaults = 0, nFaults' = 0, \A c \in Connectors : toRemove[c] = {}
    PROVE  toRemove' = toRemove
  <1>1. aborted = None
    BY DEF LoginNext
  <1>2. ~(\E s \in Servers : ServerDown(s)) /\ ~(\E k \in LinkIDs : LinkTimeout(k))
    BY <1>1 DEF ServerDown, LinkTimeout
  <1>3. \A c \in Connectors : ~MgrUpdate(c)
    BY DEF MgrUpdate
  <1>4. ASSUME NEW s \in Servers, ServerStart(s) PROVE toRemove' = toRemove
    BY <1>4 DEF ServerStart, connVars
  <1>5. ASSUME NEW f \in Feps, AskPlacement(f) PROVE toRemove' = toRemove
    BY <1>5 DEF AskPlacement, connVars
  <1>6. ASSUME NEW k \in LinkIDs, HostNext(k) PROVE toRemove' = toRemove
    BY <1>6 DEF HostNext, HostEnter, WsReqLogin, HostReqLogin, HostExit, WsPlace, connVars
  <1>7. ASSUME NEW s \in Servers, FromWs(s) PROVE toRemove' = toRemove
    BY <1>7 DEF FromWs, WsRepLogined, WsLost, WsServerInfoList, LsNotified, connVars
  <1>8. ASSUME NEW c \in Connectors, NEW a \in Acceptors, PeerNext(c, a) PROVE toRemove' = toRemove
    <2>1. CASE ConnExit(c, a)
      BY <1>1, <2>1, NoEnd DEF QuietInv
    <2> QED
      BY <1>8, <2>1 DEF PeerNext, ConnEnter, ConnEnterEarly, ConnRepLogined
  <1> QED
    BY <1>2, <1>3, <1>4, <1>5, <1>6, <1>7, <1>8 DEF LoginNext, Environment, SystemNext

LEMMA MetStep ==
    ASSUME LoginInv, ListInv, NoticeInv, QuietInv, Met, [LoginNext]_loginVars
    PROVE  Met'
  <1>1. CASE UNCHANGED loginVars
    BY <1>1 DEF loginVars, connVars, Met, Missed
  <1>2. CASE LoginNext
    <2> SUFFICES ASSUME nFaults' = 0, aborted' = None, NEW c \in Connectors
                 PROVE  toRemove'[c] = {} /\ \A a \in Acceptors : ~Missed(c, a)'
      BY DEF Met
    <2>1. aborted = None
      BY <1>2 DEF LoginNext
    <2>2. nFaults = 0
      <3>1. nFaults \in Nat /\ (UNCHANGED nFaults \/ nFaults' = nFaults + 1)
        BY <1>2 DEF QuietInv, LoginNext, Environment, SystemNext, ServerStart, ServerDown, LinkTimeout, AskPlacement,
                    HostNext, HostEnter, WsReqLogin, HostReqLogin, HostExit, WsPlace,
                    FromWs, WsRepLogined, WsLost, WsServerInfoList, LsNotified,
                    MgrUpdate, PeerNext, ConnEnter, ConnEnterEarly, ConnRepLogined, ConnExit
      <3> QED
        BY <3>1
    <2>3. \A d \in Connectors : toRemove[d] = {} /\ \A a \in Acceptors : ~Missed(d, a)
      BY <2>1, <2>2 DEF Met
    <2>4. toRemove' = toRemove
      BY <1>2, <2>2, <2>3, NothingRemoved
    <2>5. \A a \in Acceptors : Missed(c, a)' => Missed(c, a) \/ a \in toRemove[c]
      BY <1>2, <2>1, NoticeInvStep DEF Notices
    <2> QED
      BY <2>3, <2>4, <2>5
  <1> QED
    BY <1>1, <1>2

(* Of servers that come up in any order and any number, each connector that *)
(* is listed has an entry for every acceptor that is, or is told of it.     *)
THEOREM NobodyMissedAtStart ==
    LoginSpec => [](nFaults = 0 /\ aborted = None => \A c \in Connectors, a \in Acceptors : ~Missed(c, a))
  <1>1. LoginInit => LoginInv /\ ListInv /\ NoticeInv /\ QuietInv /\ Met
    BY LoginInvInit, ListInvInit, NoticeInvInit, QuietInvInit, MetInit
  <1>2. LoginInv /\ ListInv /\ NoticeInv /\ QuietInv /\ Met /\ [LoginNext]_loginVars
        => LoginInv' /\ ListInv' /\ NoticeInv' /\ QuietInv' /\ Met'
    BY LoginInvStep, ListInvStep, NoticeInvKept, QuietInvStep, MetStep
  <1>3. Met => (nFaults = 0 /\ aborted = None => \A c \in Connectors, a \in Acceptors : ~Missed(c, a))
    BY DEF Met
  <1> QED
    BY <1>1, <1>2, <1>3, PTL DEF LoginSpec

=============================================================================
