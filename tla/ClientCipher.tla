---------------------------- MODULE ClientCipher ----------------------------
(***************************************************************************)
(* The key of a client's connection to its front end.  Every message goes  *)
(* through XorCode with the key its sender holds (see XorCode: the same    *)
(* key and length give it back); both begin with EncryptDefualt.  The      *)
(* client asks for a key once it is connected, the front end answers under *)
(* the old key and changes to the new one, the client changes when it has  *)
(* the answer.                                                             *)
(*                                                                         *)
(* The client is clientCtl, with the io thread of its NetClient and its    *)
(* main thread; besides what its handlers send, it may send any message at *)
(* any time, as the commands of GameCommand did and other clients do.  A   *)
(* message read under another key than it was written may look like any.   *)
(* Keys are numbered, 0 is EncryptDefualt and RandKey gives the next.      *)
(***************************************************************************)
EXTENDS Integers, Sequences

CONSTANTS
    MaxSent,   \* messages a client sends,
    MaxRuns    \* and times the client is started: bounds of the model only

ASSUME CipherAssumption == MaxSent \in Nat /\ MaxRuns \in Nat

VARIABLES
    main,        \* the main thread of the client: "start", "loop" or "ended"
    io,          \* its io thread: "connecting", "enter" or "loop"
    clientKey,   \* ClientPlayer::m_arrEncryptKey
    asked,       \* the client has sent C2FepEncryptInfo
    status,      \* of the ClientSession, "none" if there is none
    fepKey,      \* ClientSession::m_arrEncryptKey
    m_bWillClose,
    up, down,    \* messages under way: [type, key, info]
    nKeys, nSent, nRuns,
    nNotices,    \* notices the front end has had from the world server
    hasty,       \* the client sent something between asking and the answer (history)
    misread,     \* a message was read under another key (history)
    clientAborted

clientVars == <<main, io, clientKey, asked>>
sessionVars == <<status, fepKey, m_bWillClose>>
counts == <<nKeys, nSent, nRuns, nNotices>>
cipherVars == <<clientVars, sessionVars, up, down, counts, hasty, misread, clientAborted>>

None == "none"
EncryptDefualt == 0
UpTypes == {"PRO_C2F_ENCRYPT", "PRO_C2F_CLOSE", "PRO_C2W_SWITCH_SCENE"}
DownTypes == {"PRO_F2C_ENCRYPT_INFO", "PRO_F2C_LOGIN_READY_FINISH"}
KeyNumbers == 0 .. MaxRuns
Message(types) == [type : types, key : KeyNumbers, info : KeyNumbers]

CipherTypeOK ==
    /\ main \in {"start", "loop", "ended"} /\ io \in {"connecting", "enter", "loop"}
    /\ clientKey \in KeyNumbers /\ fepKey \in KeyNumbers
    /\ asked \in BOOLEAN /\ m_bWillClose \in BOOLEAN /\ hasty \in BOOLEAN /\ misread \in BOOLEAN
    /\ status \in {None, "CONNECTED", "ENCRYPTED", "NOTIFY_INITED"}
    /\ up \in Seq(Message(UpTypes)) /\ down \in Seq(Message(DownTypes))
    /\ nKeys \in KeyNumbers /\ nNotices \in KeyNumbers /\ nSent \in 0 .. MaxSent + MaxRuns + 1 /\ nRuns \in 1 .. MaxRuns
    /\ clientAborted \in {None, "GetClientPlayer", "OnNetMsg"}

CipherInit ==
    /\ main = "start" /\ io = "connecting" /\ clientKey = EncryptDefualt /\ asked = FALSE
    /\ status = None /\ fepKey = EncryptDefualt /\ m_bWillClose = FALSE
    /\ up = <<>> /\ down = <<>>
    /\ nKeys = 0 /\ nSent = 0 /\ nRuns = 1 /\ nNotices = 0
    /\ hasty = FALSE /\ misread = FALSE
    /\ clientAborted = None

----------------------------------------------------------------------------
(* The client.                                                             *)

(* A mutant: a message goes out under the first key for ever. *)
UpMessageMutant(type) == [type |-> type, key |-> EncryptDefualt, info |-> 0]

UpMessage(type) == [type |-> type, key |-> clientKey, info |-> 0]

(* ClientPlayer::SendMsg. *)
ClientSendMsg(type) ==
    /\ up' = IF status = None /\ io = "loop" THEN up ELSE Append(up, UpMessage(type))
    /\ asked' = (asked \/ type = "PRO_C2F_ENCRYPT")
    /\ hasty' = (hasty \/ (asked /\ clientKey = EncryptDefualt))
    /\ nSent' = nSent + 1

(* ClientInit: the io thread runs before AddSocket names the player. *)
AddSocket ==
    /\ main = "start"
    /\ main' = "loop"
    /\ UNCHANGED <<io, clientKey, asked, sessionVars, up, down, counts, hasty, misread, clientAborted>>

(* The connection: the front end takes it in, with a new ClientSession,    *)
(* and the client's io thread goes on to the connected callback.  The      *)
(* world server is there.                                                  *)
OnNetMsgEnter ==
    /\ io = "connecting" /\ status = None
    /\ io' = "enter"
    /\ status' = "CONNECTED" /\ fepKey' = EncryptDefualt /\ m_bWillClose' = FALSE
    /\ UNCHANGED <<main, clientKey, asked, up, down, counts, hasty, misread, clientAborted>>

SendEncrypt ==
    /\ io = "enter"
    /\ io' = "loop"
    /\ IF main = "start"
       THEN clientAborted' = "GetClientPlayer" /\ UNCHANGED <<asked, up, hasty, nSent>>
       ELSE ClientSendMsg("PRO_C2F_ENCRYPT") /\ UNCHANGED clientAborted
    /\ UNCHANGED <<main, clientKey, sessionVars, down, nKeys, nRuns, nNotices, misread>>

ClientSends(type) ==
    /\ main = "loop" /\ io = "loop" /\ nSent < MaxSent
    /\ ClientSendMsg(type)
    /\ UNCHANGED <<main, io, clientKey, sessionVars, down, nKeys, nRuns, nNotices, misread, clientAborted>>

(* The client's OnNetMsg: the message is decoded and handled; one that is  *)
(* not known stops it.                                                     *)
ClientOnNetMsg ==
    /\ main = "loop" /\ io = "loop" /\ down # <<>>
    /\ down' = Tail(down)
    /\ LET msg == Head(down)
       IN  \/ /\ msg.key # clientKey
              /\ clientAborted' = "OnNetMsg"
              /\ UNCHANGED <<clientKey, asked, up, hasty, nSent>>
           \/ /\ msg.key = clientKey /\ msg.type = "PRO_F2C_ENCRYPT_INFO"
              /\ clientKey' = msg.info
              /\ UNCHANGED <<asked, up, hasty, nSent, clientAborted>>
           \/ /\ msg.key = clientKey /\ msg.type = "PRO_F2C_LOGIN_READY_FINISH"
              /\ ClientSendMsg("PRO_C2W_SWITCH_SCENE")
              /\ UNCHANGED <<clientKey, clientAborted>>
    /\ UNCHANGED <<main, io, sessionVars, nKeys, nRuns, nNotices, misread>>

(* OnNetMsgExit ends the program when the front end has closed. *)
ClientExits ==
    /\ main = "loop" /\ io = "loop" /\ status = None
    /\ main' = "ended" /\ up' = <<>> /\ down' = <<>>
    /\ UNCHANGED <<io, clientKey, asked, sessionVars, counts, hasty, misread, clientAborted>>

(* The client is started again. *)
Restart ==
    /\ main = "ended" /\ nRuns < MaxRuns
    /\ nRuns' = nRuns + 1
    /\ main' = "start" /\ io' = "connecting" /\ clientKey' = EncryptDefualt
    /\ asked' = FALSE /\ hasty' = FALSE /\ misread' = FALSE /\ nSent' = 0
    /\ UNCHANGED <<sessionVars, up, down, nKeys, nNotices, clientAborted>>

----------------------------------------------------------------------------
(* The front end.                                                          *)

DownMessage(type, info) == [type |-> type, key |-> fepKey, info |-> info]

(* A mutant: the key is changed before the answer is sent. *)
ReqFepEncyptHandlerMutant ==
    IF status = "CONNECTED"
    THEN /\ nKeys' = nKeys + 1
         /\ fepKey' = nKeys'
         /\ down' = Append(down, [DownMessage("PRO_F2C_ENCRYPT_INFO", nKeys') EXCEPT !.key = fepKey'])
         /\ status' = "ENCRYPTED"
    ELSE UNCHANGED <<nKeys, fepKey, down, status>>

(* The answer goes out under the old key. *)
ReqFepEncyptHandler ==
    IF status = "CONNECTED"
    THEN /\ nKeys' = nKeys + 1
         /\ down' = Append(down, DownMessage("PRO_F2C_ENCRYPT_INFO", nKeys'))
         /\ fepKey' = nKeys'
         /\ status' = "ENCRYPTED"
    ELSE UNCHANGED <<nKeys, fepKey, down, status>>

(* What a message reads as under the key fepKey. *)
ReadsAs(msg) == IF msg.key = fepKey THEN {msg.type} ELSE UpTypes \cup {"unknown"}

(* OnNetMsg: a message of no known type ends the connection, as the        *)
(* client's own PRO_C2F_CLOSE does; SWITCH_SCENE goes on to the world.     *)
FepOnNetMsg ==
    /\ status # None /\ ~m_bWillClose /\ up # <<>>
    /\ up' = Tail(up)
    /\ misread' = (misread \/ Head(up).key # fepKey)
    /\ \E type \in ReadsAs(Head(up)) :
        /\ IF type = "PRO_C2F_ENCRYPT" THEN ReqFepEncyptHandler ELSE UNCHANGED <<nKeys, fepKey, down, status>>
        /\ m_bWillClose' = (type \in {"PRO_C2F_CLOSE", "unknown"})
    /\ UNCHANGED <<clientVars, nSent, nRuns, nNotices, hasty, clientAborted>>

(* NofityClientSessionInfo: the world server has placed the client of this *)
(* session, or one that had its ID before; it sends one notice for each    *)
(* request for a key.  A notice that finds no session ends the front end   *)
(* (ClientRoute!FepNotified).                                              *)
NofityClientSessionInfo ==
    /\ status # None /\ nNotices < nKeys
    /\ nNotices' = nNotices + 1
    /\ status' = "NOTIFY_INITED"
    /\ down' = Append(down, DownMessage("PRO_F2C_LOGIN_READY_FINISH", 0))
    /\ UNCHANGED <<clientVars, fepKey, m_bWillClose, up, nKeys, nSent, nRuns, hasty, misread, clientAborted>>

(* The connection is closed and the session removed; what the client has   *)
(* not read is lost.                                                       *)
FepOnNetMsgExit ==
    /\ status # None /\ m_bWillClose
    /\ status' = None /\ down' = <<>>
    /\ UNCHANGED <<clientVars, fepKey, m_bWillClose, up, counts, hasty, misread, clientAborted>>

----------------------------------------------------------------------------
CipherNext ==
    /\ clientAborted = None
    /\ \/ AddSocket \/ OnNetMsgEnter \/ SendEncrypt \/ ClientOnNetMsg \/ ClientExits \/ Restart
       \/ \E type \in UpTypes : ClientSends(type)
       \/ FepOnNetMsg \/ NofityClientSessionInfo \/ FepOnNetMsgExit

CipherSpec == CipherInit /\ [][CipherNext]_cipherVars

----------------------------------------------------------------------------
(* The client reads every message under the key it was written with, so    *)
(* that its OnNetMsg never meets an unknown one: the answer goes out       *)
(* before the key is changed (ForClientMsgHandler.cpp:182).                *)
ClientReads == clientAborted # "OnNetMsg"

(* The front end misreads a message only of a client that sent something   *)
(* between asking for the key and having it.                               *)
MisreadNeedsHaste == misread => hasty

=============================================================================
