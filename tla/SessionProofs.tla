---------------------------- MODULE SessionProofs ----------------------------
(***************************************************************************)
(* The session of a client, over two modules that share nothing.  The      *)
(* change of its key (ClientCipher): for any number of messages and runs   *)
(* the client reads all it is sent, and the front end misreads nothing but *)
(* the messages of a hasty client; what XorCode encodes it decodes.  Its   *)
(* route (ClientRoute): for any number of clients and servers, the login   *)
(* and data servers follow the world server through every version of their *)
(* share of its clients, as ClientDirectory promises.                      *)
(***************************************************************************)
EXTENDS MCClientCipher, ClientRoute, SequenceTheorems, FiniteSetTheorems, TLAPS

(* The change of a client's key.                                           *)

NumberedMessage(types) == [type : types, key : Nat, info : Nat]

KeysOK ==
    /\ clientKey \in Nat /\ fepKey \in Nat /\ nKeys \in Nat
    /\ up \in Seq(NumberedMessage(UpTypes)) /\ down \in Seq(NumberedMessage(DownTypes))
    /\ asked \in BOOLEAN /\ hasty \in BOOLEAN /\ misread \in BOOLEAN

(* How far the client is: it has neither sent nor read anything before its *)
(* connected callback, and its process outlives its session.               *)
ClientPhase ==
    /\ io \in {"connecting", "enter", "loop"}
    /\ io # "loop" => ~asked /\ up = <<>> /\ clientKey = EncryptDefualt
    /\ io = "connecting" => status = None
    /\ io = "enter" => status \in {"CONNECTED", "NOTIFY_INITED"} /\ fepKey = EncryptDefualt /\ ~m_bWillClose
    /\ (io = "loop" /\ clientAborted = None) => asked
    /\ main = "ended" => io = "loop" /\ status = None /\ up = <<>>

TheKey == [type |-> "PRO_F2C_ENCRYPT_INFO", key |-> EncryptDefualt, info |-> fepKey]
TheNotice == [type |-> "PRO_F2C_LOGIN_READY_FINISH", key |-> fepKey, info |-> 0]

(* What is on its way to the client fits the key it will hold when it      *)
(* reads it: notices under the key of both, or the new key first.          *)
DownInOrder ==
    /\ status \in {None, "CONNECTED", "ENCRYPTED", "NOTIFY_INITED"}
    /\ status = None => Len(down) = 0
    /\ status = "CONNECTED" => Len(down) = 0 /\ fepKey = EncryptDefualt /\ clientKey = EncryptDefualt
    /\ status # None =>
          \/ clientKey = fepKey /\ \A i \in 1 .. Len(down) : down[i] = TheNotice
          \/ /\ clientKey = EncryptDefualt /\ fepKey # EncryptDefualt /\ Len(down) >= 1 /\ down[1] = TheKey
             /\ \A i \in 2 .. Len(down) : down[i] = TheNotice

(* A client that waits for its key has one message under way at most, and  *)
(* all that are under way have the key of the front end.                   *)
UpInOrder ==
    (~hasty /\ status # None) =>
        /\ \A i \in 1 .. Len(up) : up[i].key = fepKey
        /\ status = "CONNECTED" => Len(up) <= 1

CipherInv == KeysOK /\ ClientPhase /\ DownInOrder /\ UpInOrder /\ ClientReads /\ MisreadNeedsHaste

-----------------------------------------------------------------------------
(* A queue after its first message is taken. *)
LEMMA TakeFirst ==
    ASSUME NEW S, NEW q \in Seq(S), q # <<>>
    PROVE  /\ Tail(q) \in Seq(S) /\ Head(q) = q[1] /\ Head(q) \in S
           /\ Len(q) \in Nat \ {0} /\ Len(Tail(q)) = Len(q) - 1
           /\ \A i \in 1 .. Len(Tail(q)) : Tail(q)[i] = q[i + 1]
  <1>1. Head(q) = q[1]
    OBVIOUS
  <1> QED
    BY <1>1, HeadTailProperties, EmptySeq

(* A queue behind which a message is put. *)
LEMMA PutLast ==
    ASSUME NEW S, NEW q \in Seq(S), NEW m \in S
    PROVE  /\ Append(q, m) \in Seq(S) /\ Len(q) \in Nat /\ Len(Append(q, m)) = Len(q) + 1
           /\ \A i \in 1 .. Len(q) : Append(q, m)[i] = q[i]
           /\ Append(q, m)[Len(q) + 1] = m
  BY AppendProperties, LenProperties

(* A queue without a message. *)
LEMMA NoMessages ==
    ASSUME NEW S
    PROVE  <<>> \in Seq(S) /\ Len(<<>>) = 0 /\ \A q \in Seq(S) : Len(q) = 0 <=> q = <<>>
  BY EmptySeq

(* The first state has the invariant. *)
LEMMA CipherInvInit == CipherInit => CipherInv
  <1> SUFFICES ASSUME CipherInit PROVE CipherInv
    OBVIOUS
  <1>1. up \in Seq(NumberedMessage(UpTypes)) /\ down \in Seq(NumberedMessage(DownTypes)) /\ Len(up) = 0 /\ Len(down) = 0
    BY NoMessages DEF CipherInit
  <1> QED
    BY <1>1 DEF CipherInit, CipherInv, KeysOK, ClientPhase, DownInOrder, UpInOrder, ClientReads, MisreadNeedsHaste,
       None, EncryptDefualt

(* The main thread goes on. *)
LEMMA AddSocketKeeps ==
    ASSUME CipherInv, clientAborted = None, AddSocket
    PROVE  CipherInv'
  <1>a. Len(<<>>) = 0
    BY NoMessages
  <1> USE <1>a, NoMessages DEF AddSocket, CipherInv, KeysOK, ClientPhase, DownInOrder, UpInOrder, ClientReads, MisreadNeedsHaste, None, EncryptDefualt, TheKey, TheNotice, clientVars, sessionVars, counts
  <1>1. KeysOK'
    OBVIOUS
  <1>2. ClientPhase'
    OBVIOUS
  <1>3. DownInOrder'
    OBVIOUS
  <1>4. UpInOrder'
    OBVIOUS
  <1>5. ClientReads' /\ MisreadNeedsHaste'
    OBVIOUS
  <1> QED
    BY <1>1, <1>2, <1>3, <1>4, <1>5

(* A new session begins under the first key. *)
LEMMA OnNetMsgEnterKeeps ==
    ASSUME CipherInv, clientAborted = None, OnNetMsgEnter
    PROVE  CipherInv'
  <1>a. Len(<<>>) = 0
    BY NoMessages
  <1> USE <1>a, NoMessages DEF OnNetMsgEnter, CipherInv, KeysOK, ClientPhase, DownInOrder, UpInOrder, ClientReads, MisreadNeedsHaste, None, EncryptDefualt, TheKey, TheNotice, clientVars, sessionVars, counts
  <1>1. KeysOK'
    OBVIOUS
  <1>2. ClientPhase'
    OBVIOUS
  <1>3. DownInOrder'
    OBVIOUS
  <1>4. UpInOrder'
    OBVIOUS
  <1>5. ClientReads' /\ MisreadNeedsHaste'
    OBVIOUS
  <1> QED
    BY <1>1, <1>2, <1>3, <1>4, <1>5

(* The request is the first message of a client, under the first key. *)
LEMMA SendEncryptKeeps ==
    ASSUME CipherInv, clientAborted = None, SendEncrypt
    PROVE  CipherInv'
  <1>a. UpMessage("PRO_C2F_ENCRYPT") \in NumberedMessage(UpTypes) /\ UpMessage("PRO_C2F_ENCRYPT").key = clientKey
    BY DEF CipherInv, KeysOK, UpMessage, NumberedMessage, UpTypes
  <1>b. /\ Append(up, UpMessage("PRO_C2F_ENCRYPT")) \in Seq(NumberedMessage(UpTypes))
        /\ Len(up) \in Nat /\ Len(Append(up, UpMessage("PRO_C2F_ENCRYPT"))) = Len(up) + 1
        /\ \A i \in 1 .. Len(up) : Append(up, UpMessage("PRO_C2F_ENCRYPT"))[i] = up[i]
        /\ Append(up, UpMessage("PRO_C2F_ENCRYPT"))[Len(up) + 1] = UpMessage("PRO_C2F_ENCRYPT")
    BY <1>a, PutLast DEF CipherInv, KeysOK
  <1> USE <1>a, <1>b, NoMessages DEF SendEncrypt, ClientSendMsg, CipherInv, KeysOK, ClientPhase, DownInOrder, UpInOrder, ClientReads, MisreadNeedsHaste, None, EncryptDefualt, TheKey, TheNotice, clientVars, sessionVars, counts
  <1>1. KeysOK'
    OBVIOUS
  <1>2. ClientPhase'
    OBVIOUS
  <1>3. DownInOrder'
    OBVIOUS
  <1>4. UpInOrder'
    <2> SUFFICES ASSUME ~hasty', status' # None
                 PROVE  /\ \A i \in 1 .. Len(up)' : up'[i].key = fepKey'
                        /\ status' = "CONNECTED" => Len(up)' <= 1
      OBVIOUS
    <2>1. CASE up' = up /\ ~hasty
      BY <2>1
    <2>2. CASE up' = Append(up, UpMessage("PRO_C2F_ENCRYPT")) /\ ~hasty
      <3>1. clientKey = fepKey /\ (status = "CONNECTED" => Len(up) = 0)
        BY <2>2
      <3>2. \A i \in 1 .. Len(up) + 1 : i \in 1 .. Len(up) \/ i = Len(up) + 1
        BY <1>b
      <3>3. \A i \in 1 .. Len(up) : Append(up, UpMessage("PRO_C2F_ENCRYPT"))[i].key = fepKey
        BY <1>b, <2>2
      <3>4. Append(up, UpMessage("PRO_C2F_ENCRYPT"))[Len(up) + 1].key = fepKey
        BY <1>a, <1>b, <3>1
      <3> QED
        BY <1>b, <2>2, <3>1, <3>2, <3>3, <3>4
    <2>3. ~hasty /\ (up' = up \/ up' = Append(up, UpMessage("PRO_C2F_ENCRYPT")))
      OBVIOUS
    <2> QED
      BY <2>1, <2>2, <2>3
  <1>5. ClientReads' /\ MisreadNeedsHaste'
    OBVIOUS
  <1> QED
    BY <1>1, <1>2, <1>3, <1>4, <1>5

(* A client that sends before it has its key is hasty. *)
LEMMA ClientSendsKeeps ==
    ASSUME CipherInv, clientAborted = None, NEW type \in UpTypes, ClientSends(type)
    PROVE  CipherInv'
  <1>a. UpMessage(type) \in NumberedMessage(UpTypes) /\ UpMessage(type).key = clientKey
    BY DEF CipherInv, KeysOK, UpMessage, NumberedMessage, UpTypes
  <1>b. /\ Append(up, UpMessage(type)) \in Seq(NumberedMessage(UpTypes))
        /\ Len(up) \in Nat /\ Len(Append(up, UpMessage(type))) = Len(up) + 1
        /\ \A i \in 1 .. Len(up) : Append(up, UpMessage(type))[i] = up[i]
        /\ Append(up, UpMessage(type))[Len(up) + 1] = UpMessage(type)
    BY <1>a, PutLast DEF CipherInv, KeysOK
  <1> USE <1>a, <1>b, NoMessages DEF ClientSends, ClientSendMsg, CipherInv, KeysOK, ClientPhase, DownInOrder, UpInOrder, ClientReads, MisreadNeedsHaste, None, EncryptDefualt, TheKey, TheNotice, clientVars, sessionVars, counts
  <1>1. KeysOK'
    OBVIOUS
  <1>2. ClientPhase'
    OBVIOUS
  <1>3. DownInOrder'
    OBVIOUS
  <1>4. UpInOrder'
    <2> SUFFICES ASSUME ~hasty', status' # None
                 PROVE  /\ \A i \in 1 .. Len(up)' : up'[i].key = fepKey'
                        /\ status' = "CONNECTED" => Len(up)' <= 1
      OBVIOUS
    <2>1. CASE up' = up /\ ~hasty
      BY <2>1
    <2>2. CASE up' = Append(up, UpMessage(type)) /\ ~hasty
      <3>1. clientKey = fepKey /\ (status = "CONNECTED" => Len(up) = 0)
        BY <2>2
      <3>2. \A i \in 1 .. Len(up) + 1 : i \in 1 .. Len(up) \/ i = Len(up) + 1
        BY <1>b
      <3>3. \A i \in 1 .. Len(up) : Append(up, UpMessage(type))[i].key = fepKey
        BY <1>b, <2>2
      <3>4. Append(up, UpMessage(type))[Len(up) + 1].key = fepKey
        BY <1>a, <1>b, <3>1
      <3> QED
        BY <1>b, <2>2, <3>1, <3>2, <3>3, <3>4
    <2>3. ~hasty /\ (up' = up \/ up' = Append(up, UpMessage(type)))
      OBVIOUS
    <2> QED
      BY <2>1, <2>2, <2>3
  <1>5. ClientReads' /\ MisreadNeedsHaste'
    OBVIOUS
  <1> QED
    BY <1>1, <1>2, <1>3, <1>4, <1>5

(* The client reads what it can decode, and changes its key. *)
LEMMA ClientOnNetMsgKeeps ==
    ASSUME CipherInv, clientAborted = None, ClientOnNetMsg
    PROVE  CipherInv'
  <1>a. UpMessage("PRO_C2W_SWITCH_SCENE") \in NumberedMessage(UpTypes) /\ UpMessage("PRO_C2W_SWITCH_SCENE").key = clientKey
    BY DEF CipherInv, KeysOK, UpMessage, NumberedMessage, UpTypes
  <1>b. /\ Append(up, UpMessage("PRO_C2W_SWITCH_SCENE")) \in Seq(NumberedMessage(UpTypes))
        /\ Len(up) \in Nat /\ Len(Append(up, UpMessage("PRO_C2W_SWITCH_SCENE"))) = Len(up) + 1
        /\ \A i \in 1 .. Len(up) : Append(up, UpMessage("PRO_C2W_SWITCH_SCENE"))[i] = up[i]
        /\ Append(up, UpMessage("PRO_C2W_SWITCH_SCENE"))[Len(up) + 1] = UpMessage("PRO_C2W_SWITCH_SCENE")
    BY <1>a, PutLast DEF CipherInv, KeysOK
  <1>c. /\ Tail(down) \in Seq(NumberedMessage(DownTypes)) /\ Head(down) = down[1] /\ Head(down) \in NumberedMessage(DownTypes)
        /\ Len(down) \in Nat \ {0} /\ Len(Tail(down)) = Len(down) - 1
        /\ \A i \in 1 .. Len(Tail(down)) : Tail(down)[i] = down[i + 1]
    BY TakeFirst DEF CipherInv, KeysOK, ClientOnNetMsg
  <1>d. down # <<>> /\ Len(down) \in Nat \ {0}
    BY <1>c DEF ClientOnNetMsg
  <1>e. io = "loop" /\ main = "loop" /\ asked /\ status \in {"ENCRYPTED", "NOTIFY_INITED"}
    BY <1>d DEF ClientOnNetMsg, CipherInv, ClientPhase, DownInOrder
  <1> DEFINE msg == Head(down)
  <1>f. \/ /\ clientKey = EncryptDefualt /\ fepKey # EncryptDefualt /\ msg = TheKey
           /\ \A i \in 2 .. Len(down) : down[i] = TheNotice
        \/ clientKey = fepKey /\ \A i \in 1 .. Len(down) : down[i] = TheNotice
    BY <1>c, <1>e DEF CipherInv, DownInOrder, None
  <1>1. CASE /\ clientKey = EncryptDefualt /\ fepKey # EncryptDefualt /\ msg = TheKey
             /\ \A i \in 2 .. Len(down) : down[i] = TheNotice
    <2>1. clientKey' = fepKey /\ down' = Tail(down) /\ UNCHANGED <<main, io, asked, sessionVars, up, hasty, misread, clientAborted, nKeys>>
      BY <1>1 DEF ClientOnNetMsg, TheKey, sessionVars
    <2>2. KeysOK' /\ ClientPhase'
      BY <1>c, <1>d, <1>e, <2>1 DEF CipherInv, KeysOK, ClientPhase, sessionVars
    <2>3. DownInOrder'
      <3>1. \A i \in 1 .. Len(down') : down'[i] = TheNotice
        BY <1>c, <1>1, <2>1
      <3> QED  BY <1>e, <2>1, <3>1 DEF DownInOrder, sessionVars, TheNotice, None
    <2>4. UpInOrder' /\ ClientReads' /\ MisreadNeedsHaste'
      BY <2>1 DEF CipherInv, UpInOrder, ClientReads, MisreadNeedsHaste, sessionVars
    <2> QED
      BY <2>2, <2>3, <2>4 DEF CipherInv
  <1>2. CASE clientKey = fepKey /\ \A i \in 1 .. Len(down) : down[i] = TheNotice
    <2>0. msg = TheNotice
      BY <1>c, <1>2
    <2>1. /\ ClientSendMsg("PRO_C2W_SWITCH_SCENE")
          /\ UNCHANGED <<main, io, clientKey, sessionVars, misread, clientAborted, nKeys>> /\ down' = Tail(down)
      BY <1>2, <2>0 DEF ClientOnNetMsg, TheNotice, sessionVars
    <2>2. /\ up' = Append(up, UpMessage("PRO_C2W_SWITCH_SCENE")) /\ asked'
          /\ hasty' = (hasty \/ fepKey = EncryptDefualt)
      BY <1>e, <1>2, <2>1 DEF ClientSendMsg, None, CipherInv, KeysOK
    <2>3. KeysOK' /\ ClientPhase'
      BY <1>b, <1>c, <1>d, <1>e, <2>1, <2>2 DEF CipherInv, KeysOK, ClientPhase, sessionVars
    <2>4. DownInOrder'
      <3>1. \A i \in 1 .. Len(down') : down'[i] = TheNotice
        BY <1>c, <1>2, <2>1
      <3> QED  BY <1>e, <1>2, <2>1, <3>1 DEF DownInOrder, sessionVars, TheNotice, None
    <2>5. UpInOrder'
      <3>1. \A i \in 1 .. Len(up) + 1 : i \in 1 .. Len(up) \/ i = Len(up) + 1
        BY <1>b
      <3>2. ~hasty => \A i \in 1 .. Len(up) + 1 : Append(up, UpMessage("PRO_C2W_SWITCH_SCENE"))[i].key = fepKey
        BY <1>a, <1>b, <1>e, <1>2, <3>1 DEF CipherInv, UpInOrder, None
      <3> QED
        BY <1>b, <1>e, <2>1, <2>2, <3>2 DEF UpInOrder, sessionVars
    <2>6. ClientReads' /\ MisreadNeedsHaste'
      BY <2>1, <2>2 DEF CipherInv, ClientReads, MisreadNeedsHaste
    <2> QED
      BY <2>3, <2>4, <2>5, <2>6 DEF CipherInv
  <1> QED
    BY <1>f, <1>1, <1>2

(* A client that ends has no session left. *)
LEMMA ClientExitsKeeps ==
    ASSUME CipherInv, clientAborted = None, ClientExits
    PROVE  CipherInv'
  <1>a. <<>> \in Seq(NumberedMessage(UpTypes)) /\ <<>> \in Seq(NumberedMessage(DownTypes)) /\ Len(<<>>) = 0
    BY NoMessages
  <1> USE <1>a, NoMessages DEF ClientExits, CipherInv, KeysOK, ClientPhase, DownInOrder, UpInOrder, ClientReads, MisreadNeedsHaste, None, EncryptDefualt, TheKey, TheNotice, clientVars, sessionVars, counts
  <1>1. KeysOK'
    OBVIOUS
  <1>2. ClientPhase'
    OBVIOUS
  <1>3. DownInOrder'
    OBVIOUS
  <1>4. UpInOrder'
    OBVIOUS
  <1>5. ClientReads' /\ MisreadNeedsHaste'
    OBVIOUS
  <1> QED
    BY <1>1, <1>2, <1>3, <1>4, <1>5

(* A client that starts again is as it was at first. *)
LEMMA RestartKeeps ==
    ASSUME CipherInv, clientAborted = None, Restart
    PROVE  CipherInv'
  <1>a. Len(<<>>) = 0
    BY NoMessages
  <1> USE <1>a, NoMessages DEF Restart, CipherInv, KeysOK, ClientPhase, DownInOrder, UpInOrder, ClientReads, MisreadNeedsHaste, None, EncryptDefualt, TheKey, TheNotice, clientVars, sessionVars, counts
  <1>1. KeysOK'
    OBVIOUS
  <1>2. ClientPhase'
    OBVIOUS
  <1>3. DownInOrder'
    OBVIOUS
  <1>4. UpInOrder'
    OBVIOUS
  <1>5. ClientReads' /\ MisreadNeedsHaste'
    OBVIOUS
  <1> QED
    BY <1>1, <1>2, <1>3, <1>4, <1>5

(* The front end answers a client once, and then has the new key. *)
LEMMA FepOnNetMsgKeeps ==
    ASSUME CipherInv, clientAborted = None, FepOnNetMsg
    PROVE  CipherInv'
  <1>a. /\ Tail(up) \in Seq(NumberedMessage(UpTypes)) /\ Head(up) = up[1] /\ Head(up) \in NumberedMessage(UpTypes)
        /\ Len(up) \in Nat \ {0} /\ Len(Tail(up)) = Len(up) - 1
        /\ \A i \in 1 .. Len(Tail(up)) : Tail(up)[i] = up[i + 1]
    BY TakeFirst DEF CipherInv, KeysOK, FepOnNetMsg
  <1>b. DownMessage("PRO_F2C_ENCRYPT_INFO", nKeys + 1) \in NumberedMessage(DownTypes)
    BY DEF CipherInv, KeysOK, DownMessage, NumberedMessage, DownTypes
  <1>c. /\ Append(down, DownMessage("PRO_F2C_ENCRYPT_INFO", nKeys + 1)) \in Seq(NumberedMessage(DownTypes))
        /\ Len(down) \in Nat /\ Len(Append(down, DownMessage("PRO_F2C_ENCRYPT_INFO", nKeys + 1))) = Len(down) + 1
        /\ \A i \in 1 .. Len(down) : Append(down, DownMessage("PRO_F2C_ENCRYPT_INFO", nKeys + 1))[i] = down[i]
        /\ Append(down, DownMessage("PRO_F2C_ENCRYPT_INFO", nKeys + 1))[Len(down) + 1] = DownMessage("PRO_F2C_ENCRYPT_INFO", nKeys + 1)
    BY <1>b, PutLast DEF CipherInv, KeysOK
  <1> USE <1>a, <1>b, <1>c, NoMessages DEF FepOnNetMsg, ReqFepEncyptHandler, DownMessage, CipherInv, KeysOK, ClientPhase, DownInOrder, UpInOrder, ClientReads, MisreadNeedsHaste, None, EncryptDefualt, TheKey, TheNotice, clientVars, sessionVars, counts
  <1>1. KeysOK'
    OBVIOUS
  <1>2. ClientPhase'
    OBVIOUS
  <1>3. DownInOrder'
    <2>1. CASE UNCHANGED <<nKeys, fepKey, down, status>>
      BY <2>1
    <2>2. CASE ReqFepEncyptHandler /\ status = "CONNECTED"
      <3>1. /\ status' = "ENCRYPTED" /\ fepKey' = nKeys + 1 /\ clientKey' = EncryptDefualt
            /\ down' = Append(down, DownMessage("PRO_F2C_ENCRYPT_INFO", nKeys + 1))
            /\ Len(down) = 0 /\ fepKey = EncryptDefualt
        BY <2>2
      <3>2. Len(down)' = 1 /\ down'[1] = DownMessage("PRO_F2C_ENCRYPT_INFO", nKeys + 1)
        BY <1>c, <3>1
      <3> QED
        BY <3>1, <3>2
    <2> QED
      BY <2>1, <2>2
  <1>4. UpInOrder'
    OBVIOUS
  <1>5. ClientReads' /\ MisreadNeedsHaste'
    OBVIOUS
  <1> QED
    BY <1>1, <1>2, <1>3, <1>4, <1>5

(* A notice goes out under the key of the session. *)
LEMMA NofityClientSessionInfoKeeps ==
    ASSUME CipherInv, clientAborted = None, NofityClientSessionInfo
    PROVE  CipherInv'
  <1>a. DownMessage("PRO_F2C_LOGIN_READY_FINISH", 0) \in NumberedMessage(DownTypes)
    BY DEF CipherInv, KeysOK, DownMessage, NumberedMessage, DownTypes
  <1>b. /\ Append(down, DownMessage("PRO_F2C_LOGIN_READY_FINISH", 0)) \in Seq(NumberedMessage(DownTypes))
        /\ Len(down) \in Nat /\ Len(Append(down, DownMessage("PRO_F2C_LOGIN_READY_FINISH", 0))) = Len(down) + 1
        /\ \A i \in 1 .. Len(down) : Append(down, DownMessage("PRO_F2C_LOGIN_READY_FINISH", 0))[i] = down[i]
        /\ Append(down, DownMessage("PRO_F2C_LOGIN_READY_FINISH", 0))[Len(down) + 1] = DownMessage("PRO_F2C_LOGIN_READY_FINISH", 0)
    BY <1>a, PutLast DEF CipherInv, KeysOK
  <1> USE <1>a, <1>b, NoMessages DEF NofityClientSessionInfo, DownMessage, CipherInv, KeysOK, ClientPhase, DownInOrder, UpInOrder, ClientReads, MisreadNeedsHaste, None, EncryptDefualt, TheKey, TheNotice, clientVars, sessionVars, counts
  <1>1. KeysOK'
    OBVIOUS
  <1>2. ClientPhase'
    OBVIOUS
  <1>3. DownInOrder'
    BY SMTT(30)
  <1>4. UpInOrder'
    OBVIOUS
  <1>5. ClientReads' /\ MisreadNeedsHaste'
    OBVIOUS
  <1> QED
    BY <1>1, <1>2, <1>3, <1>4, <1>5

(* A session that ends loses what was not read. *)
LEMMA FepOnNetMsgExitKeeps ==
    ASSUME CipherInv, clientAborted = None, FepOnNetMsgExit
    PROVE  CipherInv'
  <1>a. <<>> \in Seq(NumberedMessage(UpTypes)) /\ <<>> \in Seq(NumberedMessage(DownTypes)) /\ Len(<<>>) = 0
    BY NoMessages
  <1> USE <1>a, NoMessages DEF FepOnNetMsgExit, CipherInv, KeysOK, ClientPhase, DownInOrder, UpInOrder, ClientReads, MisreadNeedsHaste, None, EncryptDefualt, TheKey, TheNotice, clientVars, sessionVars, counts
  <1>1. KeysOK'
    OBVIOUS
  <1>2. ClientPhase'
    OBVIOUS
  <1>3. DownInOrder'
    OBVIOUS
  <1>4. UpInOrder'
    OBVIOUS
  <1>5. ClientReads' /\ MisreadNeedsHaste'
    OBVIOUS
  <1> QED
    BY <1>1, <1>2, <1>3, <1>4, <1>5

(* No step of the client or of the front end breaks it. *)
LEMMA CipherInvStep == CipherInv /\ [CipherNext]_cipherVars => CipherInv'
  <1> SUFFICES ASSUME CipherInv, [CipherNext]_cipherVars PROVE CipherInv'
    OBVIOUS
  <1>1. CASE UNCHANGED cipherVars
    BY <1>1 DEF cipherVars, clientVars, sessionVars, counts, CipherInv, KeysOK, ClientPhase, DownInOrder, UpInOrder,
       ClientReads, MisreadNeedsHaste, TheKey, TheNotice
  <1>2. CASE CipherNext
    BY <1>2, AddSocketKeeps, OnNetMsgEnterKeeps, SendEncryptKeeps, ClientSendsKeeps, ClientOnNetMsgKeeps,
       ClientExitsKeeps, RestartKeeps, FepOnNetMsgKeeps, NofityClientSessionInfoKeeps, FepOnNetMsgExitKeeps
    DEF CipherNext
  <1> QED
    BY <1>1, <1>2

(* The inductive invariant holds in every reachable state. *)
THEOREM CipherInvariant == CipherSpec => []CipherInv
  BY CipherInvInit, CipherInvStep, PTL DEF CipherSpec

(* ForClientMsgHandler.cpp:182: what the front end sends, the client can   *)
(* decode when it reads it.                                                *)
THEOREM ClientAlwaysReads == CipherSpec => []ClientReads
  <1>1. CipherInv => ClientReads
    BY DEF CipherInv
  <1> QED
    BY <1>1, CipherInvariant, PTL

(* ForClientMsgHandler.cpp:101: only a client that sent between asking for *)
(* its key and having it is misread.                                       *)
THEOREM OnlyHastyMisread == CipherSpec => []MisreadNeedsHaste
  <1>1. CipherInv => MisreadNeedsHaste
    BY DEF CipherInv
  <1> QED
    BY <1>1, CipherInvariant, PTL

-----------------------------------------------------------------------------
(* What the key does to a message.                                         *)

(* A mask is taken off by being put on again. *)
LEMMA XorTwice ==
    ASSUME NEW byte, NEW mask
    PROVE  XorByte(XorByte(byte, mask), mask) = byte
  BY DEF XorByte

LEMMA CodedTwice ==
    ASSUME NEW n, NEW key, NEW nRandNum, NEW src \in [0 .. n - 1 -> Bytes]
    PROVE  Encoded(nRandNum, key, Encoded(nRandNum, key, src, n), n) = src
  <1> DEFINE once == Encoded(nRandNum, key, src, n)
             twice == Encoded(nRandNum, key, once, n)
  <1>1. \A p \in 0 .. n - 1 : once[p] = XorByte(src[p], Mask(nRandNum, key, n, p))
    BY DEF Encoded
  <1> HIDE DEF once
  <1>2. twice = [p \in 0 .. n - 1 |-> XorByte(once[p], Mask(nRandNum, key, n, p))]
    BY DEF Encoded
  <1> HIDE DEF twice
  <1>3. \A p \in 0 .. n - 1 : twice[p] = src[p]
    BY <1>1, <1>2, XorTwice
  <1>4. twice = src
    BY <1>2, <1>3
  <1> QED
    BY <1>4 DEF twice, once

(* A word that the key is read at begins where a word of the key does.     *)
LEMMA KeyReadInside ==
    ASSUME NEW n \in Nat, NEW p \in 0 .. n - 1,
           NEW i, i = IF p < n - (n % Word) THEN p - (p % Word) ELSE p
    PROVE  KeyIndex(i) + (p - i) \in 0 .. KeyLength - 1
  <1>1. p \in Nat
    OBVIOUS
  <1>2. CASE p < n - (n % Word)
    <2>1. i = p - (p % 4)
      BY <1>2 DEF Word
    <2>2. PICK q \in Int : p = 4 * q + (p % 4) /\ p % 4 \in 0 .. 3
      BY <1>1
    <2>3. i = 4 * q /\ p - i = p % 4 /\ q \in Int
      BY <1>1, <2>1, <2>2
    <2>4. (4 * q) % 32 \in 0 .. 28
      BY <2>3
    <2> QED
      BY <2>2, <2>3, <2>4 DEF KeyIndex, KeyLength
  <1>3. CASE ~(p < n - (n % Word))
    BY <1>1, <1>3 DEF KeyIndex, KeyLength
  <1> QED
    BY <1>2, <1>3

(* XorCode with the same key, number and length undoes itself, for every   *)
(* key and every message, of any length, words and single bytes alike; and *)
(* it reads no byte behind the key: what it makes of bytes are bytes.      *)
THEOREM XorCodeRestores ==
    ASSUME NEW n \in Nat, NEW key \in [0 .. KeyLength - 1 -> Bytes], NEW nRandNum \in Nat,
           NEW src \in [0 .. n - 1 -> Bytes]
    PROVE  /\ Encoded(nRandNum, key, Encoded(nRandNum, key, src, n), n) = src
           /\ Encoded(nRandNum, key, src, n) \in [0 .. n - 1 -> Bytes]
  <1>1. ASSUME NEW p \in 0 .. n - 1 PROVE Mask(nRandNum, key, n, p) \in Bytes
    <2> DEFINE i == IF p < n - (n % Word) THEN p - (p % Word) ELSE p
    <2>1. KeyIndex(i) + (p - i) \in 0 .. KeyLength - 1
      BY KeyReadInside
    <2>2. PositionByte(nRandNum, i, p - i) \in Bytes
      BY DEF PositionByte, ByteOf, Bytes
    <2>3. Mask(nRandNum, key, n, p) = XorByte(key[KeyIndex(i) + (p - i)], PositionByte(nRandNum, i, p - i))
      BY DEF Mask
    <2> HIDE DEF i
    <2> QED
      BY <2>1, <2>2, <2>3 DEF XorByte, Bytes
  <1>2. Encoded(nRandNum, key, src, n) \in [0 .. n - 1 -> Bytes]
    BY <1>1 DEF Encoded, XorByte, Bytes
  <1> QED
    BY <1>2, CodedTwice

(* In every run, what one side encodes with the key of the session the     *)
(* other gets back (ClientSession::SendMsg, ClientPlayer::SendMsg).        *)
THEOREM KeyRestores == CipherSpec => []CodeRestores
  <1>1. ASSUME NEW n, NEW key PROVE Restores(key, Sample(n), n)
    <2>1. Sample(n) \in [0 .. n - 1 -> Bytes]
      BY DEF Sample, ByteOf, Bytes
    <2> QED
      BY <2>1, CodedTwice DEF Restores
  <1>2. CodeRestores
    BY <1>1 DEF CodeRestores
  <1> QED
    BY <1>2, PTL

-----------------------------------------------------------------------------
(***************************************************************************)
(* The route of a client.  Of one session ID, a server and its link hold a *)
(* session, then its exit, then the next placement, and so on.             *)
(***************************************************************************)

\* The i-th message names the client; for i = 0, a session held does.
Begins(owns, link, i, c) ==
    IF i = 0 THEN c \in owns ELSE ~IsExit(link[i]) /\ link[i].client = c

\* After the first n messages the client has a session.
IsOpen(owns, link, n, c) ==
    \E i \in 0 .. n :
        /\ Begins(owns, link, i, c)
        /\ \A j \in i + 1 .. n : ~(IsExit(link[j]) /\ link[j].client = c)

HeldBy(sessions) == {s.client : s \in sessions}

\* An exit ends a session there is, and a placement finds none.
Alternates(owns, link) ==
    \A k \in 1 .. Len(link) : IsExit(link[k]) <=> IsOpen(owns, link, k - 1, link[k].client)

\* A front end may announce an exit that ends nothing, and the ASSERT of the
\* world server ends that process; but it asks for a place once per session.
AsksOnce(f) ==
    /\ \A k \in 1 .. Len(f2w[f]) :
          ~IsExit(f2w[f][k]) => ~IsOpen(HeldBy(wsClients), f2w[f], k - 1, f2w[f][k].client)
    /\ \A c \in Clients : fepStatus[f][c] \in {"NONE", "CONNECTED"}
          => ~IsOpen(HeldBy(wsClients), f2w[f], Len(f2w[f]), c)

LsMirrors(l) ==
    /\ Alternates(HeldBy(lsClients[l]), w2l[l])
    /\ LsWillHold(l) = {LsSession(s) : s \in {t \in wsClients : t.ls = l}}

DpMirrors(d) ==
    /\ Alternates(HeldBy(dpClients[d]), w2d[d])
    /\ DpWillHold(d) = {DpSession(s) : s \in {t \in wsClients : t.dp = d}}

\* No ASSERT of a login or a data server has failed.
NeverDown == aborted \notin {"LsNotify", "LsExit", "DpNotify", "DpExit"}
\* With one front end, the world server is asked to place no client twice.
OneFrontEnd == \E f \in Feps : Feps = {f}
PlacedOnce == OneFrontEnd => aborted # "WsLoad"

RouteInv ==
    /\ RouteTypeOK
    /\ \A l \in Ls : LsMirrors(l)
    /\ \A d \in Dps : DpMirrors(d)
    /\ OneFrontEnd => \A f \in Feps : AsksOnce(f)
    /\ NeverDown
    /\ PlacedOnce

-----------------------------------------------------------------------------
\* What the server knows of sessions, once it has taken the message.
Taken(owns, msg) == IF IsExit(msg) THEN owns \ {msg.client} ELSE owns \cup {msg.client}

(* A message at the end changes nothing before it.                              *)
LEMMA OpenBefore ==
    ASSUME NEW S, NEW link \in Seq(S), NEW msg \in S, NEW owns, NEW c,
           NEW n \in 0 .. Len(link)
    PROVE  IsOpen(owns, Append(link, msg), n, c) <=> IsOpen(owns, link, n, c)
  <1>1. \A i \in 1 .. n : Append(link, msg)[i] = link[i]
    BY AppendProperties
  <1>2. \A i \in 0 .. n : Begins(owns, Append(link, msg), i, c) <=> Begins(owns, link, i, c)
    BY <1>1 DEF Begins
  <1>3. \A i \in 0 .. n : \A j \in i + 1 .. n : Append(link, msg)[j] = link[j]
    BY <1>1
  <1> QED
    BY <1>2, <1>3 DEF IsOpen

(* The last message of a client decides.                                       *)
LEMMA OpenAfter ==
    ASSUME NEW S, NEW link \in Seq(S), NEW msg \in S, NEW owns, NEW c
    PROVE  IsOpen(owns, Append(link, msg), Len(link) + 1, c)
             <=> IF msg.client = c THEN ~IsExit(msg) ELSE IsOpen(owns, link, Len(link), c)
  <1> DEFINE N == Len(link)
             new == Append(link, msg)
  <1>1. N \in Nat /\ \A i \in 1 .. N : new[i] = link[i]
    BY AppendProperties
  <1>2. new[N + 1] = msg
    BY AppendProperties
  <1>3. \A i \in 0 .. N : Begins(owns, new, i, c) <=> Begins(owns, link, i, c)
    BY <1>1 DEF Begins
  <1>4. Begins(owns, new, N + 1, c) <=> ~IsExit(msg) /\ msg.client = c
    BY <1>1, <1>2 DEF Begins
  <1> HIDE DEF N, new
  <1>5. CASE msg.client = c /\ ~IsExit(msg)
    <2>1. Begins(owns, new, N + 1, c)
      BY <1>4, <1>5
    <2>2. N + 1 \in 0 .. N + 1 /\ \A j \in N + 2 .. N + 1 : FALSE
      BY <1>1
    <2>3. IsOpen(owns, new, N + 1, c)
      BY <2>1, <2>2, <1>1 DEF IsOpen
    <2> QED
      BY <1>5, <2>3 DEF N, new
  <1>6. CASE msg.client = c /\ IsExit(msg)
    <2>1. \A i \in 0 .. N : N + 1 \in i + 1 .. N + 1
      BY <1>1
    <2>2. \A i \in 0 .. N + 1 : i \in 0 .. N \/ i = N + 1
      BY <1>1
    <2>3. ~IsOpen(owns, new, N + 1, c)
      BY <1>6, <1>2, <1>4, <2>1, <2>2 DEF IsOpen
    <2> QED
      BY <1>6, <2>3 DEF N, new
  <1>7. CASE msg.client # c
    <2>1. ~Begins(owns, new, N + 1, c)
      BY <1>4, <1>7
    <2>2. \A i \in 0 .. N : (\A j \in i + 1 .. N + 1 : ~(IsExit(new[j]) /\ new[j].client = c))
                              <=> \A j \in i + 1 .. N : ~(IsExit(link[j]) /\ link[j].client = c)
      <3> TAKE i \in 0 .. N
      <3>1. \A j \in i + 1 .. N + 1 : j = N + 1 \/ j \in i + 1 .. N
        BY <1>1
      <3>2. \A j \in i + 1 .. N : j \in i + 1 .. N + 1 /\ j \in 1 .. N
        BY <1>1
      <3> QED
        BY <1>1, <1>2, <1>7, <3>1, <3>2
    <2>3. \A i \in 0 .. N + 1 : i \in 0 .. N \/ i = N + 1
      BY <1>1
    <2>4. \A i \in 0 .. N : i \in 0 .. N + 1
      BY <1>1
    <2>5. IsOpen(owns, new, N + 1, c) <=> IsOpen(owns, link, N, c)
      BY <1>3, <2>1, <2>2, <2>3, <2>4 DEF IsOpen
    <2> QED
      BY <1>7, <2>5 DEF N, new
  <1> QED
    BY <1>5, <1>6, <1>7

(* A message taken from the front counts among the sessions held.               *)
LEMMA OpenTail ==
    ASSUME NEW S, NEW link \in Seq(S), link # <<>>, NEW owns, NEW c,
           NEW n \in 0 .. Len(link) - 1
    PROVE  IsOpen(Taken(owns, Head(link)), Tail(link), n, c) <=> IsOpen(owns, link, n + 1, c)
  <1> DEFINE h == link[1]
             t == Tail(link)
             Quiet(i) == \A j \in i + 1 .. n + 1 : ~(IsExit(link[j]) /\ link[j].client = c)
             QuietT(i) == \A j \in i + 1 .. n : ~(IsExit(t[j]) /\ t[j].client = c)
  <1>1. Head(link) = h /\ n \in Nat /\ Len(link) \in Nat /\ \A i \in 1 .. n : t[i] = link[i + 1]
    <2>1. Head(link) = h /\ Len(t) = Len(link) - 1 /\ \A i \in 1 .. Len(t) : t[i] = link[i + 1]
      BY HeadTailProperties
    <2>2. Len(link) \in Nat /\ n \in Nat /\ n =< Len(link) - 1
      BY LenProperties
    <2>3. \A i \in 1 .. n : i \in 1 .. Len(t)
      BY <2>1, <2>2
    <2> QED
      BY <2>1, <2>2, <2>3
  <1>2. \A i \in 1 .. n : Begins(Taken(owns, h), t, i, c) <=> Begins(owns, link, i + 1, c)
    BY <1>1 DEF Begins
  <1>3. \A i \in 0 .. n : QuietT(i) <=> Quiet(i + 1)
    <2> TAKE i \in 0 .. n
    <2>1. ASSUME QuietT(i), NEW j \in (i + 1) + 1 .. n + 1
          PROVE  ~(IsExit(link[j]) /\ link[j].client = c)
      <3>1. j - 1 \in i + 1 .. n /\ j - 1 \in 1 .. n /\ (j - 1) + 1 = j
        BY <1>1
      <3> QED
        BY <1>1, <2>1, <3>1
    <2>2. ASSUME Quiet(i + 1), NEW j \in i + 1 .. n
          PROVE  ~(IsExit(t[j]) /\ t[j].client = c)
      <3>1. j + 1 \in (i + 1) + 1 .. n + 1 /\ j \in 1 .. n
        BY <1>1
      <3> QED
        BY <1>1, <2>2, <3>1
    <2> QED
      BY <2>1, <2>2
  <1>4. Quiet(0) <=> ~(IsExit(h) /\ h.client = c) /\ Quiet(1)
    <2>1. \A j \in 1 .. n + 1 : j = 1 \/ j \in 2 .. n + 1
      BY <1>1
    <2>2. \A j \in 2 .. n + 1 : j \in 1 .. n + 1
      BY <1>1
    <2>3. 1 \in 1 .. n + 1
      BY <1>1
    <2> QED
      BY <2>1, <2>2, <2>3
  <1>5. Begins(Taken(owns, h), t, 0, c) /\ QuietT(0)
          <=> (Begins(owns, link, 0, c) /\ Quiet(0)) \/ (Begins(owns, link, 1, c) /\ Quiet(1))
    <2>1. QuietT(0) <=> Quiet(1)
      <3>1. 0 \in 0 .. n /\ 0 + 1 = 1
        BY <1>1
      <3> HIDE DEF Quiet, QuietT
      <3> QED
        BY <1>3, <3>1
    <2>2. Begins(Taken(owns, h), t, 0, c) <=> c \in Taken(owns, h)
      BY DEF Begins
    <2>3. Begins(owns, link, 0, c) <=> c \in owns
      BY DEF Begins
    <2>4. Begins(owns, link, 1, c) <=> ~IsExit(h) /\ h.client = c
      BY DEF Begins
    <2>5. c \in Taken(owns, h) <=> IF IsExit(h) THEN c \in owns /\ c # h.client ELSE c \in owns \/ c = h.client
      BY DEF Taken
    <2> HIDE DEF Quiet, QuietT, h
    <2> QED
      BY <1>4, <2>1, <2>2, <2>3, <2>4, <2>5
  <1>6. IsOpen(Taken(owns, h), t, n, c) <=> \E i \in 0 .. n : Begins(Taken(owns, h), t, i, c) /\ QuietT(i)
    BY DEF IsOpen
  <1>7. IsOpen(owns, link, n + 1, c) <=> \E i \in 0 .. n + 1 : Begins(owns, link, i, c) /\ Quiet(i)
    BY DEF IsOpen
  <1> HIDE DEF Quiet, QuietT, h, t
  <1>8. ASSUME NEW i \in 0 .. n, Begins(Taken(owns, h), t, i, c), QuietT(i)
        PROVE  \E k \in 0 .. n + 1 : Begins(owns, link, k, c) /\ Quiet(k)
    <2>1. CASE i = 0
      <3>1. 0 \in 0 .. n + 1 /\ 1 \in 0 .. n + 1
        BY <1>1
      <3> QED
        BY <1>5, <1>8, <2>1, <3>1
    <2>2. CASE i # 0
      <3>1. i \in 1 .. n /\ i + 1 \in 0 .. n + 1
        BY <1>1, <2>2
      <3> QED
        BY <1>2, <1>3, <1>8, <3>1
    <2> QED
      BY <2>1, <2>2
  <1>9. ASSUME NEW k \in 0 .. n + 1, Begins(owns, link, k, c), Quiet(k)
        PROVE  \E i \in 0 .. n : Begins(Taken(owns, h), t, i, c) /\ QuietT(i)
    <2>1. CASE k \in {0, 1}
      <3>1. 0 \in 0 .. n
        BY <1>1
      <3> QED
        BY <1>5, <1>9, <2>1, <3>1
    <2>2. CASE k \notin {0, 1}
      <3>1. k - 1 \in 1 .. n /\ k - 1 \in 0 .. n /\ (k - 1) + 1 = k
        BY <1>1, <2>2
      <3> QED
        BY <1>2, <1>3, <1>9, <3>1
    <2> QED
      BY <2>1, <2>2
  <1>10. IsOpen(Taken(owns, h), t, n, c) <=> IsOpen(owns, link, n + 1, c)
    BY <1>6, <1>7, <1>8, <1>9
  <1> QED
    BY <1>1, <1>10 DEF t

(* A placement is put behind none that stands, an exit behind one that does.    *)
LEMMA AlternatesAppend ==
    ASSUME NEW S, NEW link \in Seq(S), NEW msg \in S, NEW owns,
           Alternates(owns, link), IsExit(msg) <=> IsOpen(owns, link, Len(link), msg.client)
    PROVE  Alternates(owns, Append(link, msg))
  <1> DEFINE new == Append(link, msg)
  <1>1. Len(link) \in Nat /\ Len(new) = Len(link) + 1 /\ new[Len(link) + 1] = msg
        /\ \A i \in 1 .. Len(link) : new[i] = link[i]
    BY AppendProperties
  <1>2. \A k \in 1 .. Len(link) + 1 : k - 1 \in 0 .. Len(link)
    BY <1>1
  <1>3. \A c : \A k \in 1 .. Len(link) + 1 : IsOpen(owns, new, k - 1, c) <=> IsOpen(owns, link, k - 1, c)
    BY <1>2, OpenBefore
  <1>4. \A k \in 1 .. Len(link) + 1 : k \in 1 .. Len(link) \/ (k = Len(link) + 1 /\ k - 1 = Len(link))
    BY <1>1
  <1> HIDE DEF new
  <1>5. \A k \in 1 .. Len(link) + 1 : IsExit(new[k]) <=> IsOpen(owns, new, k - 1, new[k].client)
    BY <1>1, <1>3, <1>4 DEF Alternates
  <1> QED
    BY <1>1, <1>5 DEF Alternates, new

(* The order stays when the first message is taken, and that one was in order.  *)
LEMMA AlternatesTail ==
    ASSUME NEW S, NEW link \in Seq(S), link # <<>>, NEW owns, Alternates(owns, link)
    PROVE  /\ Alternates(Taken(owns, Head(link)), Tail(link))
           /\ IsExit(Head(link)) <=> Head(link).client \in owns
  <1>1. Len(link) \in Nat /\ Len(link) >= 1 /\ Head(link) = link[1] /\ Len(Tail(link)) = Len(link) - 1
        /\ \A i \in 1 .. Len(Tail(link)) : Tail(link)[i] = link[i + 1]
    BY HeadTailProperties, LenProperties, EmptySeq
  <1>2. \A c : IsOpen(owns, link, 0, c) <=> c \in owns
    BY DEF IsOpen, Begins
  <1>3. IsExit(Head(link)) <=> Head(link).client \in owns
    BY <1>1, <1>2 DEF Alternates
  <1>4. \A k \in 1 .. Len(Tail(link)) :
          IsExit(Tail(link)[k]) <=> IsOpen(Taken(owns, Head(link)), Tail(link), k - 1, Tail(link)[k].client)
    <2> TAKE k \in 1 .. Len(Tail(link))
    <2>1. k - 1 \in 0 .. Len(link) - 1 /\ k + 1 \in 1 .. Len(link) /\ (k - 1) + 1 = k /\ (k + 1) - 1 = k
      BY <1>1
    <2>2. \A c : IsOpen(Taken(owns, Head(link)), Tail(link), k - 1, c) <=> IsOpen(owns, link, k, c)
      BY <2>1, OpenTail
    <2> QED
      BY <1>1, <2>1, <2>2 DEF Alternates
  <1> QED
    BY <1>3, <1>4 DEF Alternates

(* The exits behind a message, as the link grows and as it is taken from.       *)
LEMMA ExitFollowsAppend ==
    ASSUME NEW S, NEW link \in Seq(S), NEW msg \in S, NEW c
    PROVE  /\ \A i \in 0 .. Len(link) : ExitFollows(Append(link, msg), i, c)
                <=> ExitFollows(link, i, c) \/ (IsExit(msg) /\ msg.client = c)
           /\ ~ExitFollows(Append(link, msg), Len(link) + 1, c)
  <1> DEFINE N == Len(link)
             new == Append(link, msg)
  <1>1. N \in Nat /\ Len(new) = N + 1 /\ new[N + 1] = msg /\ \A i \in 1 .. N : new[i] = link[i]
    BY AppendProperties
  <1> HIDE DEF N, new
  <1>2. ASSUME NEW i \in 0 .. N
        PROVE  ExitFollows(new, i, c) <=> ExitFollows(link, i, c) \/ (IsExit(msg) /\ msg.client = c)
    <2>1. \A j \in i + 1 .. N + 1 : j = N + 1 \/ (j \in i + 1 .. N /\ j \in 1 .. N)
      BY <1>1
    <2>2. N + 1 \in i + 1 .. N + 1 /\ \A j \in i + 1 .. N : j \in i + 1 .. N + 1 /\ j \in 1 .. N
      BY <1>1
    <2>3. ExitFollows(new, i, c) <=> \E j \in i + 1 .. N + 1 : IsExit(new[j]) /\ new[j].client = c
      BY <1>1 DEF ExitFollows
    <2>4. ExitFollows(link, i, c) <=> \E j \in i + 1 .. N : IsExit(link[j]) /\ link[j].client = c
      BY DEF ExitFollows, N
    <2> QED
      BY <1>1, <2>1, <2>2, <2>3, <2>4
  <1>3. ~ExitFollows(new, N + 1, c)
    <2>1. \A j \in (N + 1) + 1 .. N + 1 : FALSE
      BY <1>1
    <2> QED
      BY <1>1, <2>1 DEF ExitFollows
  <1> QED
    BY <1>2, <1>3 DEF N, new

LEMMA ExitFollowsTail ==
    ASSUME NEW S, NEW link \in Seq(S), link # <<>>, NEW c
    PROVE  /\ \A i \in 0 .. Len(link) - 1 : ExitFollows(Tail(link), i, c) <=> ExitFollows(link, i + 1, c)
           /\ ExitFollows(link, 0, c)
                <=> (IsExit(Head(link)) /\ Head(link).client = c) \/ ExitFollows(Tail(link), 0, c)
  <1> DEFINE N == Len(link)
             t == Tail(link)
  <1>1. N \in Nat /\ N >= 1 /\ Head(link) = link[1] /\ Len(t) = N - 1
        /\ \A i \in 1 .. N - 1 : t[i] = link[i + 1]
    <2>1. N \in Nat /\ N >= 1
      BY LenProperties, EmptySeq
    <2>2. Head(link) = link[1] /\ Len(t) = N - 1 /\ \A i \in 1 .. Len(t) : t[i] = link[i + 1]
      BY HeadTailProperties
    <2> QED
      BY <2>1, <2>2
  <1>2. ExitFollows(link, 0, c) <=> (IsExit(link[1]) /\ link[1].client = c) \/ ExitFollows(link, 1, c)
    <2>1. \A j \in 1 .. N : j = 1 \/ j \in 2 .. N
      BY <1>1
    <2>2. 1 \in 1 .. N /\ \A j \in 2 .. N : j \in 1 .. N
      BY <1>1
    <2> QED
      BY <2>1, <2>2 DEF ExitFollows
  <1> HIDE DEF N, t
  <1>3. ASSUME NEW i \in 0 .. N - 1
        PROVE  ExitFollows(t, i, c) <=> ExitFollows(link, i + 1, c)
    <2>1. \A j \in i + 1 .. N - 1 : t[j] = link[j + 1] /\ j + 1 \in (i + 1) + 1 .. N
      BY <1>1
    <2>2. \A j \in (i + 1) + 1 .. N : j - 1 \in i + 1 .. N - 1 /\ (j - 1) + 1 = j
      BY <1>1
    <2>3. ExitFollows(t, i, c) <=> \E j \in i + 1 .. N - 1 : IsExit(t[j]) /\ t[j].client = c
      BY <1>1 DEF ExitFollows
    <2>4. ExitFollows(link, i + 1, c) <=> \E j \in (i + 1) + 1 .. N : IsExit(link[j]) /\ link[j].client = c
      BY DEF ExitFollows, N
    <2>5. ASSUME NEW j \in i + 1 .. N - 1, IsExit(t[j]), t[j].client = c
          PROVE  \E k \in (i + 1) + 1 .. N : IsExit(link[k]) /\ link[k].client = c
      BY <2>1, <2>5
    <2>6. ASSUME NEW k \in (i + 1) + 1 .. N, IsExit(link[k]), link[k].client = c
          PROVE  \E j \in i + 1 .. N - 1 : IsExit(t[j]) /\ t[j].client = c
      <3>1. t[k - 1] = link[k] /\ k - 1 \in i + 1 .. N - 1
        BY <2>1, <2>2
      <3> QED
        BY <2>6, <3>1
    <2> QED
      BY <2>3, <2>4, <2>5, <2>6
  <1>4. ExitFollows(t, 0, c) <=> ExitFollows(link, 1, c)
    <2>1. 0 \in 0 .. N - 1 /\ 0 + 1 = 1
      BY <1>1
    <2> QED
      BY <1>3, <2>1
  <1> QED
    BY <1>1, <1>2, <1>3, <1>4 DEF N, t

(* An exit sent ends the sessions of its client, a placement adds one.          *)
LEMMA LinkGrows ==
    ASSUME NEW S, NEW link \in Seq(S), NEW msg \in S, NEW sessions
    PROVE  /\ Staying(sessions, Append(link, msg))
                = {s \in Staying(sessions, link) : ~(IsExit(msg) /\ s.client = msg.client)}
           /\ Standing(Append(link, msg))
                = {m \in Standing(link) : ~(IsExit(msg) /\ m.client = msg.client)} \cup {m \in {msg} : ~IsExit(m)}
  <1> DEFINE N == Len(link)
             new == Append(link, msg)
  <1>1. N \in Nat /\ DOMAIN link = 1 .. N /\ DOMAIN new = 1 .. N + 1 /\ new[N + 1] = msg
        /\ \A i \in 1 .. N : new[i] = link[i]
    BY AppendProperties, LenProperties
  <1>2. 0 \in 0 .. N /\ N + 1 \in 1 .. N + 1
        /\ (\A i \in 1 .. N : i \in 0 .. N /\ i \in 1 .. N + 1)
        /\ \A i \in 1 .. N + 1 : i \in 1 .. N \/ i = N + 1
    BY <1>1
  <1>3. \A c : \A i \in 0 .. N : ExitFollows(new, i, c) <=> ExitFollows(link, i, c) \/ (IsExit(msg) /\ msg.client = c)
    BY ExitFollowsAppend
  <1>4. \A c : ~ExitFollows(new, N + 1, c)
    BY ExitFollowsAppend
  <1> HIDE DEF N, new
  <1>5. Staying(sessions, new) = {s \in Staying(sessions, link) : ~(IsExit(msg) /\ s.client = msg.client)}
    BY <1>2, <1>3 DEF Staying
  <1>6. ASSUME NEW m PROVE m \in Standing(new)
          <=> (m \in Standing(link) /\ ~(IsExit(msg) /\ m.client = msg.client)) \/ (m = msg /\ ~IsExit(msg))
    <2>1. m \in Standing(new)
            <=> \E i \in 1 .. N + 1 : m = new[i] /\ ~IsExit(new[i]) /\ ~ExitFollows(new, i, new[i].client)
      BY <1>1 DEF Standing
    <2>2. m \in Standing(link)
            <=> \E i \in 1 .. N : m = link[i] /\ ~IsExit(link[i]) /\ ~ExitFollows(link, i, link[i].client)
      BY <1>1 DEF Standing
    <2>3. ASSUME m \in Standing(new)
          PROVE  (m \in Standing(link) /\ ~(IsExit(msg) /\ m.client = msg.client)) \/ (m = msg /\ ~IsExit(msg))
      <3>1. PICK i \in 1 .. N + 1 : m = new[i] /\ ~IsExit(new[i]) /\ ~ExitFollows(new, i, new[i].client)
        BY <2>1, <2>3
      <3>2. CASE i = N + 1
        BY <1>1, <3>1, <3>2
      <3>3. CASE i \in 1 .. N
        <4>1. m = link[i] /\ i \in 0 .. N
          BY <1>1, <1>2, <3>1, <3>3
        <4>2. ~ExitFollows(link, i, m.client) /\ ~(IsExit(msg) /\ msg.client = m.client)
          BY <1>3, <3>1, <4>1
        <4>3. ~IsExit(link[i]) /\ ~ExitFollows(link, i, link[i].client)
          BY <3>1, <4>1, <4>2
        <4>4. m \in Standing(link)
          BY <2>2, <3>3, <4>1, <4>3
        <4> QED
          BY <4>2, <4>4
      <3> QED
        BY <1>2, <3>2, <3>3
    <2>4. ASSUME m \in Standing(link), ~(IsExit(msg) /\ m.client = msg.client)
          PROVE  m \in Standing(new)
      <3>1. PICK i \in 1 .. N : m = link[i] /\ ~IsExit(link[i]) /\ ~ExitFollows(link, i, link[i].client)
        BY <2>2, <2>4
      <3>2. new[i] = m /\ i \in 0 .. N /\ i \in 1 .. N + 1
        BY <1>1, <1>2, <3>1
      <3>3. ~ExitFollows(new, i, new[i].client)
        BY <1>3, <2>4, <3>1, <3>2
      <3> QED
        BY <2>1, <3>1, <3>2, <3>3
    <2>5. ASSUME m = msg, ~IsExit(msg)
          PROVE  m \in Standing(new)
      BY <1>1, <1>2, <1>4, <2>1, <2>5
    <2> QED
      BY <2>3, <2>4, <2>5
  <1>7. Standing(new)
          = {m \in Standing(link) : ~(IsExit(msg) /\ m.client = msg.client)} \cup {m \in {msg} : ~IsExit(m)}
    BY <1>6
  <1> QED
    BY <1>5, <1>7 DEF new

(* What the first message of a link does to what will be held.                  *)
LEMMA LinkShrinks ==
    ASSUME NEW S, NEW link \in Seq(S), link # <<>>, NEW sessions
    PROVE  /\ Staying(sessions, link)
                = {s \in Staying(sessions, Tail(link)) : ~(IsExit(Head(link)) /\ s.client = Head(link).client)}
           /\ Standing(link)
                = Standing(Tail(link)) \cup
                  {m \in {Head(link)} : ~IsExit(m) /\ ~ExitFollows(Tail(link), 0, m.client)}
  <1> DEFINE N == Len(link)
             t == Tail(link)
             h == Head(link)
  <1>1. N \in Nat /\ N >= 1 /\ h = link[1] /\ DOMAIN link = 1 .. N /\ DOMAIN t = 1 .. N - 1
        /\ \A i \in 1 .. N - 1 : t[i] = link[i + 1]
    <2>1. N \in Nat /\ N >= 1 /\ DOMAIN link = 1 .. N
      BY LenProperties, EmptySeq
    <2>2. h = link[1] /\ t \in Seq(S) /\ Len(t) = N - 1 /\ \A i \in 1 .. Len(t) : t[i] = link[i + 1]
      BY HeadTailProperties
    <2>3. DOMAIN t = 1 .. N - 1
      BY <2>2, LenProperties
    <2> QED
      BY <2>1, <2>2, <2>3
  <1>2. 1 \in 1 .. N /\ 0 \in 0 .. N - 1 /\ 0 + 1 = 1
        /\ (\A i \in 1 .. N - 1 : i \in 0 .. N - 1 /\ i + 1 \in 1 .. N)
        /\ \A i \in 1 .. N : i = 1 \/ (i - 1 \in 1 .. N - 1 /\ (i - 1) + 1 = i)
    BY <1>1
  <1>3. \A c : \A i \in 0 .. N - 1 : ExitFollows(t, i, c) <=> ExitFollows(link, i + 1, c)
    BY ExitFollowsTail
  <1>4. \A c : ExitFollows(link, 0, c) <=> (IsExit(h) /\ h.client = c) \/ ExitFollows(t, 0, c)
    BY ExitFollowsTail
  <1> HIDE DEF N, t, h
  <1>5. Staying(sessions, link) = {s \in Staying(sessions, t) : ~(IsExit(h) /\ s.client = h.client)}
    BY <1>4 DEF Staying
  <1>6. ASSUME NEW m PROVE m \in Standing(link)
          <=> m \in Standing(t) \/ (m = h /\ ~IsExit(m) /\ ~ExitFollows(t, 0, m.client))
    <2>1. m \in Standing(link)
            <=> \E i \in 1 .. N : m = link[i] /\ ~IsExit(link[i]) /\ ~ExitFollows(link, i, link[i].client)
      BY <1>1 DEF Standing
    <2>2. m \in Standing(t)
            <=> \E i \in 1 .. N - 1 : m = t[i] /\ ~IsExit(t[i]) /\ ~ExitFollows(t, i, t[i].client)
      BY <1>1 DEF Standing
    <2>3. ASSUME m \in Standing(link)
          PROVE  m \in Standing(t) \/ (m = h /\ ~IsExit(m) /\ ~ExitFollows(t, 0, m.client))
      <3>1. PICK i \in 1 .. N : m = link[i] /\ ~IsExit(link[i]) /\ ~ExitFollows(link, i, link[i].client)
        BY <2>1, <2>3
      <3>2. CASE i = 1
        BY <1>1, <1>2, <1>3, <3>1, <3>2
      <3>3. CASE i # 1
        <4>1. i - 1 \in 1 .. N - 1 /\ (i - 1) + 1 = i /\ i - 1 \in 0 .. N - 1
          BY <1>2, <3>3
        <4>2. t[i - 1] = m
          BY <1>1, <3>1, <4>1
        <4>3. ~ExitFollows(t, i - 1, m.client)
          BY <1>3, <3>1, <4>1
        <4> QED
          BY <2>2, <3>1, <4>1, <4>2, <4>3
      <3> QED
        BY <3>2, <3>3
    <2>4. ASSUME m \in Standing(t)
          PROVE  m \in Standing(link)
      <3>1. PICK i \in 1 .. N - 1 : m = t[i] /\ ~IsExit(t[i]) /\ ~ExitFollows(t, i, t[i].client)
        BY <2>2, <2>4
      <3>2. link[i + 1] = m /\ i \in 0 .. N - 1 /\ i + 1 \in 1 .. N
        BY <1>1, <1>2, <3>1
      <3>3. ~ExitFollows(link, i + 1, m.client)
        BY <1>3, <3>1, <3>2
      <3> QED
        BY <2>1, <3>1, <3>2, <3>3
    <2>5. ASSUME m = h, ~IsExit(m), ~ExitFollows(t, 0, m.client)
          PROVE  m \in Standing(link)
      <3>1. ~ExitFollows(link, 1, m.client)
        BY <1>2, <1>3, <2>5
      <3> QED
        BY <1>1, <1>2, <2>1, <2>5, <3>1
    <2> QED
      BY <2>3, <2>4, <2>5
  <1>7. Standing(link) = Standing(t) \cup {m \in {h} : ~IsExit(m) /\ ~ExitFollows(t, 0, m.client)}
    BY <1>6
  <1> QED
    BY <1>5, <1>7 DEF t, h

(* A client has a session in the end if and only if one will be held.           *)
LEMMA OpenIsHeld ==
    ASSUME NEW S, NEW link \in Seq(S), NEW sessions, NEW c
    PROVE  IsOpen(HeldBy(sessions), link, Len(link), c)
             <=> (\E s \in Staying(sessions, link) : s.client = c) \/ \E m \in Standing(link) : m.client = c
  <1> DEFINE N == Len(link)
             owns == HeldBy(sessions)
             Quiet(i) == \A j \in i + 1 .. N : ~(IsExit(link[j]) /\ link[j].client = c)
  <1>1. N \in Nat /\ DOMAIN link = 1 .. N
    BY LenProperties
  <1>2. \A i \in 0 .. N : Quiet(i) <=> ~ExitFollows(link, i, c)
    BY DEF ExitFollows
  <1>3. IsOpen(owns, link, N, c) <=> \E i \in 0 .. N : Begins(owns, link, i, c) /\ Quiet(i)
    BY DEF IsOpen
  <1>4. 0 \in 0 .. N /\ (\A i \in 1 .. N : i \in 0 .. N /\ i # 0) /\ \A i \in 0 .. N : i = 0 \/ i \in 1 .. N
    BY <1>1
  <1>5. Begins(owns, link, 0, c) <=> \E s \in sessions : s.client = c
    BY DEF Begins, HeldBy
  <1>6. \A i \in 1 .. N : Begins(owns, link, i, c) <=> ~IsExit(link[i]) /\ link[i].client = c
    BY <1>4 DEF Begins
  <1>7. (\E s \in Staying(sessions, link) : s.client = c)
          <=> (\E s \in sessions : s.client = c) /\ ~ExitFollows(link, 0, c)
    BY DEF Staying
  <1>8. (\E m \in Standing(link) : m.client = c)
          <=> \E i \in 1 .. N : ~IsExit(link[i]) /\ link[i].client = c /\ ~ExitFollows(link, i, c)
    BY <1>1 DEF Standing
  <1> HIDE DEF Quiet, owns, N
  <1>9. (\E i \in 0 .. N : Begins(owns, link, i, c) /\ Quiet(i))
          <=> (Begins(owns, link, 0, c) /\ Quiet(0)) \/ \E i \in 1 .. N : Begins(owns, link, i, c) /\ Quiet(i)
    BY <1>4
  <1>10. Begins(owns, link, 0, c) /\ Quiet(0) <=> \E s \in Staying(sessions, link) : s.client = c
    BY <1>2, <1>4, <1>5, <1>7
  <1>11. (\E i \in 1 .. N : Begins(owns, link, i, c) /\ Quiet(i)) <=> \E m \in Standing(link) : m.client = c
    BY <1>2, <1>4, <1>6, <1>8
  <1> QED
    BY <1>3, <1>9, <1>10, <1>11 DEF owns, N

-----------------------------------------------------------------------------
(* What a login server will hold, as a message is put on its link or taken.     *)
LEMMA LsPut ==
    ASSUME NEW S, NEW link \in Seq(S), NEW msg \in S, NEW sessions
    PROVE  AfterLink(sessions, Append(link, msg), LsSession)
             = IF IsExit(msg)
               THEN {s \in AfterLink(sessions, link, LsSession) : s.client # msg.client}
               ELSE AfterLink(sessions, link, LsSession) \cup {LsSession(msg)}
  <1> DEFINE stay == Staying(sessions, link)
             stand == Standing(link)
  <1>1. AfterLink(sessions, Append(link, msg), LsSession)
          = {s \in stay : ~(IsExit(msg) /\ s.client = msg.client)} \cup
            {LsSession(m) : m \in {m \in stand : ~(IsExit(msg) /\ m.client = msg.client)} \cup {m \in {msg} : ~IsExit(m)}}
    BY LinkGrows DEF AfterLink
  <1>2. AfterLink(sessions, link, LsSession) = stay \cup {LsSession(m) : m \in stand}
    BY DEF AfterLink
  <1>3. \A m : LsSession(m).client = m.client
    BY DEF LsSession
  <1> HIDE DEF stay, stand
  <1> QED
    BY <1>1, <1>2, <1>3

LEMMA LsTake ==
    ASSUME NEW S, NEW link \in Seq(S), link # <<>>, NEW sessions, Alternates(HeldBy(sessions), link)
    PROVE  LET msg == Head(link)
               kept == IF IsExit(msg) THEN sessions \ SessionsOf(sessions, msg.client)
                                      ELSE sessions \cup {LsSession(msg)}
           IN /\ Alternates(HeldBy(kept), Tail(link))
              /\ AfterLink(kept, Tail(link), LsSession) = AfterLink(sessions, link, LsSession)
              /\ IsExit(msg) <=> SessionsOf(sessions, msg.client) # {}
  <1> DEFINE msg == Head(link)
             t == Tail(link)
             kept == IF IsExit(msg) THEN sessions \ SessionsOf(sessions, msg.client)
                                    ELSE sessions \cup {LsSession(msg)}
  <1>1. Alternates(Taken(HeldBy(sessions), msg), t) /\ (IsExit(msg) <=> msg.client \in HeldBy(sessions))
    BY AlternatesTail
  <1>2. /\ Staying(sessions, link) = {s \in Staying(sessions, t) : ~(IsExit(msg) /\ s.client = msg.client)}
        /\ Standing(link) = Standing(t) \cup {m \in {msg} : ~IsExit(m) /\ ~ExitFollows(t, 0, m.client)}
    BY LinkShrinks
  <1>3. \A m : LsSession(m).client = m.client
    BY DEF LsSession
  <1> HIDE DEF msg, t
  <1>4. IsExit(msg) <=> SessionsOf(sessions, msg.client) # {}
    BY <1>1 DEF HeldBy, SessionsOf
  <1>5. HeldBy(kept) = Taken(HeldBy(sessions), msg)
    BY <1>3 DEF HeldBy, Taken, SessionsOf
  <1>6. AfterLink(kept, t, LsSession) = AfterLink(sessions, link, LsSession)
    <2>1. CASE IsExit(msg)
      <3>1. Staying(kept, t) = Staying(sessions, link)
        BY <1>2, <2>1 DEF Staying, SessionsOf
      <3>2. Standing(t) = Standing(link)
        BY <1>2, <2>1
      <3> QED
        BY <3>1, <3>2 DEF AfterLink
    <2>2. CASE ~IsExit(msg)
      <3>1. Staying(kept, t) = Staying(sessions, t) \cup {s \in {LsSession(msg)} : ~ExitFollows(t, 0, s.client)}
        BY <2>2 DEF Staying
      <3>2. {s \in {LsSession(msg)} : ~ExitFollows(t, 0, s.client)}
              = {LsSession(m) : m \in {m \in {msg} : ~IsExit(m) /\ ~ExitFollows(t, 0, m.client)}}
        BY <1>3, <2>2
      <3>3. Staying(sessions, link) = Staying(sessions, t)
        BY <1>2, <2>2
      <3>4. {LsSession(m) : m \in Standing(link)}
              = {LsSession(m) : m \in Standing(t)} \cup
                {LsSession(m) : m \in {m \in {msg} : ~IsExit(m) /\ ~ExitFollows(t, 0, m.client)}}
        BY <1>2
      <3> HIDE DEF kept
      <3> QED
        BY <3>1, <3>2, <3>3, <3>4 DEF AfterLink
    <2> QED
      BY <2>1, <2>2
  <1> QED
    BY <1>1, <1>4, <1>5, <1>6 DEF msg, t

(* What a data server will hold, as a message is put on its link or taken.     *)
LEMMA DpPut ==
    ASSUME NEW S, NEW link \in Seq(S), NEW msg \in S, NEW sessions
    PROVE  AfterLink(sessions, Append(link, msg), DpSession)
             = IF IsExit(msg)
               THEN {s \in AfterLink(sessions, link, DpSession) : s.client # msg.client}
               ELSE AfterLink(sessions, link, DpSession) \cup {DpSession(msg)}
  <1> DEFINE stay == Staying(sessions, link)
             stand == Standing(link)
  <1>1. AfterLink(sessions, Append(link, msg), DpSession)
          = {s \in stay : ~(IsExit(msg) /\ s.client = msg.client)} \cup
            {DpSession(m) : m \in {m \in stand : ~(IsExit(msg) /\ m.client = msg.client)} \cup {m \in {msg} : ~IsExit(m)}}
    BY LinkGrows DEF AfterLink
  <1>2. AfterLink(sessions, link, DpSession) = stay \cup {DpSession(m) : m \in stand}
    BY DEF AfterLink
  <1>3. \A m : DpSession(m).client = m.client
    BY DEF DpSession
  <1> HIDE DEF stay, stand
  <1> QED
    BY <1>1, <1>2, <1>3

LEMMA DpTake ==
    ASSUME NEW S, NEW link \in Seq(S), link # <<>>, NEW sessions, Alternates(HeldBy(sessions), link)
    PROVE  LET msg == Head(link)
               kept == IF IsExit(msg) THEN sessions \ SessionsOf(sessions, msg.client)
                                      ELSE sessions \cup {DpSession(msg)}
           IN /\ Alternates(HeldBy(kept), Tail(link))
              /\ AfterLink(kept, Tail(link), DpSession) = AfterLink(sessions, link, DpSession)
              /\ IsExit(msg) <=> SessionsOf(sessions, msg.client) # {}
  <1> DEFINE msg == Head(link)
             t == Tail(link)
             kept == IF IsExit(msg) THEN sessions \ SessionsOf(sessions, msg.client)
                                    ELSE sessions \cup {DpSession(msg)}
  <1>1. Alternates(Taken(HeldBy(sessions), msg), t) /\ (IsExit(msg) <=> msg.client \in HeldBy(sessions))
    BY AlternatesTail
  <1>2. /\ Staying(sessions, link) = {s \in Staying(sessions, t) : ~(IsExit(msg) /\ s.client = msg.client)}
        /\ Standing(link) = Standing(t) \cup {m \in {msg} : ~IsExit(m) /\ ~ExitFollows(t, 0, m.client)}
    BY LinkShrinks
  <1>3. \A m : DpSession(m).client = m.client
    BY DEF DpSession
  <1> HIDE DEF msg, t
  <1>4. IsExit(msg) <=> SessionsOf(sessions, msg.client) # {}
    BY <1>1 DEF HeldBy, SessionsOf
  <1>5. HeldBy(kept) = Taken(HeldBy(sessions), msg)
    BY <1>3 DEF HeldBy, Taken, SessionsOf
  <1>6. AfterLink(kept, t, DpSession) = AfterLink(sessions, link, DpSession)
    <2>1. CASE IsExit(msg)
      <3>1. Staying(kept, t) = Staying(sessions, link)
        BY <1>2, <2>1 DEF Staying, SessionsOf
      <3>2. Standing(t) = Standing(link)
        BY <1>2, <2>1
      <3> QED
        BY <3>1, <3>2 DEF AfterLink
    <2>2. CASE ~IsExit(msg)
      <3>1. Staying(kept, t) = Staying(sessions, t) \cup {s \in {DpSession(msg)} : ~ExitFollows(t, 0, s.client)}
        BY <2>2 DEF Staying
      <3>2. {s \in {DpSession(msg)} : ~ExitFollows(t, 0, s.client)}
              = {DpSession(m) : m \in {m \in {msg} : ~IsExit(m) /\ ~ExitFollows(t, 0, m.client)}}
        BY <1>3, <2>2
      <3>3. Staying(sessions, link) = Staying(sessions, t)
        BY <1>2, <2>2
      <3>4. {DpSession(m) : m \in Standing(link)}
              = {DpSession(m) : m \in Standing(t)} \cup
                {DpSession(m) : m \in {m \in {msg} : ~IsExit(m) /\ ~ExitFollows(t, 0, m.client)}}
        BY <1>2
      <3> HIDE DEF kept
      <3> QED
        BY <3>1, <3>2, <3>3, <3>4 DEF AfterLink
    <2> QED
      BY <2>1, <2>2
  <1> QED
    BY <1>1, <1>4, <1>5, <1>6 DEF msg, t

(* A client is placed with a server if and only if its link ends in a session.  *)
LEMMA LsPlaced ==
    ASSUME RouteTypeOK, NEW l \in Ls, LsMirrors(l), NEW c
    PROVE  IsOpen(HeldBy(lsClients[l]), w2l[l], Len(w2l[l]), c) <=> \E s \in wsClients : s.ls = l /\ s.client = c
  <1> DEFINE S == InfoMsgs \cup ExitMsgs
  <1>1. w2l[l] \in Seq(S)
    BY DEF RouteTypeOK
  <1> HIDE DEF S
  <1>2. IsOpen(HeldBy(lsClients[l]), w2l[l], Len(w2l[l]), c)
          <=> (\E s \in Staying(lsClients[l], w2l[l]) : s.client = c) \/ \E m \in Standing(w2l[l]) : m.client = c
    BY <1>1, OpenIsHeld
  <1>3. LsWillHold(l) = Staying(lsClients[l], w2l[l]) \cup {LsSession(m) : m \in Standing(w2l[l])}
    BY DEF LsWillHold, AfterLink
  <1>4. \A m : LsSession(m).client = m.client
    BY DEF LsSession
  <1>5. (\E s \in LsWillHold(l) : s.client = c)
          <=> (\E s \in Staying(lsClients[l], w2l[l]) : s.client = c) \/ \E m \in Standing(w2l[l]) : m.client = c
    BY <1>3, <1>4
  <1>6. (\E s \in LsWillHold(l) : s.client = c) <=> \E s \in wsClients : s.ls = l /\ s.client = c
    BY <1>4 DEF LsMirrors
  <1> QED
    BY <1>2, <1>5, <1>6

LEMMA DpPlaced ==
    ASSUME RouteTypeOK, NEW d \in Dps, DpMirrors(d), NEW c
    PROVE  IsOpen(HeldBy(dpClients[d]), w2d[d], Len(w2d[d]), c) <=> \E s \in wsClients : s.dp = d /\ s.client = c
  <1> DEFINE S == InfoMsgs \cup ExitMsgs
  <1>1. w2d[d] \in Seq(S)
    BY DEF RouteTypeOK
  <1> HIDE DEF S
  <1>2. IsOpen(HeldBy(dpClients[d]), w2d[d], Len(w2d[d]), c)
          <=> (\E s \in Staying(dpClients[d], w2d[d]) : s.client = c) \/ \E m \in Standing(w2d[d]) : m.client = c
    BY <1>1, OpenIsHeld
  <1>3. DpWillHold(d) = Staying(dpClients[d], w2d[d]) \cup {DpSession(m) : m \in Standing(w2d[d])}
    BY DEF DpWillHold, AfterLink
  <1>4. \A m : DpSession(m).client = m.client
    BY DEF DpSession
  <1>5. (\E s \in DpWillHold(d) : s.client = c)
          <=> (\E s \in Staying(dpClients[d], w2d[d]) : s.client = c) \/ \E m \in Standing(w2d[d]) : m.client = c
    BY <1>3, <1>4
  <1>6. (\E s \in DpWillHold(d) : s.client = c) <=> \E s \in wsClients : s.dp = d /\ s.client = c
    BY <1>4 DEF DpMirrors
  <1> QED
    BY <1>2, <1>5, <1>6

-----------------------------------------------------------------------------
(* There is a least loaded server.                                              *)
LEMMA LoadLestIsOne ==
    ASSUME NEW S, S # {}, S \subseteq Nat, \A s \in S : nLoadCount[s] \in Nat
    PROVE  LoadLestOf(S) \in S
  <1> DEFINE R == {p \in Nat \X Nat : p[1] < p[2]}
             Loads == {nLoadCount[s] : s \in S}
             least(k, x) == x \in S /\ nLoadCount[x] = k /\ \A y \in S : ~(nLoadCount[y] < k)
  <1>1. IsWellFoundedOn(R, Nat)
    BY NatLessThanWellFounded DEF OpToRel
  <1>2. Loads # {} /\ Loads \subseteq Nat
    OBVIOUS
  <1> HIDE DEF R, Loads
  <1>3. PICK k \in Loads : \A y \in Loads : ~(<<y, k>> \in R)
    BY <1>1, <1>2, WFMin
  <1>4. \A y \in Loads : k =< y
    <2> TAKE y \in Loads
    <2>1. y \in Nat /\ k \in Nat
      BY <1>2
    <2>2. ~(y < k)
      BY <1>3, <2>1 DEF R
    <2> QED
      BY <2>1, <2>2
  <1> DEFINE Best == {s \in S : nLoadCount[s] = k}
  <1>5. Best # {} /\ Best \subseteq Nat
    BY DEF Loads
  <1> HIDE DEF Best
  <1>6. PICK s \in Best : \A y \in Best : ~(<<y, s>> \in R)
    BY <1>1, <1>5, WFMin
  <1>7. \A t \in Best : s =< t
    <2> TAKE t \in Best
    <2>1. t \in Nat /\ s \in Nat
      BY <1>5
    <2>2. ~(t < s)
      BY <1>6, <2>1 DEF R
    <2> QED
      BY <2>1, <2>2
  <1>8. s \in S /\ nLoadCount[s] = k
    BY DEF Best
  <1>9. \A t \in S : nLoadCount[s] < nLoadCount[t] \/ (nLoadCount[s] = nLoadCount[t] /\ s =< t)
    <2> TAKE t \in S
    <2>1. k =< nLoadCount[t] /\ nLoadCount[t] \in Nat /\ k \in Nat
      BY <1>2, <1>4 DEF Loads
    <2>2. nLoadCount[t] = k => s =< t
      BY <1>7 DEF Best
    <2> QED
      BY <1>8, <2>1, <2>2
  <1> QED
    BY <1>8, <1>9 DEF LoadLestOf

(* A server whose sessions, link and clients stay mirrors the world as before.  *)
LEMMA LsStays ==
    ASSUME NEW l, LsMirrors(l), lsClients'[l] = lsClients[l], w2l'[l] = w2l[l],
           {t \in wsClients' : t.ls = l} = {t \in wsClients : t.ls = l}
    PROVE  LsMirrors(l)'
  BY DEF LsMirrors, LsWillHold, AfterLink

LEMMA DpStays ==
    ASSUME NEW d, DpMirrors(d), dpClients'[d] = dpClients[d], w2d'[d] = w2d[d],
           {t \in wsClients' : t.dp = d} = {t \in wsClients : t.dp = d}
    PROVE  DpMirrors(d)'
  BY DEF DpMirrors, DpWillHold, AfterLink

(* The world server sends what it has changed.                                  *)
LEMMA LsTold ==
    ASSUME RouteTypeOK, NEW l \in Ls, LsMirrors(l), NEW msg \in InfoMsgs \cup ExitMsgs,
           lsClients'[l] = lsClients[l], w2l'[l] = Append(w2l[l], msg),
           IsExit(msg) <=> \E s \in wsClients : s.ls = l /\ s.client = msg.client,
           {LsSession(s) : s \in {t \in wsClients' : t.ls = l}}
             = IF IsExit(msg)
               THEN {s \in {LsSession(r) : r \in {t \in wsClients : t.ls = l}} : s.client # msg.client}
               ELSE {LsSession(r) : r \in {t \in wsClients : t.ls = l}} \cup {LsSession(msg)}
    PROVE  LsMirrors(l)'
  <1> DEFINE S == InfoMsgs \cup ExitMsgs
  <1>1. w2l[l] \in Seq(S)
    BY DEF RouteTypeOK
  <1> HIDE DEF S
  <1>2. msg \in S
    BY DEF S
  <1>3. Alternates(HeldBy(lsClients[l]), Append(w2l[l], msg))
    <2>1. IsExit(msg) <=> IsOpen(HeldBy(lsClients[l]), w2l[l], Len(w2l[l]), msg.client)
      BY LsPlaced
    <2>2. Alternates(HeldBy(lsClients[l]), w2l[l])
      BY DEF LsMirrors
    <2> QED
      BY <1>1, <1>2, <2>1, <2>2, AlternatesAppend
  <1>4. AfterLink(lsClients[l], w2l[l], LsSession) = {LsSession(r) : r \in {t \in wsClients : t.ls = l}}
    BY DEF LsMirrors, LsWillHold
  <1>5. AfterLink(lsClients[l], Append(w2l[l], msg), LsSession)
          = IF IsExit(msg)
            THEN {s \in AfterLink(lsClients[l], w2l[l], LsSession) : s.client # msg.client}
            ELSE AfterLink(lsClients[l], w2l[l], LsSession) \cup {LsSession(msg)}
    BY <1>1, <1>2, LsPut
  <1>6. AfterLink(lsClients'[l], w2l'[l], LsSession) = {LsSession(s) : s \in {t \in wsClients' : t.ls = l}}
    BY <1>4, <1>5
  <1> QED
    BY <1>3, <1>6 DEF LsMirrors, LsWillHold

LEMMA DpTold ==
    ASSUME RouteTypeOK, NEW d \in Dps, DpMirrors(d), NEW msg \in InfoMsgs \cup ExitMsgs,
           dpClients'[d] = dpClients[d], w2d'[d] = Append(w2d[d], msg),
           IsExit(msg) <=> \E s \in wsClients : s.dp = d /\ s.client = msg.client,
           {DpSession(s) : s \in {t \in wsClients' : t.dp = d}}
             = IF IsExit(msg)
               THEN {s \in {DpSession(r) : r \in {t \in wsClients : t.dp = d}} : s.client # msg.client}
               ELSE {DpSession(r) : r \in {t \in wsClients : t.dp = d}} \cup {DpSession(msg)}
    PROVE  DpMirrors(d)'
  <1> DEFINE S == InfoMsgs \cup ExitMsgs
  <1>1. w2d[d] \in Seq(S)
    BY DEF RouteTypeOK
  <1> HIDE DEF S
  <1>2. msg \in S
    BY DEF S
  <1>3. Alternates(HeldBy(dpClients[d]), Append(w2d[d], msg))
    <2>1. IsExit(msg) <=> IsOpen(HeldBy(dpClients[d]), w2d[d], Len(w2d[d]), msg.client)
      BY DpPlaced
    <2>2. Alternates(HeldBy(dpClients[d]), w2d[d])
      BY DEF DpMirrors
    <2> QED
      BY <1>1, <1>2, <2>1, <2>2, AlternatesAppend
  <1>4. AfterLink(dpClients[d], w2d[d], DpSession) = {DpSession(r) : r \in {t \in wsClients : t.dp = d}}
    BY DEF DpMirrors, DpWillHold
  <1>5. AfterLink(dpClients[d], Append(w2d[d], msg), DpSession)
          = IF IsExit(msg)
            THEN {s \in AfterLink(dpClients[d], w2d[d], DpSession) : s.client # msg.client}
            ELSE AfterLink(dpClients[d], w2d[d], DpSession) \cup {DpSession(msg)}
    BY <1>1, <1>2, DpPut
  <1>6. AfterLink(dpClients'[d], w2d'[d], DpSession) = {DpSession(s) : s \in {t \in wsClients' : t.dp = d}}
    BY <1>4, <1>5
  <1> QED
    BY <1>3, <1>6 DEF DpMirrors, DpWillHold

-----------------------------------------------------------------------------
LEMMA RouteInvInit == RouteInit => RouteInv
  <1> SUFFICES ASSUME RouteInit PROVE RouteInv
    OBVIOUS
  <1> USE RouteAssumption
  <1>1. \A S : <<>> \in Seq(S)
    OBVIOUS
  <1>2. RouteTypeOK
    BY <1>1 DEF RouteInit, RouteTypeOK, NoAssert, NoServer
  <1>3. Standing(<<>>) = {} /\ Staying({}, <<>>) = {}
    BY DEF Standing, Staying
  <1>4. \A owns : Alternates(owns, <<>>)
    BY DEF Alternates
  <1>5. \A l \in Ls : LsMirrors(l)
    <2> TAKE l \in Ls
    <2>1. lsClients[l] = {} /\ w2l[l] = <<>> /\ wsClients = {}
      BY DEF RouteInit
    <2> QED
      BY <1>3, <1>4, <2>1 DEF LsMirrors, LsWillHold, AfterLink
  <1>6. \A d \in Dps : DpMirrors(d)
    <2> TAKE d \in Dps
    <2>1. dpClients[d] = {} /\ w2d[d] = <<>> /\ wsClients = {}
      BY DEF RouteInit
    <2> QED
      BY <1>3, <1>4, <2>1 DEF DpMirrors, DpWillHold, AfterLink
  <1>7. \A f \in Feps : AsksOnce(f)
    <2> TAKE f \in Feps
    <2>1. f2w[f] = <<>> /\ wsClients = {} /\ Len(<<>>) = 0
      BY DEF RouteInit
    <2>2. \A c : ~IsOpen({}, <<>>, 0, c)
      BY DEF IsOpen, Begins
    <2>3. HeldBy(wsClients) = {}
      BY <2>1 DEF HeldBy
    <2>4. \A k \in 1 .. Len(f2w[f]) : FALSE
      BY <2>1
    <2>5. \A c : ~IsOpen(HeldBy(wsClients), f2w[f], Len(f2w[f]), c)
      BY <2>1, <2>2, <2>3
    <2> QED
      BY <2>4, <2>5 DEF AsksOnce
  <1>8. NeverDown /\ PlacedOnce
    BY DEF RouteInit, NeverDown, PlacedOnce, NoAssert
  <1> QED
    BY <1>2, <1>5, <1>6, <1>7, <1>8 DEF RouteInv

(* Steps of the front ends leave the mirrors alone.                             *)
LEMMA MirrorsStay ==
    ASSUME RouteInv, wsClients' = wsClients, lsClients' = lsClients, dpClients' = dpClients, w2l' = w2l, w2d' = w2d
    PROVE  (\A l \in Ls : LsMirrors(l)') /\ (\A d \in Dps : DpMirrors(d)')
  <1>1. \A l \in Ls : LsMirrors(l)'
    <2> TAKE l \in Ls
    <2>1. LsMirrors(l)
      BY DEF RouteInv
    <2> QED
      BY <2>1, LsStays
  <1>2. \A d \in Dps : DpMirrors(d)'
    <2> TAKE d \in Dps
    <2>1. DpMirrors(d)
      BY DEF RouteInv
    <2> QED
      BY <2>1, DpStays
  <1> QED
    BY <1>1, <1>2

(* What a front end sends is all that changes its account with the world.       *)
LEMMA AsksStay ==
    ASSUME NEW f, AsksOnce(f), wsClients' = wsClients, f2w'[f] = f2w[f],
           \A c \in Clients : fepStatus'[f][c] \in {"NONE", "CONNECTED"} => fepStatus[f][c] \in {"NONE", "CONNECTED"}
    PROVE  AsksOnce(f)'
  BY DEF AsksOnce

LEMMA AsksAppend ==
    ASSUME NEW f \in Feps, RouteTypeOK, AsksOnce(f), wsClients' = wsClients,
           NEW msg \in {LoadLest(c) : c \in Clients} \cup ExitMsgs, f2w'[f] = Append(f2w[f], msg),
           ~IsExit(msg) => ~IsOpen(HeldBy(wsClients), f2w[f], Len(f2w[f]), msg.client),
           \A c \in Clients : fepStatus'[f][c] \in {"NONE", "CONNECTED"}
              => IF c = msg.client THEN IsExit(msg) ELSE fepStatus[f][c] \in {"NONE", "CONNECTED"}
    PROVE  AsksOnce(f)'
  <1> DEFINE S == {LoadLest(c) : c \in Clients} \cup ExitMsgs
             owns == HeldBy(wsClients)
             link == f2w[f]
             new == Append(link, msg)
  <1>1. link \in Seq(S)
    BY DEF RouteTypeOK
  <1> HIDE DEF S
  <1>2. msg \in S
    BY DEF S
  <1> HIDE DEF link
  <1>3. Len(link) \in Nat /\ Len(new) = Len(link) + 1 /\ new[Len(link) + 1] = msg
        /\ \A i \in 1 .. Len(link) : new[i] = link[i]
    BY <1>1, <1>2, AppendProperties
  <1>4. \A c : \A n \in 0 .. Len(link) : IsOpen(owns, new, n, c) <=> IsOpen(owns, link, n, c)
    BY <1>1, <1>2, OpenBefore
  <1>5. \A c : IsOpen(owns, new, Len(link) + 1, c)
                 <=> IF msg.client = c THEN ~IsExit(msg) ELSE IsOpen(owns, link, Len(link), c)
    BY <1>1, <1>2, OpenAfter
  <1>6. \A k \in 1 .. Len(link) + 1 :
          k - 1 \in 0 .. Len(link) /\ (k \in 1 .. Len(link) \/ (k = Len(link) + 1 /\ k - 1 = Len(link)))
    BY <1>3
  <1> HIDE DEF owns, new
  <1>7. \A k \in 1 .. Len(link) : ~IsExit(link[k]) => ~IsOpen(owns, link, k - 1, link[k].client)
    BY DEF AsksOnce, owns, link
  <1>8. ~IsExit(msg) => ~IsOpen(owns, link, Len(link), msg.client)
    BY DEF owns, link
  <1>9. ASSUME NEW k \in 1 .. Len(new), ~IsExit(new[k])
        PROVE  ~IsOpen(owns, new, k - 1, new[k].client)
    BY <1>3, <1>4, <1>6, <1>7, <1>8, <1>9
  <1>10. ASSUME NEW c \in Clients, fepStatus'[f][c] \in {"NONE", "CONNECTED"}
         PROVE  ~IsOpen(owns, new, Len(new), c)
    <2>1. \A b \in Clients : fepStatus[f][b] \in {"NONE", "CONNECTED"} => ~IsOpen(owns, link, Len(link), b)
      BY DEF AsksOnce, owns, link
    <2> QED
      BY <1>3, <1>5, <1>10, <2>1
  <1>11. owns' = owns /\ f2w'[f] = new
    BY DEF owns, new, link
  <1>12. HeldBy(wsClients') = owns
    BY DEF owns
  <1> QED
    BY <1>9, <1>10, <1>11, <1>12 DEF AsksOnce

(* The world server places a client it does not know, or drops one.             *)
LEMMA AsksTail ==
    ASSUME NEW f \in Feps, RouteTypeOK, AsksOnce(f), f2w[f] # <<>>, f2w'[f] = Tail(f2w[f]), fepStatus' = fepStatus,
           HeldBy(wsClients') = Taken(HeldBy(wsClients), Head(f2w[f]))
    PROVE  AsksOnce(f)'
  <1> DEFINE S == {LoadLest(c) : c \in Clients} \cup ExitMsgs
             owns == HeldBy(wsClients)
             link == f2w[f]
             t == Tail(link)
             rest == Taken(owns, Head(link))
  <1>1. link \in Seq(S)
    BY DEF RouteTypeOK
  <1> HIDE DEF S, link
  <1>2. link # <<>>
    BY DEF link
  <1>3. Len(link) \in Nat /\ Len(link) >= 1 /\ Len(t) = Len(link) - 1 /\ \A i \in 1 .. Len(t) : t[i] = link[i + 1]
    BY <1>1, <1>2, HeadTailProperties, LenProperties, EmptySeq
  <1>4. \A c : \A n \in 0 .. Len(link) - 1 : IsOpen(rest, t, n, c) <=> IsOpen(owns, link, n + 1, c)
    BY <1>1, <1>2, OpenTail
  <1> HIDE DEF owns, t, rest
  <1>5. \A k \in 1 .. Len(link) : ~IsExit(link[k]) => ~IsOpen(owns, link, k - 1, link[k].client)
    BY DEF AsksOnce, owns, link
  <1>6. ASSUME NEW k \in 1 .. Len(t), ~IsExit(t[k])
        PROVE  ~IsOpen(rest, t, k - 1, t[k].client)
    <2>1. k - 1 \in 0 .. Len(link) - 1 /\ k + 1 \in 1 .. Len(link) /\ (k - 1) + 1 = k /\ (k + 1) - 1 = k
      BY <1>3
    <2> QED
      BY <1>3, <1>4, <1>5, <1>6, <2>1
  <1>7. ASSUME NEW c \in Clients, fepStatus'[f][c] \in {"NONE", "CONNECTED"}
        PROVE  ~IsOpen(rest, t, Len(t), c)
    <2>1. ~IsOpen(owns, link, Len(link), c)
      BY <1>7 DEF AsksOnce, owns, link
    <2>2. Len(t) \in 0 .. Len(link) - 1 /\ Len(t) + 1 = Len(link)
      BY <1>3
    <2> QED
      BY <1>4, <2>1, <2>2
  <1>8. HeldBy(wsClients') = rest /\ f2w'[f] = t
    BY DEF owns, link, rest, t
  <1> QED
    BY <1>6, <1>7, <1>8 DEF AsksOnce

(* A client enters, asks for its key, or leaves.                                *)
LEMMA ClientEnterKeeps ==
    ASSUME RouteInv, NEW f \in Feps, NEW c \in Clients, ClientEnter(f, c), aborted = NoAssert
    PROVE  RouteInv'
  <1> USE RouteAssumption
  <1>1. RouteTypeOK'
    <2>1. RouteTypeOK
      BY DEF RouteInv
    <2>2. fepStatus' \in [Feps -> [Clients -> {"NONE", "CONNECTED", "ENCRYPTED", "NOTIFY_INITED"}]]
      BY <2>1 DEF ClientEnter, RouteTypeOK
    <2>3. \A g \in Feps, b \in Clients : fepStatus'[g][b] = "NOTIFY_INITED" => fepLs'[g][b] \in Ls
      BY <2>1 DEF ClientEnter, RouteTypeOK
    <2>4. nEnters' \in 0 .. MaxEnters
      BY <2>1 DEF ClientEnter, RouteTypeOK
    <2> QED
      BY <2>1, <2>2, <2>3, <2>4 DEF ClientEnter, RouteTypeOK, links
  <1>2. (\A l \in Ls : LsMirrors(l)') /\ (\A d \in Dps : DpMirrors(d)')
    BY MirrorsStay DEF ClientEnter, links
  <1>3. OneFrontEnd => \A g \in Feps : AsksOnce(g)'
    <2> SUFFICES ASSUME OneFrontEnd, NEW g \in Feps PROVE AsksOnce(g)'
      OBVIOUS
    <2>1. AsksOnce(g) /\ wsClients' = wsClients /\ f2w'[g] = f2w[g]
      BY DEF RouteInv, ClientEnter, links
    <2>2. \A b \in Clients : fepStatus'[g][b] \in {"NONE", "CONNECTED"} => fepStatus[g][b] \in {"NONE", "CONNECTED"}
      BY DEF RouteInv, RouteTypeOK, ClientEnter
    <2> QED
      BY <2>1, <2>2, AsksStay
  <1>4. (NeverDown /\ PlacedOnce)'
    BY DEF ClientEnter, NeverDown, PlacedOnce, NoAssert
  <1> QED
    BY <1>1, <1>2, <1>3, <1>4 DEF RouteInv, OneFrontEnd

LEMMA ReqFepEncyptKeeps ==
    ASSUME RouteInv, NEW f \in Feps, NEW c \in Clients, ReqFepEncypt(f, c), aborted = NoAssert
    PROVE  RouteInv'
  <1> USE RouteAssumption
  <1> DEFINE S == {LoadLest(b) : b \in Clients} \cup ExitMsgs
  <1>t. RouteTypeOK
    BY DEF RouteInv
  <1>m. LoadLest(c) \in S /\ f2w'[f] = Append(f2w[f], LoadLest(c)) /\ \A g \in Feps : g # f => f2w'[g] = f2w[g]
    BY <1>t DEF ReqFepEncypt, SendTo, RouteTypeOK
  <1>1. RouteTypeOK'
    <2>1. fepStatus' \in [Feps -> [Clients -> {"NONE", "CONNECTED", "ENCRYPTED", "NOTIFY_INITED"}]]
      BY <1>t DEF ReqFepEncypt, RouteTypeOK
    <2>2. \A g \in Feps, b \in Clients : fepStatus'[g][b] = "NOTIFY_INITED" => fepLs'[g][b] \in Ls
      BY <1>t DEF ReqFepEncypt, RouteTypeOK
    <2>3. f2w' \in [Feps -> Seq(S)]
      <3> HIDE DEF S
      <3>1. f2w \in [Feps -> Seq(S)]
        BY <1>t DEF RouteTypeOK, S
      <3>2. Append(f2w[f], LoadLest(c)) \in Seq(S)
        BY <1>m, <3>1
      <3> QED
        BY <3>1, <3>2 DEF ReqFepEncypt, SendTo
    <2> QED
      BY <1>t, <2>1, <2>2, <2>3 DEF ReqFepEncypt, RouteTypeOK
  <1>2. (\A l \in Ls : LsMirrors(l)') /\ (\A d \in Dps : DpMirrors(d)')
    BY MirrorsStay DEF ReqFepEncypt
  <1>3. OneFrontEnd => \A g \in Feps : AsksOnce(g)'
    <2> SUFFICES ASSUME OneFrontEnd, NEW g \in Feps PROVE AsksOnce(g)'
      OBVIOUS
    <2>1. AsksOnce(g) /\ wsClients' = wsClients
      BY DEF RouteInv, ReqFepEncypt
    <2>2. CASE g = f
      <3>1. ~IsExit(LoadLest(c)) /\ LoadLest(c).client = c
        BY DEF IsExit, LoadLest
      <3>2. fepStatus[f][c] = "CONNECTED"
        BY DEF ReqFepEncypt
      <3>3. ~IsOpen(HeldBy(wsClients), f2w[f], Len(f2w[f]), c)
        BY <2>1, <2>2, <3>2 DEF AsksOnce
      <3>4. \A b \in Clients : fepStatus'[f][b] \in {"NONE", "CONNECTED"}
              => b # c /\ fepStatus[f][b] \in {"NONE", "CONNECTED"}
        BY <1>t DEF RouteTypeOK, ReqFepEncypt
      <3> HIDE DEF S
      <3>5. LoadLest(c) \in {LoadLest(b) : b \in Clients} \cup ExitMsgs
        BY <1>m DEF S
      <3> QED
        BY <1>t, <1>m, <2>1, <2>2, <3>1, <3>3, <3>4, <3>5, AsksAppend
    <2>3. CASE g # f
      <3>1. fepStatus'[g] = fepStatus[g] /\ f2w'[g] = f2w[g]
        BY <1>t, <1>m, <2>3 DEF RouteTypeOK, ReqFepEncypt
      <3> QED
        BY <2>1, <3>1, AsksStay
    <2> QED
      BY <2>2, <2>3
  <1>4. (NeverDown /\ PlacedOnce)'
    BY DEF ReqFepEncypt, NeverDown, PlacedOnce, NoAssert
  <1> QED
    BY <1>1, <1>2, <1>3, <1>4 DEF RouteInv, OneFrontEnd

LEMMA ClientExitKeeps ==
    ASSUME RouteInv, NEW f \in Feps, NEW c \in Clients, ClientExit(f, c), aborted = NoAssert
    PROVE  RouteInv'
  <1> USE RouteAssumption
  <1> DEFINE S == {LoadLest(b) : b \in Clients} \cup ExitMsgs
  <1>t. RouteTypeOK
    BY DEF RouteInv
  <1>m. ExitNotice(c) \in S /\ f2w'[f] = Append(f2w[f], ExitNotice(c)) /\ \A g \in Feps : g # f => f2w'[g] = f2w[g]
    BY <1>t DEF ClientExit, SendTo, RouteTypeOK, ExitMsgs
  <1>1. RouteTypeOK'
    <2>1. fepStatus' \in [Feps -> [Clients -> {"NONE", "CONNECTED", "ENCRYPTED", "NOTIFY_INITED"}]]
      BY <1>t DEF ClientExit, RouteTypeOK
    <2>2. \A g \in Feps, b \in Clients : fepStatus'[g][b] = "NOTIFY_INITED" => fepLs'[g][b] \in Ls
      BY <1>t DEF ClientExit, RouteTypeOK
    <2>3. f2w' \in [Feps -> Seq(S)]
      <3> HIDE DEF S
      <3>1. f2w \in [Feps -> Seq(S)]
        BY <1>t DEF RouteTypeOK, S
      <3>2. Append(f2w[f], ExitNotice(c)) \in Seq(S)
        BY <1>m, <3>1
      <3> QED
        BY <3>1, <3>2 DEF ClientExit, SendTo
    <2>4. fepLs' \in [Feps -> [Clients -> Ls \cup {NoServer}]]
      BY <1>t DEF ClientExit, RouteTypeOK
    <2> QED
      BY <1>t, <2>1, <2>2, <2>3, <2>4 DEF ClientExit, RouteTypeOK
  <1>2. (\A l \in Ls : LsMirrors(l)') /\ (\A d \in Dps : DpMirrors(d)')
    BY MirrorsStay DEF ClientExit
  <1>3. OneFrontEnd => \A g \in Feps : AsksOnce(g)'
    <2> SUFFICES ASSUME OneFrontEnd, NEW g \in Feps PROVE AsksOnce(g)'
      OBVIOUS
    <2>1. AsksOnce(g) /\ wsClients' = wsClients
      BY DEF RouteInv, ClientExit
    <2>2. CASE g = f
      <3>1. IsExit(ExitNotice(c)) /\ ExitNotice(c).client = c
        BY DEF IsExit, ExitNotice
      <3>2. \A b \in Clients : b # c => fepStatus'[f][b] = fepStatus[f][b]
        BY <1>t DEF RouteTypeOK, ClientExit
      <3> HIDE DEF S
      <3>3. ExitNotice(c) \in {LoadLest(b) : b \in Clients} \cup ExitMsgs
        BY <1>m DEF S
      <3> QED
        BY <1>t, <1>m, <2>1, <2>2, <3>1, <3>2, <3>3, AsksAppend
    <2>3. CASE g # f
      <3>1. fepStatus'[g] = fepStatus[g] /\ f2w'[g] = f2w[g]
        BY <1>t, <1>m, <2>3 DEF RouteTypeOK, ClientExit
      <3> QED
        BY <2>1, <3>1, AsksStay
    <2> QED
      BY <2>2, <2>3
  <1>4. (NeverDown /\ PlacedOnce)'
    BY DEF ClientExit, NeverDown, PlacedOnce, NoAssert
  <1> QED
    BY <1>1, <1>2, <1>3, <1>4 DEF RouteInv, OneFrontEnd

(* The notice of the placement at the front end.                                *)
LEMMA FepNotifiedKeeps ==
    ASSUME RouteInv, NEW f \in Feps, FepNotified(f), aborted = NoAssert
    PROVE  RouteInv'
  <1> USE RouteAssumption
  <1> DEFINE msg == Head(w2f[f])
             known == fepStatus[f][msg.client] # "NONE"
  <1>t. RouteTypeOK
    BY DEF RouteInv
  <1>m. msg \in InfoMsgs /\ w2f' \in [Feps -> Seq(InfoMsgs)]
    <2>1. w2f \in [Feps -> Seq(InfoMsgs)] /\ w2f[f] # <<>>
      BY <1>t DEF RouteTypeOK, FepNotified
    <2>2. Tail(w2f[f]) \in Seq(InfoMsgs) /\ Head(w2f[f]) \in InfoMsgs
      BY <2>1, HeadTailProperties
    <2> QED
      BY <2>1, <2>2 DEF FepNotified
  <1>c. msg.client \in Clients /\ msg.ls \in Ls
    BY <1>m DEF InfoMsgs
  <1>s. /\ aborted' = IF known THEN aborted ELSE "FepNotify"
        /\ fepStatus' = IF known THEN [fepStatus EXCEPT ![f][msg.client] = "NOTIFY_INITED"] ELSE fepStatus
        /\ fepLs' = IF known THEN [fepLs EXCEPT ![f][msg.client] = msg.ls] ELSE fepLs
    BY DEF FepNotified, ASSERT
  <1> HIDE DEF msg, known
  <1>1. RouteTypeOK'
    <2>1. fepStatus' \in [Feps -> [Clients -> {"NONE", "CONNECTED", "ENCRYPTED", "NOTIFY_INITED"}]]
      BY <1>t, <1>s, <1>c DEF RouteTypeOK
    <2>2. fepLs' \in [Feps -> [Clients -> Ls \cup {NoServer}]]
      BY <1>t, <1>s, <1>c DEF RouteTypeOK
    <2>3. \A g \in Feps, b \in Clients : fepStatus'[g][b] = "NOTIFY_INITED" => fepLs'[g][b] \in Ls
      BY <1>t, <1>s, <1>c DEF RouteTypeOK
    <2>4. aborted' \in {NoAssert, "FepNotify"}
      BY <1>s
    <2> QED
      BY <1>t, <1>m, <2>1, <2>2, <2>3, <2>4 DEF FepNotified, RouteTypeOK
  <1>2. (\A l \in Ls : LsMirrors(l)') /\ (\A d \in Dps : DpMirrors(d)')
    BY MirrorsStay DEF FepNotified
  <1>3. OneFrontEnd => \A g \in Feps : AsksOnce(g)'
    <2> SUFFICES ASSUME OneFrontEnd, NEW g \in Feps PROVE AsksOnce(g)'
      OBVIOUS
    <2>1. AsksOnce(g) /\ wsClients' = wsClients /\ f2w'[g] = f2w[g]
      BY DEF RouteInv, FepNotified
    <2>2. \A b \in Clients : fepStatus'[g][b] \in {"NONE", "CONNECTED"} => fepStatus[g][b] \in {"NONE", "CONNECTED"}
      BY <1>t, <1>s, <1>c DEF RouteTypeOK
    <2> QED
      BY <2>1, <2>2, AsksStay
  <1>4. (NeverDown /\ PlacedOnce)'
    BY <1>s DEF NeverDown, PlacedOnce, NoAssert
  <1> QED
    BY <1>1, <1>2, <1>3, <1>4 DEF RouteInv, OneFrontEnd

(* The world server places a client, and tells the two servers and the front    *)
(* end.  A client it knows already ends it, and it has told nobody.             *)
LEMMA ReqRoadLestKeeps ==
    ASSUME RouteInv, NEW f \in Feps, ReqRoadLest(f), aborted = NoAssert
    PROVE  RouteInv'
  <1> USE RouteAssumption
  <1> DEFINE S == {LoadLest(b) : b \in Clients} \cup ExitMsgs
             c == Head(f2w[f]).client
             l0 == LoadLestOf(Ls)
             d0 == LoadLestOf(Dps)
             fresh == SessionsOf(wsClients, c) = {}
             new == [client |-> c, fep |-> f, ls |-> l0, dp |-> d0]
             msg == SInfo(c, f, l0, d0)
  <1>t. RouteTypeOK
    BY DEF RouteInv
  <1>f. /\ f2w \in [Feps -> Seq(S)] /\ f2w[f] # <<>> /\ Head(f2w[f]).type = "SSReqLoadLest"
        /\ f2w' = [f2w EXCEPT ![f] = Tail(f2w[f])]
    BY <1>t DEF ReqRoadLest, FromFep, RouteTypeOK
  <1>h. Head(f2w[f]) \in S /\ Tail(f2w[f]) \in Seq(S)
    <2> HIDE DEF S
    <2> QED
      BY <1>f, HeadTailProperties
  <1>c. c \in Clients
    BY <1>h DEF LoadLest, ExitMsgs, ExitNotice
  <1>l. l0 \in Ls /\ d0 \in Dps
    <2>1. \A s \in Ls \cup Dps : nLoadCount[s] \in Nat
      BY <1>t DEF RouteTypeOK
    <2>2. Ls \subseteq Nat /\ Dps \subseteq Nat /\ Ls # {} /\ Dps # {}
      OBVIOUS
    <2> QED
      BY <2>1, <2>2, LoadLestIsOne
  <1>s. /\ aborted' = IF fresh THEN aborted ELSE "WsLoad"
        /\ IF fresh
           THEN /\ wsClients' = wsClients \cup {new}
                /\ w2l' = [w2l EXCEPT ![l0] = Append(w2l[l0], msg)]
                /\ w2d' = [w2d EXCEPT ![d0] = Append(w2d[d0], msg)]
                /\ w2f' = [w2f EXCEPT ![f] = Append(w2f[f], msg)]
                /\ nLoadCount' = [nLoadCount EXCEPT ![l0] = @ + 1, ![d0] = @ + 1, ![f] = @ + 1]
           ELSE UNCHANGED <<wsClients, w2l, w2d, w2f, nLoadCount>>
        /\ UNCHANGED <<fepStatus, fepLs, lsClients, dpClients, nEnters>>
    BY DEF ReqRoadLest, ASSERT, SendTo, fepVars
  <1>i. msg \in InfoMsgs /\ ~IsExit(msg) /\ msg.client = c
    BY <1>c, <1>l DEF SInfo, InfoMsgs, IsExit
  <1>n. new \in [client : Clients, fep : Feps, ls : Ls, dp : Dps]
    BY <1>c, <1>l
  <1>w. fresh <=> ~\E s \in wsClients : s.client = c
    BY DEF SessionsOf
  <1>p. /\ new.client = c /\ new.ls = l0 /\ new.dp = d0
        /\ LsSession(msg) = LsSession(new) /\ DpSession(msg) = DpSession(new)
    BY DEF SInfo, LsSession, DpSession
  <1> HIDE DEF c, l0, d0, fresh, new, msg
  <1>1. RouteTypeOK'
    <2>1. f2w' \in [Feps -> Seq(S)]
      <3> HIDE DEF S
      <3> QED
        BY <1>f, <1>h
    <2>2. wsClients' \subseteq [client : Clients, fep : Feps, ls : Ls, dp : Dps]
      <3>1. wsClients \subseteq [client : Clients, fep : Feps, ls : Ls, dp : Dps]
        BY <1>t DEF RouteTypeOK
      <3>2. wsClients' = wsClients \/ wsClients' = wsClients \cup {new}
        BY <1>s
      <3> QED
        BY <1>n, <3>1, <3>2
    <2>3. w2f' \in [Feps -> Seq(InfoMsgs)]
      <3>1. w2f \in [Feps -> Seq(InfoMsgs)]
        BY <1>t DEF RouteTypeOK
      <3>2. Append(w2f[f], msg) \in Seq(InfoMsgs)
        BY <1>i, <3>1
      <3>3. w2f' = w2f \/ w2f' = [w2f EXCEPT ![f] = Append(w2f[f], msg)]
        BY <1>s
      <3> QED
        BY <3>1, <3>2, <3>3
    <2> DEFINE M == InfoMsgs \cup ExitMsgs
    <2>4. msg \in M
      BY <1>i
    <2>5. w2l \in [Ls -> Seq(M)] /\ w2d \in [Dps -> Seq(M)]
      BY <1>t DEF RouteTypeOK
    <2> HIDE DEF M
    <2>6. w2l' \in [Ls -> Seq(M)]
      <3>1. Append(w2l[l0], msg) \in Seq(M)
        BY <1>l, <2>4, <2>5
      <3> QED
        BY <1>s, <2>5, <3>1
    <2>7. w2d' \in [Dps -> Seq(M)]
      <3>1. Append(w2d[d0], msg) \in Seq(M)
        BY <1>l, <2>4, <2>5
      <3> QED
        BY <1>s, <2>5, <3>1
    <2>8. nLoadCount' \in [Ls \cup Dps \cup Feps -> Nat]
      <3> DEFINE Servers == Ls \cup Dps \cup Feps
      <3>1. nLoadCount \in [Servers -> Nat] /\ l0 \in Servers /\ d0 \in Servers /\ f \in Servers
        BY <1>t, <1>l DEF RouteTypeOK
      <3> HIDE DEF Servers
      <3>2. [nLoadCount EXCEPT ![l0] = @ + 1, ![d0] = @ + 1, ![f] = @ + 1] \in [Servers -> Nat]
        BY <3>1
      <3>3. nLoadCount' = nLoadCount \/ nLoadCount' = [nLoadCount EXCEPT ![l0] = @ + 1, ![d0] = @ + 1, ![f] = @ + 1]
        BY <1>s
      <3> QED
        BY <3>1, <3>2, <3>3 DEF Servers
    <2>9. aborted' \in {NoAssert, "WsLoad"}
      BY <1>s
    <2> QED
      BY <1>t, <1>s, <2>1, <2>2, <2>3, <2>6, <2>7, <2>8, <2>9 DEF RouteTypeOK, M
  <1>2. ASSUME NEW l \in Ls PROVE LsMirrors(l)'
    <2>1. LsMirrors(l) /\ lsClients'[l] = lsClients[l]
      BY <1>s DEF RouteInv
    <2>2. CASE fresh /\ l = l0
      <3>1. w2l'[l] = Append(w2l[l], msg)
        BY <1>t, <1>s, <2>2 DEF RouteTypeOK
      <3>2. {t \in wsClients' : t.ls = l} = {t \in wsClients : t.ls = l} \cup {new}
        BY <1>s, <1>p, <2>2
      <3>3. {LsSession(s) : s \in {t \in wsClients' : t.ls = l}}
              = {LsSession(r) : r \in {t \in wsClients : t.ls = l}} \cup {LsSession(msg)}
        BY <1>p, <3>2
      <3>4. ~\E s \in wsClients : s.ls = l /\ s.client = msg.client
        BY <1>w, <1>i, <2>2
      <3>5. msg \in InfoMsgs \cup ExitMsgs
        BY <1>i
      <3> QED
        BY <1>t, <1>i, <2>1, <3>1, <3>3, <3>4, <3>5, LsTold
    <2>3. CASE ~(fresh /\ l = l0)
      <3>1. w2l'[l] = w2l[l]
        BY <1>t, <1>s, <2>3 DEF RouteTypeOK
      <3>2. {t \in wsClients' : t.ls = l} = {t \in wsClients : t.ls = l}
        BY <1>s, <1>p, <2>3
      <3> QED
        BY <2>1, <3>1, <3>2, LsStays
    <2> QED
      BY <2>2, <2>3
  <1>3. ASSUME NEW d \in Dps PROVE DpMirrors(d)'
    <2>1. DpMirrors(d) /\ dpClients'[d] = dpClients[d]
      BY <1>s DEF RouteInv
    <2>2. CASE fresh /\ d = d0
      <3>1. w2d'[d] = Append(w2d[d], msg)
        BY <1>t, <1>s, <2>2 DEF RouteTypeOK
      <3>2. {t \in wsClients' : t.dp = d} = {t \in wsClients : t.dp = d} \cup {new}
        BY <1>s, <1>p, <2>2
      <3>3. {DpSession(s) : s \in {t \in wsClients' : t.dp = d}}
              = {DpSession(r) : r \in {t \in wsClients : t.dp = d}} \cup {DpSession(msg)}
        BY <1>p, <3>2
      <3>4. ~\E s \in wsClients : s.dp = d /\ s.client = msg.client
        BY <1>w, <1>i, <2>2
      <3>5. msg \in InfoMsgs \cup ExitMsgs
        BY <1>i
      <3> QED
        BY <1>t, <1>i, <2>1, <3>1, <3>3, <3>4, <3>5, DpTold
    <2>3. CASE ~(fresh /\ d = d0)
      <3>1. w2d'[d] = w2d[d]
        BY <1>t, <1>s, <2>3 DEF RouteTypeOK
      <3>2. {t \in wsClients' : t.dp = d} = {t \in wsClients : t.dp = d}
        BY <1>s, <1>p, <2>3
      <3> QED
        BY <2>1, <3>1, <3>2, DpStays
    <2> QED
      BY <2>2, <2>3
  <1>4. OneFrontEnd => fresh
    <2> SUFFICES ASSUME OneFrontEnd PROVE fresh
      OBVIOUS
    <2>1. AsksOnce(f)
      BY DEF RouteInv
    <2>2. ~IsExit(Head(f2w[f]))
      BY <1>f DEF IsExit
    <2>3. Head(f2w[f]) = f2w[f][1] /\ 1 \in 1 .. Len(f2w[f]) /\ 1 - 1 = 0
      <3> HIDE DEF S
      <3>1. f2w[f] \in Seq(S)
        BY <1>f
      <3> QED
        BY <1>f, <3>1, HeadTailProperties, EmptySeq, LenProperties
    <2>4. ~IsOpen(HeldBy(wsClients), f2w[f], 0, c)
      BY <2>1, <2>2, <2>3 DEF AsksOnce, c
    <2>5. c \notin HeldBy(wsClients)
      BY <2>4 DEF IsOpen, Begins
    <2> QED
      BY <1>w, <2>5 DEF HeldBy
  <1>5. OneFrontEnd => \A g \in Feps : AsksOnce(g)'
    <2> SUFFICES ASSUME OneFrontEnd, NEW g \in Feps PROVE AsksOnce(g)'
      OBVIOUS
    <2>1. AsksOnce(f) /\ g = f
      BY DEF RouteInv, OneFrontEnd
    <2>2. ~IsExit(Head(f2w[f]))
      BY <1>f DEF IsExit
    <2>3. HeldBy(wsClients') = HeldBy(wsClients) \cup {c}
      BY <1>4, <1>s, <1>p DEF HeldBy
    <2>4. HeldBy(wsClients') = Taken(HeldBy(wsClients), Head(f2w[f]))
      BY <2>2, <2>3 DEF Taken, c
    <2>5. f2w'[f] = Tail(f2w[f])
      BY <1>f
    <2> QED
      BY <1>t, <1>f, <1>s, <2>1, <2>4, <2>5, AsksTail
  <1>6. (NeverDown /\ PlacedOnce)'
    BY <1>s, <1>4 DEF NeverDown, PlacedOnce, NoAssert, OneFrontEnd
  <1> QED
    BY <1>1, <1>2, <1>3, <1>5, <1>6 DEF RouteInv, OneFrontEnd

(* The world server drops a client and tells the servers it placed it with.     *)
LEMMA NofityClientExitKeeps ==
    ASSUME RouteInv, NEW f \in Feps, NofityClientExit(f), aborted = NoAssert
    PROVE  RouteInv'
  <1> USE RouteAssumption
  <1> DEFINE S == {LoadLest(b) : b \in Clients} \cup ExitMsgs
             M == InfoMsgs \cup ExitMsgs
             c == Head(f2w[f]).client
             session == SessionsOf(wsClients, c)
             msg == ExitNotice(c)
  <1>t. RouteTypeOK
    BY DEF RouteInv
  <1>f. /\ f2w \in [Feps -> Seq(S)] /\ f2w[f] # <<>> /\ Head(f2w[f]).type = "SSNofityClientExit"
        /\ f2w' = [f2w EXCEPT ![f] = Tail(f2w[f])]
    BY <1>t DEF NofityClientExit, FromFep, RouteTypeOK
  <1>h. Head(f2w[f]) \in S /\ Tail(f2w[f]) \in Seq(S)
    <2> HIDE DEF S
    <2> QED
      BY <1>f, HeadTailProperties
  <1>c. c \in Clients
    BY <1>h DEF LoadLest, ExitMsgs, ExitNotice
  <1>s. /\ aborted' = IF session # {} THEN aborted ELSE "WsExit"
        /\ wsClients' = wsClients \ session
        /\ w2l' = [l \in Ls |-> IF \E s \in session : s.ls = l THEN Append(w2l[l], msg) ELSE w2l[l]]
        /\ w2d' = [d \in Dps |-> IF \E s \in session : s.dp = d THEN Append(w2d[d], msg) ELSE w2d[d]]
        /\ UNCHANGED <<fepStatus, fepLs, lsClients, dpClients, nLoadCount, w2f, nEnters>>
    BY DEF NofityClientExit, ASSERT, fepVars
  <1>i. msg \in ExitMsgs /\ msg \in M /\ IsExit(msg) /\ msg.client = c
    BY <1>c DEF ExitNotice, ExitMsgs, IsExit
  <1>w. \A s : s \in session <=> s \in wsClients /\ s.client = c
    BY DEF SessionsOf
  <1>p. \A s : LsSession(s).client = s.client /\ DpSession(s).client = s.client
    BY DEF LsSession, DpSession
  <1> HIDE DEF c, session, msg
  <1>1. RouteTypeOK'
    <2>1. f2w' \in [Feps -> Seq(S)]
      <3> HIDE DEF S
      <3> QED
        BY <1>f, <1>h
    <2>2. wsClients' \subseteq [client : Clients, fep : Feps, ls : Ls, dp : Dps]
      BY <1>t, <1>s DEF RouteTypeOK
    <2>3. w2l \in [Ls -> Seq(M)] /\ w2d \in [Dps -> Seq(M)]
      BY <1>t DEF RouteTypeOK
    <2> HIDE DEF M
    <2>4. w2l' \in [Ls -> Seq(M)]
      <3>1. \A l \in Ls : Append(w2l[l], msg) \in Seq(M)
        BY <1>i, <2>3
      <3> QED
        BY <1>s, <2>3, <3>1
    <2>5. w2d' \in [Dps -> Seq(M)]
      <3>1. \A d \in Dps : Append(w2d[d], msg) \in Seq(M)
        BY <1>i, <2>3
      <3> QED
        BY <1>s, <2>3, <3>1
    <2>6. aborted' \in {NoAssert, "WsExit"}
      BY <1>s
    <2> QED
      BY <1>t, <1>s, <2>1, <2>2, <2>4, <2>5, <2>6 DEF RouteTypeOK, M
  <1> HIDE DEF M
  <1>2. ASSUME NEW l \in Ls PROVE LsMirrors(l)'
    <2>1. LsMirrors(l) /\ lsClients'[l] = lsClients[l]
      BY <1>s DEF RouteInv
    <2>2. CASE \E s \in session : s.ls = l
      <3>1. w2l'[l] = Append(w2l[l], msg)
        BY <1>s, <2>2
      <3>2. {t \in wsClients' : t.ls = l} = {t \in wsClients : t.ls = l /\ t.client # c}
        BY <1>s, <1>w
      <3>3. {LsSession(s) : s \in {t \in wsClients' : t.ls = l}}
              = {s \in {LsSession(r) : r \in {t \in wsClients : t.ls = l}} : s.client # c}
        BY <1>p, <3>2
      <3>4. \E s \in wsClients : s.ls = l /\ s.client = msg.client
        BY <1>w, <1>i, <2>2
      <3>5. msg \in InfoMsgs \cup ExitMsgs
        BY <1>i
      <3> QED
        BY <1>t, <1>i, <2>1, <3>1, <3>3, <3>4, <3>5, LsTold
    <2>3. CASE ~\E s \in session : s.ls = l
      <3>1. w2l'[l] = w2l[l]
        BY <1>s, <2>3
      <3>2. {t \in wsClients' : t.ls = l} = {t \in wsClients : t.ls = l}
        BY <1>s, <2>3
      <3> QED
        BY <2>1, <3>1, <3>2, LsStays
    <2> QED
      BY <2>2, <2>3
  <1>3. ASSUME NEW d \in Dps PROVE DpMirrors(d)'
    <2>1. DpMirrors(d) /\ dpClients'[d] = dpClients[d]
      BY <1>s DEF RouteInv
    <2>2. CASE \E s \in session : s.dp = d
      <3>1. w2d'[d] = Append(w2d[d], msg)
        BY <1>s, <2>2
      <3>2. {t \in wsClients' : t.dp = d} = {t \in wsClients : t.dp = d /\ t.client # c}
        BY <1>s, <1>w
      <3>3. {DpSession(s) : s \in {t \in wsClients' : t.dp = d}}
              = {s \in {DpSession(r) : r \in {t \in wsClients : t.dp = d}} : s.client # c}
        BY <1>p, <3>2
      <3>4. \E s \in wsClients : s.dp = d /\ s.client = msg.client
        BY <1>w, <1>i, <2>2
      <3>5. msg \in InfoMsgs \cup ExitMsgs
        BY <1>i
      <3> QED
        BY <1>t, <1>i, <2>1, <3>1, <3>3, <3>4, <3>5, DpTold
    <2>3. CASE ~\E s \in session : s.dp = d
      <3>1. w2d'[d] = w2d[d]
        BY <1>s, <2>3
      <3>2. {t \in wsClients' : t.dp = d} = {t \in wsClients : t.dp = d}
        BY <1>s, <2>3
      <3> QED
        BY <2>1, <3>1, <3>2, DpStays
    <2> QED
      BY <2>2, <2>3
  <1>4. OneFrontEnd => \A g \in Feps : AsksOnce(g)'
    <2> SUFFICES ASSUME OneFrontEnd, NEW g \in Feps PROVE AsksOnce(g)'
      OBVIOUS
    <2>1. AsksOnce(f) /\ g = f
      BY DEF RouteInv, OneFrontEnd
    <2>2. IsExit(Head(f2w[f]))
      BY <1>f DEF IsExit
    <2>3. HeldBy(wsClients') = HeldBy(wsClients) \ {c}
      BY <1>s, <1>w DEF HeldBy
    <2>4. HeldBy(wsClients') = Taken(HeldBy(wsClients), Head(f2w[f]))
      BY <2>2, <2>3 DEF Taken, c
    <2>5. f2w'[f] = Tail(f2w[f])
      BY <1>f
    <2> QED
      BY <1>t, <1>f, <1>s, <2>1, <2>4, <2>5, AsksTail
  <1>5. (NeverDown /\ PlacedOnce)'
    BY <1>s DEF NeverDown, PlacedOnce, NoAssert
  <1> QED
    BY <1>1, <1>2, <1>3, <1>4, <1>5 DEF RouteInv, OneFrontEnd

(* A login server is told of a placement or of an exit: it knows no such client *)
(* in the one case, and one in the other.                                       *)
LEMMA LsNotifiedKeeps ==
    ASSUME RouteInv, NEW l \in Ls, LsNotified(l), aborted = NoAssert
    PROVE  RouteInv'
  <1> USE RouteAssumption
  <1> DEFINE M == InfoMsgs \cup ExitMsgs
             msg == Head(w2l[l])
             session == SessionsOf(lsClients[l], msg.client)
             kept == IF IsExit(msg) THEN lsClients[l] \ session ELSE lsClients[l] \cup {LsSession(msg)}
  <1>t. RouteTypeOK
    BY DEF RouteInv
  <1>f. w2l \in [Ls -> Seq(M)] /\ w2l[l] # <<>> /\ w2l' = [w2l EXCEPT ![l] = Tail(w2l[l])]
    BY <1>t DEF LsNotified, RouteTypeOK
  <1>m. LsMirrors(l)
    BY DEF RouteInv
  <1>h. msg \in M /\ Tail(w2l[l]) \in Seq(M) /\ w2l[l] \in Seq(M)
    <2> HIDE DEF M
    <2> QED
      BY <1>f, HeadTailProperties
  <1>k. /\ Alternates(HeldBy(kept), Tail(w2l[l]))
        /\ AfterLink(kept, Tail(w2l[l]), LsSession) = AfterLink(lsClients[l], w2l[l], LsSession)
        /\ IsExit(msg) <=> session # {}
    <2>1. Alternates(HeldBy(lsClients[l]), w2l[l])
      BY <1>m DEF LsMirrors
    <2> HIDE DEF M
    <2> QED
      BY <1>f, <1>h, <2>1, LsTake
  <1>u. UNCHANGED <<fepStatus, fepLs, wsClients, dpClients, nLoadCount, f2w, w2f, w2d, nEnters>>
    BY DEF LsNotified, fepVars
  <1>s. aborted' = aborted /\ lsClients' = [lsClients EXCEPT ![l] = kept]
    <2>1. CASE IsExit(msg)
      BY <1>k, <2>1 DEF LsNotified, ASSERT, IsExit
    <2>2. CASE ~IsExit(msg)
      BY <1>k, <2>2 DEF LsNotified, ASSERT, IsExit
    <2> QED
      BY <2>1, <2>2
  <1>c. ~IsExit(msg) => LsSession(msg) \in [client : Clients, fep : Feps, dp : Dps]
    BY <1>h DEF InfoMsgs, ExitMsgs, ExitNotice, IsExit, LsSession
  <1>1. RouteTypeOK'
    <2> HIDE DEF M
    <2>1. w2l' \in [Ls -> Seq(M)]
      BY <1>f, <1>h
    <2>2. kept \in SUBSET [client : Clients, fep : Feps, dp : Dps]
      BY <1>t, <1>c DEF RouteTypeOK
    <2> HIDE DEF kept
    <2>3. lsClients' \in [Ls -> SUBSET [client : Clients, fep : Feps, dp : Dps]]
      BY <1>t, <1>s, <2>2 DEF RouteTypeOK
    <2> QED
      BY <1>t, <1>s, <1>u, <2>1, <2>3 DEF RouteTypeOK, M
  <1> HIDE DEF M, msg, session, kept
  <1>2. ASSUME NEW l2 \in Ls PROVE LsMirrors(l2)'
    <2>1. LsMirrors(l2)
      BY DEF RouteInv
    <2>2. CASE l2 = l
      <3>1. lsClients'[l] = kept /\ w2l'[l] = Tail(w2l[l])
        BY <1>t, <1>s, <1>f DEF RouteTypeOK
      <3>2. AfterLink(lsClients'[l], w2l'[l], LsSession) = {LsSession(s) : s \in {t \in wsClients' : t.ls = l}}
        BY <1>k, <1>u, <1>m, <3>1 DEF LsMirrors, LsWillHold
      <3>3. Alternates(HeldBy(lsClients'[l]), w2l'[l])
        BY <1>k, <3>1
      <3> QED
        BY <2>2, <3>2, <3>3 DEF LsMirrors, LsWillHold
    <2>3. CASE l2 # l
      <3>1. lsClients'[l2] = lsClients[l2] /\ w2l'[l2] = w2l[l2]
        BY <1>t, <1>s, <1>f, <2>3 DEF RouteTypeOK
      <3> QED
        BY <1>u, <2>1, <3>1, LsStays
    <2> QED
      BY <2>2, <2>3
  <1>3. ASSUME NEW d \in Dps PROVE DpMirrors(d)'
    <2>1. DpMirrors(d)
      BY DEF RouteInv
    <2> QED
      BY <1>u, <2>1, DpStays
  <1>4. OneFrontEnd => \A g \in Feps : AsksOnce(g)'
    <2> SUFFICES ASSUME OneFrontEnd, NEW g \in Feps PROVE AsksOnce(g)'
      OBVIOUS
    <2>1. AsksOnce(g)
      BY DEF RouteInv
    <2> QED
      BY <1>u, <2>1, AsksStay
  <1>5. (NeverDown /\ PlacedOnce)'
    BY <1>s DEF NeverDown, PlacedOnce, NoAssert
  <1> QED
    BY <1>1, <1>2, <1>3, <1>4, <1>5 DEF RouteInv, OneFrontEnd

(* And so is a data server.                                                     *)
LEMMA DpNotifiedKeeps ==
    ASSUME RouteInv, NEW d \in Dps, DpNotified(d), aborted = NoAssert
    PROVE  RouteInv'
  <1> USE RouteAssumption
  <1> DEFINE M == InfoMsgs \cup ExitMsgs
             msg == Head(w2d[d])
             session == SessionsOf(dpClients[d], msg.client)
             kept == IF IsExit(msg) THEN dpClients[d] \ session ELSE dpClients[d] \cup {DpSession(msg)}
  <1>t. RouteTypeOK
    BY DEF RouteInv
  <1>f. w2d \in [Dps -> Seq(M)] /\ w2d[d] # <<>> /\ w2d' = [w2d EXCEPT ![d] = Tail(w2d[d])]
    BY <1>t DEF DpNotified, RouteTypeOK
  <1>m. DpMirrors(d)
    BY DEF RouteInv
  <1>h. msg \in M /\ Tail(w2d[d]) \in Seq(M) /\ w2d[d] \in Seq(M)
    <2> HIDE DEF M
    <2> QED
      BY <1>f, HeadTailProperties
  <1>k. /\ Alternates(HeldBy(kept), Tail(w2d[d]))
        /\ AfterLink(kept, Tail(w2d[d]), DpSession) = AfterLink(dpClients[d], w2d[d], DpSession)
        /\ IsExit(msg) <=> session # {}
    <2>1. Alternates(HeldBy(dpClients[d]), w2d[d])
      BY <1>m DEF DpMirrors
    <2> HIDE DEF M
    <2> QED
      BY <1>f, <1>h, <2>1, DpTake
  <1>u. UNCHANGED <<fepStatus, fepLs, wsClients, lsClients, nLoadCount, f2w, w2f, w2l, nEnters>>
    BY DEF DpNotified, fepVars
  <1>s. aborted' = aborted /\ dpClients' = [dpClients EXCEPT ![d] = kept]
    <2>1. CASE IsExit(msg)
      BY <1>k, <2>1 DEF DpNotified, ASSERT, IsExit
    <2>2. CASE ~IsExit(msg)
      BY <1>k, <2>2 DEF DpNotified, ASSERT, IsExit
    <2> QED
      BY <2>1, <2>2
  <1>c. ~IsExit(msg) => DpSession(msg) \in [client : Clients, ls : Ls]
    BY <1>h DEF InfoMsgs, ExitMsgs, ExitNotice, IsExit, DpSession
  <1>1. RouteTypeOK'
    <2> HIDE DEF M
    <2>1. w2d' \in [Dps -> Seq(M)]
      BY <1>f, <1>h
    <2>2. kept \in SUBSET [client : Clients, ls : Ls]
      BY <1>t, <1>c DEF RouteTypeOK
    <2> HIDE DEF kept
    <2>3. dpClients' \in [Dps -> SUBSET [client : Clients, ls : Ls]]
      BY <1>t, <1>s, <2>2 DEF RouteTypeOK
    <2> QED
      BY <1>t, <1>s, <1>u, <2>1, <2>3 DEF RouteTypeOK, M
  <1> HIDE DEF M, msg, session, kept
  <1>2. ASSUME NEW l \in Ls PROVE LsMirrors(l)'
    <2>1. LsMirrors(l)
      BY DEF RouteInv
    <2> QED
      BY <1>u, <2>1, LsStays
  <1>3. ASSUME NEW d2 \in Dps PROVE DpMirrors(d2)'
    <2>1. DpMirrors(d2)
      BY DEF RouteInv
    <2>2. CASE d2 = d
      <3>1. dpClients'[d] = kept /\ w2d'[d] = Tail(w2d[d])
        BY <1>t, <1>s, <1>f DEF RouteTypeOK
      <3>2. AfterLink(dpClients'[d], w2d'[d], DpSession) = {DpSession(s) : s \in {t \in wsClients' : t.dp = d}}
        BY <1>k, <1>u, <1>m, <3>1 DEF DpMirrors, DpWillHold
      <3>3. Alternates(HeldBy(dpClients'[d]), w2d'[d])
        BY <1>k, <3>1
      <3> QED
        BY <2>2, <3>2, <3>3 DEF DpMirrors, DpWillHold
    <2>3. CASE d2 # d
      <3>1. dpClients'[d2] = dpClients[d2] /\ w2d'[d2] = w2d[d2]
        BY <1>t, <1>s, <1>f, <2>3 DEF RouteTypeOK
      <3> QED
        BY <1>u, <2>1, <3>1, DpStays
    <2> QED
      BY <2>2, <2>3
  <1>4. OneFrontEnd => \A g \in Feps : AsksOnce(g)'
    <2> SUFFICES ASSUME OneFrontEnd, NEW g \in Feps PROVE AsksOnce(g)'
      OBVIOUS
    <2>1. AsksOnce(g)
      BY DEF RouteInv
    <2> QED
      BY <1>u, <2>1, AsksStay
  <1>5. (NeverDown /\ PlacedOnce)'
    BY <1>s DEF NeverDown, PlacedOnce, NoAssert
  <1> QED
    BY <1>1, <1>2, <1>3, <1>4, <1>5 DEF RouteInv, OneFrontEnd

(* No step leaves the invariant.                                                *)
LEMMA RouteInvStep == RouteInv /\ [RouteNext]_routeVars => RouteInv'
  <1> SUFFICES ASSUME RouteInv, [RouteNext]_routeVars PROVE RouteInv'
    OBVIOUS
  <1>1. CASE UNCHANGED routeVars
    <2>1. UNCHANGED <<fepStatus, fepLs, wsClients, lsClients, dpClients, nLoadCount, f2w, w2f, w2l, w2d, nEnters, aborted>>
      BY <1>1 DEF routeVars, fepVars, links
    <2>2. (\A l \in Ls : LsMirrors(l)') /\ (\A d \in Dps : DpMirrors(d)')
      BY <2>1, MirrorsStay
    <2>3. ASSUME OneFrontEnd, NEW g \in Feps PROVE AsksOnce(g)'
      <3>1. AsksOnce(g)
        BY <2>3 DEF RouteInv
      <3> QED
        BY <2>1, <3>1, AsksStay
    <2>4. RouteTypeOK'
      BY <2>1 DEF RouteInv, RouteTypeOK
    <2>5. (NeverDown /\ PlacedOnce)'
      BY <2>1 DEF RouteInv, NeverDown, PlacedOnce, OneFrontEnd
    <2> QED
      BY <2>2, <2>3, <2>4, <2>5 DEF RouteInv, OneFrontEnd
  <1>2. CASE aborted = NoAssert /\ \E f \in Feps : ClientNext(f) \/ FepNotified(f)
    <2>1. PICK f \in Feps : ClientNext(f) \/ FepNotified(f)
      BY <1>2
    <2>2. CASE FepNotified(f)
      BY <1>2, <2>2, FepNotifiedKeeps
    <2>3. CASE ClientNext(f)
      <3>1. PICK c \in Clients : ClientEnter(f, c) \/ ReqFepEncypt(f, c) \/ ClientExit(f, c)
        BY <2>3 DEF ClientNext
      <3>2. CASE ClientEnter(f, c)
        BY <1>2, <3>2, ClientEnterKeeps
      <3>3. CASE ReqFepEncypt(f, c)
        BY <1>2, <3>3, ReqFepEncyptKeeps
      <3>4. CASE ClientExit(f, c)
        BY <1>2, <3>4, ClientExitKeeps
      <3> QED
        BY <3>1, <3>2, <3>3, <3>4
    <2> QED
      BY <2>1, <2>2, <2>3
  <1>3. CASE aborted = NoAssert /\ WsNext
    <2>1. PICK f \in Feps : ReqRoadLest(f) \/ NofityClientExit(f)
      BY <1>3 DEF WsNext
    <2>2. CASE ReqRoadLest(f)
      BY <1>3, <2>2, ReqRoadLestKeeps
    <2>3. CASE NofityClientExit(f)
      BY <1>3, <2>3, NofityClientExitKeeps
    <2> QED
      BY <2>1, <2>2, <2>3
  <1>4. CASE aborted = NoAssert /\ \E l \in Ls : LsNotified(l)
    BY <1>4, LsNotifiedKeeps
  <1>5. CASE aborted = NoAssert /\ \E d \in Dps : DpNotified(d)
    BY <1>5, DpNotifiedKeeps
  <1> QED
    BY <1>1, <1>2, <1>3, <1>4, <1>5 DEF RouteNext

THEOREM RouteInvariant == RouteSpec => []RouteInv
  BY RouteInvInit, RouteInvStep, PTL DEF RouteSpec

(* The variables of the route have their types (RouteTypeOK): a client that may *)
(* log in has a login server.                                                   *)
THEOREM RouteTypeCorrect == RouteSpec => []RouteTypeOK
  <1>1. RouteInv => RouteTypeOK
    BY DEF RouteInv
  <1> QED
    BY <1>1, RouteInvariant, PTL

(* For any number of clients, front ends, login and data servers, the servers   *)
(* follow the world server (NotifyClientSessionInfo, NofityClientExit): once    *)
(* they have taken their messages they hold what it placed with them.           *)
THEOREM DownstreamFollows == RouteSpec => []DownstreamMirrorsWs
  <1>1. RouteInv => DownstreamMirrorsWs
    BY DEF RouteInv, DownstreamMirrorsWs, LsMirrors, DpMirrors
  <1> QED
    BY <1>1, RouteInvariant, PTL

(* A login or a data server finds the session of an exit and none of a client   *)
(* that is placed with it: no ASSERT of their handlers fails.                   *)
THEOREM DownstreamNeverAborts == RouteSpec => []NeverDown
  <1>1. RouteInv => NeverDown
    BY DEF RouteInv
  <1> QED
    BY <1>1, RouteInvariant, PTL

(* With one front end the world server is never asked to place a client that it *)
(* knows, however fast a session ID is used again.                              *)
THEOREM OneFrontEndAsksOnce == RouteSpec => []PlacedOnce
  <1>1. RouteInv => PlacedOnce
    BY DEF RouteInv
  <1> QED
    BY <1>1, RouteInvariant, PTL

-----------------------------------------------------------------------------
(* The world server, the login servers and the data servers implement           *)
(* ClientDirectory.  The versions that a server goes through are those after    *)
(* the beginnings of its link.                                                  *)

(* A function on 1 .. n is a sequence: one longer by one, one shorter.          *)
LEMMA LongerByOne ==
    ASSUME NEW S, NEW n \in Nat, NEW f \in [1 .. n -> S], NEW g \in [1 .. n + 1 -> S],
           \A k \in 1 .. n : g[k] = f[k]
    PROVE  g = Append(f, g[n + 1])
  <1>3. g[n + 1] \in S
    OBVIOUS
  <1>4. f \in Seq(S) /\ Len(f) = n
    OBVIOUS
  <1>5. g \in Seq(S) /\ Len(g) = n + 1
    OBVIOUS
  <1> DEFINE h == Append(f, g[n + 1])
  <1>6. h \in Seq(S) /\ Len(h) = n + 1 /\ h[n + 1] = g[n + 1] /\ \A i \in 1 .. n : h[i] = f[i]
    BY <1>3, <1>4, AppendProperties
  <1> HIDE DEF h
  <1>7. \A i \in 1 .. n + 1 : i \in 1 .. n \/ i = n + 1
    OBVIOUS
  <1>8. \A i \in 1 .. Len(g) : g[i] = h[i]
    BY <1>5, <1>6, <1>7
  <1> QED
    BY <1>5, <1>6, <1>8, SeqEqual DEF h

LEMMA ShorterByOne ==
    ASSUME NEW S, NEW n \in Nat, n >= 1, NEW f \in [1 .. n -> S], NEW g \in [1 .. n - 1 -> S],
           \A k \in 1 .. n - 1 : g[k] = f[k + 1]
    PROVE  f # <<>> /\ Head(f) = f[1] /\ Tail(f) = g
  <1>3. f \in Seq(S) /\ Len(f) = n
    OBVIOUS
  <1>4. g \in Seq(S) /\ Len(g) = n - 1
    <2>1. n - 1 \in Nat
      OBVIOUS
    <2> QED
      BY <2>1
  <1>5. f # <<>>
    BY <1>3, EmptySeq
  <1>6. Tail(f) \in Seq(S) /\ Len(Tail(f)) = n - 1 /\ \A i \in 1 .. n - 1 : Tail(f)[i] = f[i + 1]
    BY <1>3, <1>5, HeadTailProperties
  <1>7. Tail(f) = g
    BY <1>4, <1>6, SeqEqual
  <1>8. Head(f) = f[1]
    BY <1>3, <1>5
  <1> QED
    BY <1>5, <1>7, <1>8

(* The beginnings of a link with one more message.                              *)
LEMMA PrefixAppend ==
    ASSUME NEW S, NEW link \in Seq(S), NEW msg \in S
    PROVE  /\ \A k \in 1 .. Len(link) : SubSeq(Append(link, msg), 1, k) = SubSeq(link, 1, k)
           /\ SubSeq(Append(link, msg), 1, Len(link) + 1) = Append(link, msg)
  <1> DEFINE N == Len(link)
             new == Append(link, msg)
  <1>1. N \in Nat /\ new \in Seq(S) /\ Len(new) = N + 1 /\ \A i \in 1 .. N : new[i] = link[i]
    BY AppendProperties, LenProperties
  <1>2. \A i \in 1 .. N + 1 : new[i] \in S
    BY <1>1, ElementOfSeq
  <1>3. \A i \in 1 .. N : link[i] \in S
    BY ElementOfSeq
  <1> HIDE DEF new, N
  <1>4. ASSUME NEW k \in 1 .. N PROVE SubSeq(new, 1, k) = SubSeq(link, 1, k)
    <2>1. k \in Int /\ 1 \in Int /\ k >= 1 /\ k - 1 + 1 = k
      BY <1>1
    <2>2. \A i \in 1 .. k : i \in 1 .. N /\ i \in 1 .. N + 1 /\ 1 + i - 1 = i
      BY <1>1
    <2>3. SubSeq(new, 1, k) \in Seq(S) /\ Len(SubSeq(new, 1, k)) = k /\ \A i \in 1 .. k : SubSeq(new, 1, k)[i] = new[i]
      BY <1>2, <2>1, <2>2, SubSeqProperties
    <2>4. SubSeq(link, 1, k) \in Seq(S) /\ Len(SubSeq(link, 1, k)) = k /\ \A i \in 1 .. k : SubSeq(link, 1, k)[i] = link[i]
      BY <1>3, <2>1, <2>2, SubSeqProperties
    <2>5. \A i \in 1 .. k : new[i] = link[i]
      BY <1>1, <2>2
    <2> QED
      BY <2>3, <2>4, <2>5, SeqEqual
  <1>5. SubSeq(new, 1, N + 1) = new
    BY <1>1, SubSeqFull
  <1> QED
    BY <1>4, <1>5 DEF new, N

(* The beginning of a link is in order as the link is.                          *)
LEMMA PrefixInOrder ==
    ASSUME NEW S, NEW link \in Seq(S), link # <<>>, NEW owns, Alternates(owns, link),
           NEW n \in 1 .. Len(link)
    PROVE  /\ SubSeq(link, 1, n) \in Seq(S) /\ SubSeq(link, 1, n) # <<>>
           /\ Head(SubSeq(link, 1, n)) = Head(link)
           /\ Tail(SubSeq(link, 1, n)) = SubSeq(Tail(link), 1, n - 1)
           /\ Alternates(owns, SubSeq(link, 1, n))
  <1> DEFINE prefix == SubSeq(link, 1, n)
             t == Tail(link)
  <1>1. Len(link) \in Nat /\ n \in Nat /\ n >= 1 /\ n =< Len(link)
    BY LenProperties
  <1>2. \A i \in 1 .. n : i \in 1 .. Len(link) /\ 1 + i - 1 = i
    BY <1>1
  <1>3. prefix \in Seq(S) /\ Len(prefix) = n /\ \A i \in 1 .. n : prefix[i] = link[i]
    <2>1. \A i \in 1 .. n : link[i] \in S
      BY <1>2, ElementOfSeq
    <2>2. n \in Int /\ 1 \in Int /\ n - 1 + 1 = n
      BY <1>1
    <2> QED
      BY <1>1, <1>2, <2>1, <2>2, SubSeqProperties
  <1>4. prefix # <<>>
    BY <1>1, <1>3, EmptySeq
  <1>5. Head(prefix) = Head(link) /\ Tail(prefix) = SubSeq(link, 2, n)
    <2>1. 1 \in 1 .. Len(link) /\ n \in 1 .. Len(link) /\ 1 + 1 = 2
      BY <1>1
    <2>2. Head(prefix) = link[1] /\ Tail(prefix) = SubSeq(link, 1 + 1, n)
      BY <2>1, HeadTailOfSubSeq
    <2> QED
      BY <2>1, <2>2
  <1>6. Tail(prefix) = SubSeq(t, 1, n - 1)
    <2> DEFINE u == SubSeq(t, 1, n - 1)
    <2>1. t \in Seq(S) /\ Len(t) = Len(link) - 1 /\ \A i \in 1 .. Len(t) : t[i] = link[i + 1]
      BY HeadTailProperties
    <2>2. \A i \in 1 .. n - 1 : i \in 1 .. Len(t) /\ 1 + i - 1 = i /\ i + 1 \in 1 .. n
      BY <1>1, <2>1
    <2>3. n - 1 \in Int /\ 1 \in Int /\ (n - 1) - 1 + 1 = n - 1 /\ (1 =< n - 1 \/ n - 1 = 0)
      BY <1>1
    <2>4. \A i \in 1 .. n - 1 : t[i] \in S
      BY <2>1, <2>2, ElementOfSeq
    <2>5. u \in Seq(S) /\ Len(u) = n - 1 /\ \A i \in 1 .. n - 1 : u[i] = t[i]
      BY <2>2, <2>3, <2>4, SubSeqProperties
    <2>6. Tail(prefix) \in Seq(S) /\ Len(Tail(prefix)) = n - 1 /\ \A i \in 1 .. n - 1 : Tail(prefix)[i] = prefix[i + 1]
      BY <1>3, <1>4, HeadTailProperties
    <2>7. \A i \in 1 .. n - 1 : Tail(prefix)[i] = u[i]
      BY <1>3, <2>1, <2>2, <2>5, <2>6
    <2> HIDE DEF u
    <2>8. Tail(prefix) = u
      BY <2>5, <2>6, <2>7, SeqEqual
    <2> QED
      BY <2>8 DEF u
  <1>7. Alternates(owns, prefix)
    <2> SUFFICES ASSUME NEW k \in 1 .. n
                 PROVE  IsExit(prefix[k]) <=> IsOpen(owns, prefix, k - 1, prefix[k].client)
      BY <1>3 DEF Alternates
    <2> HIDE DEF prefix
    <2>1. prefix[k] = link[k] /\ k \in 1 .. Len(link)
      BY <1>2, <1>3
    <2>2. \A c : \A i \in 0 .. k - 1 : Begins(owns, prefix, i, c) <=> Begins(owns, link, i, c)
      <3>1. \A i \in 0 .. k - 1 : i = 0 \/ i \in 1 .. n
        BY <1>1
      <3> QED
        BY <1>3, <3>1 DEF Begins
    <2>3. \A i \in 0 .. k - 1 : \A j \in i + 1 .. k - 1 : prefix[j] = link[j]
      <3>1. \A i \in 0 .. k - 1 : \A j \in i + 1 .. k - 1 : j \in 1 .. n
        BY <1>1
      <3> QED
        BY <1>3, <3>1
    <2>4. \A c : IsOpen(owns, prefix, k - 1, c) <=> IsOpen(owns, link, k - 1, c)
      BY <2>2, <2>3 DEF IsOpen
    <2> QED
      BY <2>1, <2>4 DEF Alternates
  <1> QED
    BY <1>3, <1>4, <1>5, <1>6, <1>7

(* An empty link brings nothing.                                                *)
LEMMA NothingComes ==
    ASSUME NEW sessions
    PROVE  /\ AfterLink(sessions, <<>>, LsSession) = sessions
           /\ AfterLink(sessions, <<>>, DpSession) = sessions
  <1>1. Standing(<<>>) = {} /\ Staying(sessions, <<>>) = sessions
    BY DEF Standing, Staying, ExitFollows
  <1> QED
    BY <1>1 DEF AfterLink

(* The versions of a login server, as a message is put on its link or taken.    *)
LEMMA LsVersionsPut ==
    ASSUME NEW S, NEW link \in Seq(S), NEW msg \in S, NEW sessions
    PROVE  Versions(sessions, Append(link, msg), LsSession)
             = Append(Versions(sessions, link, LsSession), AfterLink(sessions, Append(link, msg), LsSession))
  <1> DEFINE N == Len(link)
             new == Append(link, msg)
             old == Versions(sessions, link, LsSession)
             all == Versions(sessions, new, LsSession)
  <1>1. N \in Nat /\ Len(new) = N + 1
    BY AppendProperties
  <1>2. /\ \A k \in 1 .. N : SubSeq(new, 1, k) = SubSeq(link, 1, k)
        /\ SubSeq(new, 1, N + 1) = new
    BY PrefixAppend
  <1> HIDE DEF N, new
  <1>3. old = [k \in 1 .. N |-> AfterLink(sessions, SubSeq(link, 1, k), LsSession)]
    BY DEF Versions, N
  <1>4. all = [k \in 1 .. N + 1 |-> AfterLink(sessions, SubSeq(new, 1, k), LsSession)]
    BY <1>1 DEF Versions
  <1> HIDE DEF old, all
  <1>5. \A k \in 1 .. N : k \in 1 .. N + 1
    BY <1>1
  <1>6. \A k \in 1 .. N : all[k] = old[k]
    BY <1>2, <1>3, <1>4, <1>5
  <1>7. N + 1 \in 1 .. N + 1
    BY <1>1
  <1>8. all[N + 1] = AfterLink(sessions, new, LsSession)
    BY <1>2, <1>4, <1>7
  <1> DEFINE V == {all[k] : k \in 1 .. N + 1}
  <1>9. old \in [1 .. N -> V] /\ all \in [1 .. N + 1 -> V]
    <2>1. \A k \in 1 .. N + 1 : all[k] \in V
      OBVIOUS
    <2>2. \A k \in 1 .. N : old[k] \in V
      BY <1>5, <1>6, <2>1
    <2> HIDE DEF V
    <2> QED
      BY <1>3, <1>4, <2>1, <2>2
  <1> HIDE DEF V
  <1>10. all = Append(old, all[N + 1])
    BY <1>1, <1>6, <1>9, LongerByOne
  <1> QED
    BY <1>8, <1>10 DEF old, all, new

LEMMA LsVersionsTake ==
    ASSUME NEW S, NEW link \in Seq(S), link # <<>>, NEW sessions, Alternates(HeldBy(sessions), link)
    PROVE  LET msg == Head(link)
               kept == IF IsExit(msg) THEN sessions \ SessionsOf(sessions, msg.client)
                                      ELSE sessions \cup {LsSession(msg)}
               versions == Versions(sessions, link, LsSession)
           IN /\ versions # <<>>
              /\ Head(versions) = kept
              /\ Tail(versions) = Versions(kept, Tail(link), LsSession)
  <1> DEFINE N == Len(link)
             msg == Head(link)
             kept == IF IsExit(msg) THEN sessions \ SessionsOf(sessions, msg.client)
                                    ELSE sessions \cup {LsSession(msg)}
             versions == Versions(sessions, link, LsSession)
             rest == Versions(kept, Tail(link), LsSession)
  <1>1. N \in Nat /\ N >= 1 /\ Len(Tail(link)) = N - 1
    BY LenProperties, EmptySeq, HeadTailProperties
  <1>2. ASSUME NEW k \in 1 .. N
        PROVE  /\ AfterLink(sessions, SubSeq(link, 1, k), LsSession)
                     = AfterLink(kept, Tail(SubSeq(link, 1, k)), LsSession)
               /\ Tail(SubSeq(link, 1, k)) = SubSeq(Tail(link), 1, k - 1)
    <2> DEFINE prefix == SubSeq(link, 1, k)
    <2>1. /\ prefix \in Seq(S) /\ prefix # <<>> /\ Head(prefix) = Head(link)
          /\ Tail(prefix) = SubSeq(Tail(link), 1, k - 1)
          /\ Alternates(HeldBy(sessions), prefix)
      BY PrefixInOrder
    <2> HIDE DEF prefix
    <2> DEFINE first == IF IsExit(Head(prefix)) THEN sessions \ SessionsOf(sessions, Head(prefix).client)
                                                ELSE sessions \cup {LsSession(Head(prefix))}
    <2>2. AfterLink(first, Tail(prefix), LsSession) = AfterLink(sessions, prefix, LsSession)
      BY <2>1, LsTake
    <2>3. first = kept
      BY <2>1
    <2> HIDE DEF first, kept
    <2> QED
      BY <2>1, <2>2, <2>3 DEF prefix
  <1>3. SubSeq(Tail(link), 1, 0) = <<>>
    BY SubSeqEmpty
  <1>4. AfterLink(kept, <<>>, LsSession) = kept
    BY NothingComes
  <1> HIDE DEF N, msg, kept
  <1>5. versions = [k \in 1 .. N |-> AfterLink(sessions, SubSeq(link, 1, k), LsSession)]
    BY DEF Versions, N
  <1>6. rest = [k \in 1 .. N - 1 |-> AfterLink(kept, SubSeq(Tail(link), 1, k), LsSession)]
    BY <1>1 DEF Versions
  <1> HIDE DEF versions, rest
  <1>7. versions[1] = kept
    <2>1. 1 \in 1 .. N /\ 1 - 1 = 0
      BY <1>1
    <2> QED
      BY <1>2, <1>3, <1>4, <1>5, <2>1
  <1>8. ASSUME NEW k \in 1 .. N - 1 PROVE rest[k] = versions[k + 1]
    <2>1. k + 1 \in 1 .. N /\ (k + 1) - 1 = k
      BY <1>1
    <2>2. AfterLink(sessions, SubSeq(link, 1, k + 1), LsSession) = AfterLink(kept, SubSeq(Tail(link), 1, k), LsSession)
      BY <1>2, <2>1
    <2> QED
      BY <1>5, <1>6, <2>1, <2>2
  <1> DEFINE V == {versions[k] : k \in 1 .. N}
  <1>9. versions \in [1 .. N -> V] /\ rest \in [1 .. N - 1 -> V]
    <2>1. \A k \in 1 .. N : versions[k] \in V
      OBVIOUS
    <2>2. \A k \in 1 .. N - 1 : k + 1 \in 1 .. N
      BY <1>1
    <2>3. \A k \in 1 .. N - 1 : rest[k] \in V
      BY <1>8, <2>1, <2>2
    <2> HIDE DEF V
    <2> QED
      BY <1>5, <1>6, <2>1, <2>3
  <1> HIDE DEF V
  <1>10. versions # <<>> /\ Head(versions) = versions[1] /\ Tail(versions) = rest
    BY <1>1, <1>8, <1>9, ShorterByOne
  <1> QED
    BY <1>7, <1>10 DEF versions, rest, kept, msg

(* The versions of a data server, as a message is put on its link or taken.     *)
LEMMA DpVersionsPut ==
    ASSUME NEW S, NEW link \in Seq(S), NEW msg \in S, NEW sessions
    PROVE  Versions(sessions, Append(link, msg), DpSession)
             = Append(Versions(sessions, link, DpSession), AfterLink(sessions, Append(link, msg), DpSession))
  <1> DEFINE N == Len(link)
             new == Append(link, msg)
             old == Versions(sessions, link, DpSession)
             all == Versions(sessions, new, DpSession)
  <1>1. N \in Nat /\ Len(new) = N + 1
    BY AppendProperties
  <1>2. /\ \A k \in 1 .. N : SubSeq(new, 1, k) = SubSeq(link, 1, k)
        /\ SubSeq(new, 1, N + 1) = new
    BY PrefixAppend
  <1> HIDE DEF N, new
  <1>3. old = [k \in 1 .. N |-> AfterLink(sessions, SubSeq(link, 1, k), DpSession)]
    BY DEF Versions, N
  <1>4. all = [k \in 1 .. N + 1 |-> AfterLink(sessions, SubSeq(new, 1, k), DpSession)]
    BY <1>1 DEF Versions
  <1> HIDE DEF old, all
  <1>5. \A k \in 1 .. N : k \in 1 .. N + 1
    BY <1>1
  <1>6. \A k \in 1 .. N : all[k] = old[k]
    BY <1>2, <1>3, <1>4, <1>5
  <1>7. N + 1 \in 1 .. N + 1
    BY <1>1
  <1>8. all[N + 1] = AfterLink(sessions, new, DpSession)
    BY <1>2, <1>4, <1>7
  <1> DEFINE V == {all[k] : k \in 1 .. N + 1}
  <1>9. old \in [1 .. N -> V] /\ all \in [1 .. N + 1 -> V]
    <2>1. \A k \in 1 .. N + 1 : all[k] \in V
      OBVIOUS
    <2>2. \A k \in 1 .. N : old[k] \in V
      BY <1>5, <1>6, <2>1
    <2> HIDE DEF V
    <2> QED
      BY <1>3, <1>4, <2>1, <2>2
  <1> HIDE DEF V
  <1>10. all = Append(old, all[N + 1])
    BY <1>1, <1>6, <1>9, LongerByOne
  <1> QED
    BY <1>8, <1>10 DEF old, all, new

LEMMA DpVersionsTake ==
    ASSUME NEW S, NEW link \in Seq(S), link # <<>>, NEW sessions, Alternates(HeldBy(sessions), link)
    PROVE  LET msg == Head(link)
               kept == IF IsExit(msg) THEN sessions \ SessionsOf(sessions, msg.client)
                                      ELSE sessions \cup {DpSession(msg)}
               versions == Versions(sessions, link, DpSession)
           IN /\ versions # <<>>
              /\ Head(versions) = kept
              /\ Tail(versions) = Versions(kept, Tail(link), DpSession)
  <1> DEFINE N == Len(link)
             msg == Head(link)
             kept == IF IsExit(msg) THEN sessions \ SessionsOf(sessions, msg.client)
                                    ELSE sessions \cup {DpSession(msg)}
             versions == Versions(sessions, link, DpSession)
             rest == Versions(kept, Tail(link), DpSession)
  <1>1. N \in Nat /\ N >= 1 /\ Len(Tail(link)) = N - 1
    BY LenProperties, EmptySeq, HeadTailProperties
  <1>2. ASSUME NEW k \in 1 .. N
        PROVE  /\ AfterLink(sessions, SubSeq(link, 1, k), DpSession)
                     = AfterLink(kept, Tail(SubSeq(link, 1, k)), DpSession)
               /\ Tail(SubSeq(link, 1, k)) = SubSeq(Tail(link), 1, k - 1)
    <2> DEFINE prefix == SubSeq(link, 1, k)
    <2>1. /\ prefix \in Seq(S) /\ prefix # <<>> /\ Head(prefix) = Head(link)
          /\ Tail(prefix) = SubSeq(Tail(link), 1, k - 1)
          /\ Alternates(HeldBy(sessions), prefix)
      BY PrefixInOrder
    <2> HIDE DEF prefix
    <2> DEFINE first == IF IsExit(Head(prefix)) THEN sessions \ SessionsOf(sessions, Head(prefix).client)
                                                ELSE sessions \cup {DpSession(Head(prefix))}
    <2>2. AfterLink(first, Tail(prefix), DpSession) = AfterLink(sessions, prefix, DpSession)
      BY <2>1, DpTake
    <2>3. first = kept
      BY <2>1
    <2> HIDE DEF first, kept
    <2> QED
      BY <2>1, <2>2, <2>3 DEF prefix
  <1>3. SubSeq(Tail(link), 1, 0) = <<>>
    BY SubSeqEmpty
  <1>4. AfterLink(kept, <<>>, DpSession) = kept
    BY NothingComes
  <1> HIDE DEF N, msg, kept
  <1>5. versions = [k \in 1 .. N |-> AfterLink(sessions, SubSeq(link, 1, k), DpSession)]
    BY DEF Versions, N
  <1>6. rest = [k \in 1 .. N - 1 |-> AfterLink(kept, SubSeq(Tail(link), 1, k), DpSession)]
    BY <1>1 DEF Versions
  <1> HIDE DEF versions, rest
  <1>7. versions[1] = kept
    <2>1. 1 \in 1 .. N /\ 1 - 1 = 0
      BY <1>1
    <2> QED
      BY <1>2, <1>3, <1>4, <1>5, <2>1
  <1>8. ASSUME NEW k \in 1 .. N - 1 PROVE rest[k] = versions[k + 1]
    <2>1. k + 1 \in 1 .. N /\ (k + 1) - 1 = k
      BY <1>1
    <2>2. AfterLink(sessions, SubSeq(link, 1, k + 1), DpSession) = AfterLink(kept, SubSeq(Tail(link), 1, k), DpSession)
      BY <1>2, <2>1
    <2> QED
      BY <1>5, <1>6, <2>1, <2>2
  <1> DEFINE V == {versions[k] : k \in 1 .. N}
  <1>9. versions \in [1 .. N -> V] /\ rest \in [1 .. N - 1 -> V]
    <2>1. \A k \in 1 .. N : versions[k] \in V
      OBVIOUS
    <2>2. \A k \in 1 .. N - 1 : k + 1 \in 1 .. N
      BY <1>1
    <2>3. \A k \in 1 .. N - 1 : rest[k] \in V
      BY <1>8, <2>1, <2>2
    <2> HIDE DEF V
    <2> QED
      BY <1>5, <1>6, <2>1, <2>3
  <1> HIDE DEF V
  <1>10. versions # <<>> /\ Head(versions) = versions[1] /\ Tail(versions) = rest
    BY <1>1, <1>8, <1>9, ShorterByOne
  <1> QED
    BY <1>7, <1>10 DEF versions, rest, kept, msg

LsShare(l, dir) == {LsSession(x) : x \in {t \in dir : t.ls = l}}
DpShare(d, dir) == {DpSession(x) : x \in {t \in dir : t.dp = d}}

Placements == [client : Clients, fep : Feps, ls : Ls, dp : Dps]

(* The share of a server in the directory, by its kind.                         *)
LEMMA SharesAre ==
    ASSUME NEW dir, dir \subseteq Placements
    PROVE  /\ \A l \in Ls : Directory!Share(l, dir) = LsShare(l, dir)
           /\ \A d \in Dps : Directory!Share(d, dir) = DpShare(d, dir)
  <1> USE RouteAssumption
  <1>1. \A x \in dir : x.ls \in Ls /\ x.dp \in Dps
    BY DEF Placements
  <1>2. ASSUME NEW l \in Ls PROVE Directory!Share(l, dir) = LsShare(l, dir)
    <2>1. {y \in dir : l \in {y.ls, y.dp}} = {t \in dir : t.ls = l}
      BY <1>1
    <2>2. \A x : Directory!View(l, x) = LsSession(x)
      BY DEF Directory!View, LsSession
    <2> QED
      BY <2>1, <2>2 DEF Directory!Share, LsShare
  <1>3. ASSUME NEW d \in Dps PROVE Directory!Share(d, dir) = DpShare(d, dir)
    <2>1. {y \in dir : d \in {y.ls, y.dp}} = {t \in dir : t.dp = d}
      BY <1>1
    <2>2. \A x : Directory!View(d, x) = DpSession(x)
      BY DEF Directory!View, DpSession
    <2> QED
      BY <2>1, <2>2 DEF Directory!Share, DpShare
  <1> QED
    BY <1>2, <1>3

(* A server whose share the world server changes is sent one message, and its   *)
(* last version is the new share; the others are sent none.                     *)
LEMMA LsSideChanges ==
    ASSUME RouteInv, RouteInv', NEW l \in Ls, lsClients'[l] = lsClients[l],
           \/ w2l'[l] = w2l[l] /\ {t \in wsClients' : t.ls = l} = {t \in wsClients : t.ls = l}
           \/ /\ \E msg \in InfoMsgs \cup ExitMsgs : w2l'[l] = Append(w2l[l], msg)
              /\ LsShare(l, wsClients') # LsShare(l, wsClients)
    PROVE  Versions(lsClients'[l], w2l'[l], LsSession)
             = IF LsShare(l, wsClients') = LsShare(l, wsClients)
               THEN Versions(lsClients[l], w2l[l], LsSession)
               ELSE Append(Versions(lsClients[l], w2l[l], LsSession), LsShare(l, wsClients'))
  <1>1. CASE w2l'[l] = w2l[l] /\ {t \in wsClients' : t.ls = l} = {t \in wsClients : t.ls = l}
    BY <1>1 DEF LsShare
  <1>2. CASE /\ \E msg \in InfoMsgs \cup ExitMsgs : w2l'[l] = Append(w2l[l], msg)
             /\ LsShare(l, wsClients') # LsShare(l, wsClients)
    <2> DEFINE S == InfoMsgs \cup ExitMsgs
    <2>1. PICK msg \in S : w2l'[l] = Append(w2l[l], msg)
      BY <1>2
    <2>2. w2l[l] \in Seq(S)
      BY DEF RouteInv, RouteTypeOK
    <2> HIDE DEF S
    <2>3. Versions(lsClients[l], Append(w2l[l], msg), LsSession)
            = Append(Versions(lsClients[l], w2l[l], LsSession), AfterLink(lsClients[l], Append(w2l[l], msg), LsSession))
      BY <2>2, LsVersionsPut
    <2>4. AfterLink(lsClients'[l], w2l'[l], LsSession) = LsShare(l, wsClients')
      BY DEF RouteInv, LsMirrors, LsWillHold, LsShare
    <2> QED
      BY <1>2, <2>1, <2>3, <2>4
  <1> QED
    BY <1>1, <1>2

LEMMA DpSideChanges ==
    ASSUME RouteInv, RouteInv', NEW d \in Dps, dpClients'[d] = dpClients[d],
           \/ w2d'[d] = w2d[d] /\ {t \in wsClients' : t.dp = d} = {t \in wsClients : t.dp = d}
           \/ /\ \E msg \in InfoMsgs \cup ExitMsgs : w2d'[d] = Append(w2d[d], msg)
              /\ DpShare(d, wsClients') # DpShare(d, wsClients)
    PROVE  Versions(dpClients'[d], w2d'[d], DpSession)
             = IF DpShare(d, wsClients') = DpShare(d, wsClients)
               THEN Versions(dpClients[d], w2d[d], DpSession)
               ELSE Append(Versions(dpClients[d], w2d[d], DpSession), DpShare(d, wsClients'))
  <1>1. CASE w2d'[d] = w2d[d] /\ {t \in wsClients' : t.dp = d} = {t \in wsClients : t.dp = d}
    BY <1>1 DEF DpShare
  <1>2. CASE /\ \E msg \in InfoMsgs \cup ExitMsgs : w2d'[d] = Append(w2d[d], msg)
             /\ DpShare(d, wsClients') # DpShare(d, wsClients)
    <2> DEFINE S == InfoMsgs \cup ExitMsgs
    <2>1. PICK msg \in S : w2d'[d] = Append(w2d[d], msg)
      BY <1>2
    <2>2. w2d[d] \in Seq(S)
      BY DEF RouteInv, RouteTypeOK
    <2> HIDE DEF S
    <2>3. Versions(dpClients[d], Append(w2d[d], msg), DpSession)
            = Append(Versions(dpClients[d], w2d[d], DpSession), AfterLink(dpClients[d], Append(w2d[d], msg), DpSession))
      BY <2>2, DpVersionsPut
    <2>4. AfterLink(dpClients'[d], w2d'[d], DpSession) = DpShare(d, wsClients')
      BY DEF RouteInv, DpMirrors, DpWillHold, DpShare
    <2> QED
      BY <1>2, <2>1, <2>3, <2>4
  <1> QED
    BY <1>1, <1>2

LEMMA DirectoryChanges ==
    ASSUME RouteInv, RouteInv', lsClients' = lsClients, dpClients' = dpClients,
           \A l \in Ls :
              \/ w2l'[l] = w2l[l] /\ {t \in wsClients' : t.ls = l} = {t \in wsClients : t.ls = l}
              \/ /\ \E msg \in InfoMsgs \cup ExitMsgs : w2l'[l] = Append(w2l[l], msg)
                 /\ LsShare(l, wsClients') # LsShare(l, wsClients),
           \A d \in Dps :
              \/ w2d'[d] = w2d[d] /\ {t \in wsClients' : t.dp = d} = {t \in wsClients : t.dp = d}
              \/ /\ \E msg \in InfoMsgs \cup ExitMsgs : w2d'[d] = Append(w2d[d], msg)
                 /\ DpShare(d, wsClients') # DpShare(d, wsClients)
    PROVE  Directory!ChangeTo(wsClients')
  <1> USE RouteAssumption
  <1>1. wsClients \subseteq Placements /\ wsClients' \subseteq Placements
    BY DEF RouteInv, RouteTypeOK, Placements
  <1>2. ASSUME NEW s \in Ls \cup Dps
        PROVE  /\ SeenBy(s)' = SeenBy(s)
               /\ ComingTo(s)' = IF Directory!Share(s, wsClients') = Directory!Share(s, wsClients)
                                 THEN ComingTo(s) ELSE Append(ComingTo(s), Directory!Share(s, wsClients'))
    <2>1. CASE s \in Ls
      <3>1. Directory!Share(s, wsClients') = LsShare(s, wsClients')
            /\ Directory!Share(s, wsClients) = LsShare(s, wsClients)
        BY <1>1, <2>1, SharesAre
      <3>2. Versions(lsClients'[s], w2l'[s], LsSession)
              = IF LsShare(s, wsClients') = LsShare(s, wsClients)
                THEN Versions(lsClients[s], w2l[s], LsSession)
                ELSE Append(Versions(lsClients[s], w2l[s], LsSession), LsShare(s, wsClients'))
        BY <2>1, LsSideChanges
      <3>3. ComingTo(s)' = Versions(lsClients'[s], w2l'[s], LsSession)
        BY <2>1 DEF ComingTo, Versions, AfterLink, Staying, Standing, ExitFollows
      <3>4. ComingTo(s) = Versions(lsClients[s], w2l[s], LsSession)
        BY <2>1 DEF ComingTo
      <3>5. SeenBy(s)' = SeenBy(s)
        BY <2>1 DEF SeenBy
      <3> QED
        BY <3>1, <3>2, <3>3, <3>4, <3>5
    <2>2. CASE s \in Dps
      <3>0. s \notin Ls
        BY <2>2
      <3>1. Directory!Share(s, wsClients') = DpShare(s, wsClients')
            /\ Directory!Share(s, wsClients) = DpShare(s, wsClients)
        BY <1>1, <2>2, SharesAre
      <3>2. Versions(dpClients'[s], w2d'[s], DpSession)
              = IF DpShare(s, wsClients') = DpShare(s, wsClients)
                THEN Versions(dpClients[s], w2d[s], DpSession)
                ELSE Append(Versions(dpClients[s], w2d[s], DpSession), DpShare(s, wsClients'))
        BY <2>2, DpSideChanges
      <3>3. ComingTo(s)' = Versions(dpClients'[s], w2d'[s], DpSession)
        BY <3>0 DEF ComingTo, Versions, AfterLink, Staying, Standing, ExitFollows
      <3>4. ComingTo(s) = Versions(dpClients[s], w2d[s], DpSession)
        BY <3>0 DEF ComingTo
      <3>5. SeenBy(s)' = SeenBy(s)
        BY <3>0 DEF SeenBy
      <3> QED
        BY <3>1, <3>2, <3>3, <3>4, <3>5
    <2> QED
      BY <2>1, <2>2
  <1> QED
    BY <1>2 DEF Directory!ChangeTo, Directory!Servers

(* A step that touches none of the five variables is none of the directory.     *)
LEMMA DirectoryRests ==
    ASSUME UNCHANGED <<wsClients, lsClients, dpClients, w2l, w2d>>
    PROVE  UNCHANGED Directory!directoryVars
  <1>1. ASSUME NEW s PROVE SeenBy(s)' = SeenBy(s) /\ ComingTo(s)' = ComingTo(s)
    BY DEF SeenBy, ComingTo, Versions, AfterLink, Staying, Standing, ExitFollows
  <1> QED
    BY <1>1 DEF Directory!directoryVars

(* The world server places a client it does not know, or ends.                  *)
LEMMA PlacesInDirectory ==
    ASSUME RouteInv, RouteInv', NEW f \in Feps, ReqRoadLest(f)
    PROVE  Directory!DirectoryNext \/ UNCHANGED Directory!directoryVars
  <1> USE RouteAssumption
  <1> DEFINE S == {LoadLest(b) : b \in Clients} \cup ExitMsgs
             c == Head(f2w[f]).client
             l0 == LoadLestOf(Ls)
             d0 == LoadLestOf(Dps)
             fresh == SessionsOf(wsClients, c) = {}
             new == [client |-> c, fep |-> f, ls |-> l0, dp |-> d0]
             msg == SInfo(c, f, l0, d0)
  <1>1. f2w[f] \in Seq(S) /\ f2w[f] # <<>>
    BY DEF RouteInv, RouteTypeOK, ReqRoadLest, FromFep
  <1>2. c \in Clients
    <2>1. Head(f2w[f]) \in S
      <3> HIDE DEF S
      <3> QED
        BY <1>1, HeadTailProperties
    <2> QED
      BY <2>1 DEF LoadLest, ExitMsgs, ExitNotice
  <1>3. l0 \in Ls /\ d0 \in Dps
    <2>1. \A s \in Ls \cup Dps : nLoadCount[s] \in Nat
      BY DEF RouteInv, RouteTypeOK
    <2>2. Ls \subseteq Nat /\ Dps \subseteq Nat /\ Ls # {} /\ Dps # {}
      OBVIOUS
    <2> QED
      BY <2>1, <2>2, LoadLestIsOne
  <1>4. /\ IF fresh
           THEN /\ wsClients' = wsClients \cup {new}
                /\ w2l' = [w2l EXCEPT ![l0] = Append(w2l[l0], msg)]
                /\ w2d' = [w2d EXCEPT ![d0] = Append(w2d[d0], msg)]
           ELSE UNCHANGED <<wsClients, w2l, w2d>>
        /\ UNCHANGED <<lsClients, dpClients>>
    BY DEF ReqRoadLest, SendTo
  <1>5. new.client = c /\ new.ls = l0 /\ new.dp = d0 /\ LsSession(new).client = c /\ DpSession(new).client = c
    BY DEF LsSession, DpSession
  <1>6. msg \in InfoMsgs \cup ExitMsgs
    BY <1>2, <1>3 DEF SInfo, InfoMsgs
  <1>7. w2l \in [Ls -> Seq(InfoMsgs \cup ExitMsgs)] /\ w2d \in [Dps -> Seq(InfoMsgs \cup ExitMsgs)]
    BY DEF RouteInv, RouteTypeOK
  <1>8. fresh <=> \A x \in wsClients : x.client # c
    BY DEF SessionsOf
  <1>9. \A x : LsSession(x).client = x.client /\ DpSession(x).client = x.client
    BY DEF LsSession, DpSession
  <1> HIDE DEF S, c, l0, d0, fresh, msg
  <1>10. CASE fresh
    <2>1. ASSUME NEW l \in Ls
          PROVE  \/ w2l'[l] = w2l[l] /\ {t \in wsClients' : t.ls = l} = {t \in wsClients : t.ls = l}
                 \/ /\ \E m \in InfoMsgs \cup ExitMsgs : w2l'[l] = Append(w2l[l], m)
                    /\ LsShare(l, wsClients') # LsShare(l, wsClients)
      <3>1. CASE l = l0
        <4>1. w2l'[l] = Append(w2l[l], msg)
          BY <1>4, <1>7, <1>10, <3>1
        <4>2. LsSession(new) \in LsShare(l, wsClients')
          BY <1>4, <1>5, <1>10, <3>1 DEF LsShare
        <4>3. LsSession(new) \notin LsShare(l, wsClients)
          BY <1>5, <1>8, <1>9, <1>10 DEF LsShare
        <4> QED
          BY <1>6, <4>1, <4>2, <4>3
      <3>2. CASE l # l0
        BY <1>4, <1>5, <1>7, <1>10, <3>2
      <3> QED
        BY <3>1, <3>2
    <2>2. ASSUME NEW d \in Dps
          PROVE  \/ w2d'[d] = w2d[d] /\ {t \in wsClients' : t.dp = d} = {t \in wsClients : t.dp = d}
                 \/ /\ \E m \in InfoMsgs \cup ExitMsgs : w2d'[d] = Append(w2d[d], m)
                    /\ DpShare(d, wsClients') # DpShare(d, wsClients)
      <3>1. CASE d = d0
        <4>1. w2d'[d] = Append(w2d[d], msg)
          BY <1>4, <1>7, <1>10, <3>1
        <4>2. DpSession(new) \in DpShare(d, wsClients')
          BY <1>4, <1>5, <1>10, <3>1 DEF DpShare
        <4>3. DpSession(new) \notin DpShare(d, wsClients)
          BY <1>5, <1>8, <1>9, <1>10 DEF DpShare
        <4> QED
          BY <1>6, <4>1, <4>2, <4>3
      <3>2. CASE d # d0
        BY <1>4, <1>5, <1>7, <1>10, <3>2
      <3> QED
        BY <3>1, <3>2
    <2>3. Directory!ChangeTo(wsClients')
      BY <1>4, <2>1, <2>2, DirectoryChanges
    <2>4. Directory!Place(c, f, l0, d0)
      BY <1>4, <1>8, <1>10, <2>3 DEF Directory!Place
    <2> QED
      BY <1>2, <1>3, <2>4 DEF Directory!DirectoryNext
  <1>11. CASE ~fresh
    BY <1>4, <1>11, DirectoryRests
  <1> QED
    BY <1>10, <1>11

(* The world server drops a client that it knows, or ends.                      *)
LEMMA LeavesDirectory ==
    ASSUME RouteInv, RouteInv', NEW f \in Feps, NofityClientExit(f)
    PROVE  Directory!DirectoryNext \/ UNCHANGED Directory!directoryVars
  <1> USE RouteAssumption
  <1> DEFINE S == {LoadLest(b) : b \in Clients} \cup ExitMsgs
             c == Head(f2w[f]).client
             session == SessionsOf(wsClients, c)
             msg == ExitNotice(c)
  <1>1. f2w[f] \in Seq(S) /\ f2w[f] # <<>>
    BY DEF RouteInv, RouteTypeOK, NofityClientExit, FromFep
  <1>2. c \in Clients
    <2>1. Head(f2w[f]) \in S
      <3> HIDE DEF S
      <3> QED
        BY <1>1, HeadTailProperties
    <2> QED
      BY <2>1 DEF LoadLest, ExitMsgs, ExitNotice
  <1>3. /\ wsClients' = wsClients \ session
        /\ w2l' = [l \in Ls |-> IF \E s \in session : s.ls = l THEN Append(w2l[l], msg) ELSE w2l[l]]
        /\ w2d' = [d \in Dps |-> IF \E s \in session : s.dp = d THEN Append(w2d[d], msg) ELSE w2d[d]]
        /\ UNCHANGED <<lsClients, dpClients>>
    BY DEF NofityClientExit
  <1>4. msg \in InfoMsgs \cup ExitMsgs
    BY <1>2 DEF ExitMsgs
  <1>5. \A s : s \in session <=> s \in wsClients /\ s.client = c
    BY DEF SessionsOf
  <1>6. \A x : LsSession(x).client = x.client /\ DpSession(x).client = x.client
    BY DEF LsSession, DpSession
  <1>7. w2l \in [Ls -> Seq(InfoMsgs \cup ExitMsgs)] /\ w2d \in [Dps -> Seq(InfoMsgs \cup ExitMsgs)]
    BY DEF RouteInv, RouteTypeOK
  <1> HIDE DEF S, c, session, msg
  <1>8. CASE session # {}
    <2>1. ASSUME NEW l \in Ls
          PROVE  \/ w2l'[l] = w2l[l] /\ {t \in wsClients' : t.ls = l} = {t \in wsClients : t.ls = l}
                 \/ /\ \E m \in InfoMsgs \cup ExitMsgs : w2l'[l] = Append(w2l[l], m)
                    /\ LsShare(l, wsClients') # LsShare(l, wsClients)
      <3>1. CASE \E s \in session : s.ls = l
        <4>1. w2l'[l] = Append(w2l[l], msg)
          BY <1>3, <3>1
        <4>2. PICK s \in session : s.ls = l
          BY <3>1
        <4>3. LsSession(s) \in LsShare(l, wsClients)
          BY <1>5, <4>2 DEF LsShare
        <4>4. LsSession(s) \notin LsShare(l, wsClients')
          BY <1>3, <1>5, <1>6 DEF LsShare
        <4> QED
          BY <1>4, <4>1, <4>3, <4>4
      <3>2. CASE ~\E s \in session : s.ls = l
        BY <1>3, <3>2
      <3> QED
        BY <3>1, <3>2
    <2>2. ASSUME NEW d \in Dps
          PROVE  \/ w2d'[d] = w2d[d] /\ {t \in wsClients' : t.dp = d} = {t \in wsClients : t.dp = d}
                 \/ /\ \E m \in InfoMsgs \cup ExitMsgs : w2d'[d] = Append(w2d[d], m)
                    /\ DpShare(d, wsClients') # DpShare(d, wsClients)
      <3>1. CASE \E s \in session : s.dp = d
        <4>1. w2d'[d] = Append(w2d[d], msg)
          BY <1>3, <3>1
        <4>2. PICK s \in session : s.dp = d
          BY <3>1
        <4>3. DpSession(s) \in DpShare(d, wsClients)
          BY <1>5, <4>2 DEF DpShare
        <4>4. DpSession(s) \notin DpShare(d, wsClients')
          BY <1>3, <1>5, <1>6 DEF DpShare
        <4> QED
          BY <1>4, <4>1, <4>3, <4>4
      <3>2. CASE ~\E s \in session : s.dp = d
        BY <1>3, <3>2
      <3> QED
        BY <3>1, <3>2
    <2>3. Directory!ChangeTo(wsClients')
      BY <1>3, <2>1, <2>2, DirectoryChanges
    <2>4. wsClients' = {x \in wsClients : x.client # c}
      BY <1>3, <1>5
    <2>5. \E x \in wsClients : x.client = c
      BY <1>5, <1>8
    <2>6. Directory!Leave(c)
      BY <2>3, <2>4, <2>5 DEF Directory!Leave
    <2> QED
      BY <1>2, <2>6 DEF Directory!DirectoryNext
  <1>9. CASE session = {}
    <2>1. w2l' = w2l /\ w2d' = w2d
      BY <1>3, <1>7, <1>9
    <2> QED
      BY <1>3, <1>9, <2>1, DirectoryRests
  <1> QED
    BY <1>8, <1>9

(* A server learns the next version of its share when it takes a message.       *)
LEMMA LsLearns ==
    ASSUME RouteInv, NEW l \in Ls, LsNotified(l)
    PROVE  Directory!Learn(l)
  <1> USE RouteAssumption
  <1> DEFINE M == InfoMsgs \cup ExitMsgs
             msg == Head(w2l[l])
             session == SessionsOf(lsClients[l], msg.client)
             kept == IF IsExit(msg) THEN lsClients[l] \ session ELSE lsClients[l] \cup {LsSession(msg)}
             versions == Versions(lsClients[l], w2l[l], LsSession)
  <1>1. w2l \in [Ls -> Seq(M)] /\ w2l[l] \in Seq(M) /\ w2l[l] # <<>> /\ w2l' = [w2l EXCEPT ![l] = Tail(w2l[l])]
    BY DEF LsNotified, RouteInv, RouteTypeOK
  <1>2. Alternates(HeldBy(lsClients[l]), w2l[l])
    BY DEF RouteInv, LsMirrors
  <1>3. (IsExit(msg) <=> session # {})
    <2> HIDE DEF M
    <2> QED
      BY <1>1, <1>2, LsTake
  <1>4. versions # <<>> /\ Head(versions) = kept /\ Tail(versions) = Versions(kept, Tail(w2l[l]), LsSession)
    <2> HIDE DEF M
    <2> QED
      BY <1>1, <1>2, LsVersionsTake
  <1>5. lsClients' = [lsClients EXCEPT ![l] = kept]
    <2>1. CASE IsExit(msg)
      BY <1>3, <2>1 DEF LsNotified, IsExit
    <2>2. CASE ~IsExit(msg)
      BY <1>3, <2>2 DEF LsNotified, IsExit
    <2> QED
      BY <2>1, <2>2
  <1>6. UNCHANGED <<wsClients, dpClients, w2d>>
    BY DEF LsNotified
  <1>7. lsClients \in [Ls -> SUBSET [client : Clients, fep : Feps, dp : Dps]]
    BY DEF RouteInv, RouteTypeOK
  <1> HIDE DEF M, msg, session, kept, versions
  <1>8. lsClients'[l] = kept /\ w2l'[l] = Tail(w2l[l])
        /\ \A s \in Ls : s # l => lsClients'[s] = lsClients[s] /\ w2l'[s] = w2l[s]
    BY <1>1, <1>5, <1>7
  <1>9. l \in Ls \cup Dps /\ \A s \in Dps : s \notin Ls
    OBVIOUS
  <1>10. SeenBy(l)' = Head(ComingTo(l)) /\ ComingTo(l)' = Tail(ComingTo(l)) /\ ComingTo(l) # <<>>
    <2>1. SeenBy(l)' = kept
      BY <1>8, <1>9 DEF SeenBy
    <2>2. ComingTo(l) = versions
      BY <1>9 DEF ComingTo, versions
    <2>3. ComingTo(l)' = Versions(kept, Tail(w2l[l]), LsSession)
      <3>1. ComingTo(l)' = Versions(lsClients'[l], w2l'[l], LsSession)
        BY <1>9 DEF ComingTo, Versions, AfterLink, Staying, Standing, ExitFollows
      <3> QED
        BY <1>8, <3>1
    <2> QED
      BY <1>4, <2>1, <2>2, <2>3
  <1>11. ASSUME NEW s \in Ls \cup Dps, s # l PROVE SeenBy(s)' = SeenBy(s) /\ ComingTo(s)' = ComingTo(s)
    <2>1. CASE s \in Ls
      BY <1>8, <1>11, <2>1 DEF SeenBy, ComingTo, Versions, AfterLink
    <2>2. CASE s \in Dps
      BY <1>6, <1>9, <2>2 DEF SeenBy, ComingTo, Versions, AfterLink
    <2> QED
      BY <2>1, <2>2
  <1> QED
    BY <1>6, <1>9, <1>10, <1>11 DEF Directory!Learn

LEMMA DpLearns ==
    ASSUME RouteInv, NEW d \in Dps, DpNotified(d)
    PROVE  Directory!Learn(d)
  <1> USE RouteAssumption
  <1> DEFINE M == InfoMsgs \cup ExitMsgs
             msg == Head(w2d[d])
             session == SessionsOf(dpClients[d], msg.client)
             kept == IF IsExit(msg) THEN dpClients[d] \ session ELSE dpClients[d] \cup {DpSession(msg)}
             versions == Versions(dpClients[d], w2d[d], DpSession)
  <1>1. w2d \in [Dps -> Seq(M)] /\ w2d[d] \in Seq(M) /\ w2d[d] # <<>> /\ w2d' = [w2d EXCEPT ![d] = Tail(w2d[d])]
    BY DEF DpNotified, RouteInv, RouteTypeOK
  <1>2. Alternates(HeldBy(dpClients[d]), w2d[d])
    BY DEF RouteInv, DpMirrors
  <1>3. (IsExit(msg) <=> session # {})
    <2> HIDE DEF M
    <2> QED
      BY <1>1, <1>2, DpTake
  <1>4. versions # <<>> /\ Head(versions) = kept /\ Tail(versions) = Versions(kept, Tail(w2d[d]), DpSession)
    <2> HIDE DEF M
    <2> QED
      BY <1>1, <1>2, DpVersionsTake
  <1>5. dpClients' = [dpClients EXCEPT ![d] = kept]
    <2>1. CASE IsExit(msg)
      BY <1>3, <2>1 DEF DpNotified, IsExit
    <2>2. CASE ~IsExit(msg)
      BY <1>3, <2>2 DEF DpNotified, IsExit
    <2> QED
      BY <2>1, <2>2
  <1>6. UNCHANGED <<wsClients, lsClients, w2l>>
    BY DEF DpNotified
  <1>7. dpClients \in [Dps -> SUBSET [client : Clients, ls : Ls]]
    BY DEF RouteInv, RouteTypeOK
  <1> HIDE DEF M, msg, session, kept, versions
  <1>8. dpClients'[d] = kept /\ w2d'[d] = Tail(w2d[d])
        /\ \A s \in Dps : s # d => dpClients'[s] = dpClients[s] /\ w2d'[s] = w2d[s]
    BY <1>1, <1>5, <1>7
  <1>9. d \in Ls \cup Dps /\ \A s \in Dps : s \notin Ls
    OBVIOUS
  <1>10. SeenBy(d)' = Head(ComingTo(d)) /\ ComingTo(d)' = Tail(ComingTo(d)) /\ ComingTo(d) # <<>>
    <2>1. SeenBy(d)' = kept
      BY <1>8, <1>9 DEF SeenBy
    <2>2. ComingTo(d) = versions
      BY <1>9 DEF ComingTo, versions
    <2>3. ComingTo(d)' = Versions(kept, Tail(w2d[d]), DpSession)
      <3>1. ComingTo(d)' = Versions(dpClients'[d], w2d'[d], DpSession)
        BY <1>9 DEF ComingTo, Versions, AfterLink, Staying, Standing, ExitFollows
      <3> QED
        BY <1>8, <3>1
    <2> QED
      BY <1>4, <2>1, <2>2, <2>3
  <1>11. ASSUME NEW s \in Ls \cup Dps, s # d PROVE SeenBy(s)' = SeenBy(s) /\ ComingTo(s)' = ComingTo(s)
    <2>1. CASE s \in Dps
      BY <1>8, <1>9, <1>11, <2>1 DEF SeenBy, ComingTo, Versions, AfterLink
    <2>2. CASE s \in Ls
      BY <1>6, <1>9, <2>2 DEF SeenBy, ComingTo, Versions, AfterLink
    <2> QED
      BY <2>1, <2>2
  <1> QED
    BY <1>6, <1>9, <1>10, <1>11 DEF Directory!Learn

(* The processes implement the directory, for any number of clients, front      *)
(* ends, login and data servers: every step of a link or a handler is one of    *)
(* the directory or none (SSWsMsgHandler, ForServerMsgHandler).                 *)
THEOREM RouteFollowsDirectory == RouteSpec => FollowsDirectory
  <1> USE RouteAssumption
  <1>1. RouteInit => Directory!DirectoryInit
    <2> SUFFICES ASSUME RouteInit PROVE Directory!DirectoryInit
      OBVIOUS
    <2>1. \A sessions : Versions(sessions, <<>>, LsSession) = <<>> /\ Versions(sessions, <<>>, DpSession) = <<>>
      BY DEF Versions
    <2>2. \A s \in Ls \cup Dps : SeenBy(s) = {} /\ ComingTo(s) = <<>>
      BY <2>1 DEF RouteInit, SeenBy, ComingTo
    <2> QED
      BY <2>2 DEF RouteInit, Directory!DirectoryInit, Directory!Servers
  <1>2. ASSUME RouteInv, RouteInv', [RouteNext]_routeVars
        PROVE  [Directory!DirectoryNext]_(Directory!directoryVars)
    <2>1. CASE UNCHANGED routeVars
      BY <2>1, DirectoryRests DEF routeVars, links
    <2>2. CASE \E f \in Feps : ClientNext(f) \/ FepNotified(f)
      <3>1. UNCHANGED <<wsClients, lsClients, dpClients, w2l, w2d>>
        BY <2>2 DEF ClientNext, ClientEnter, ReqFepEncypt, ClientExit, FepNotified, links
      <3> QED
        BY <3>1, DirectoryRests
    <2>3. CASE WsNext
      BY <1>2, <2>3, PlacesInDirectory, LeavesDirectory DEF WsNext
    <2>4. CASE \E l \in Ls : LsNotified(l)
      <3>1. PICK l \in Ls : LsNotified(l)
        BY <2>4
      <3>2. Directory!Learn(l)
        BY <1>2, <3>1, LsLearns
      <3> QED
        BY <3>2 DEF Directory!DirectoryNext, Directory!Servers
    <2>5. CASE \E d \in Dps : DpNotified(d)
      <3>1. PICK d \in Dps : DpNotified(d)
        BY <2>5
      <3>2. Directory!Learn(d)
        BY <1>2, <3>1, DpLearns
      <3> QED
        BY <3>2 DEF Directory!DirectoryNext, Directory!Servers
    <2> QED
      BY <1>2, <2>1, <2>2, <2>3, <2>4, <2>5 DEF RouteNext
  <1> QED
    BY <1>1, <1>2, RouteInvariant, PTL DEF RouteSpec, FollowsDirectory, Directory!DirectorySpec
==============================================================================
