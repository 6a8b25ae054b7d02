----------------------------- MODULE NodeProofs -----------------------------
(***************************************************************************)
(* Proofs for NodeKeys: a key that was published is the node's key for     *)
(* ever, whatever crashes, and a hash that is told is that of a key in     *)
(* use; and for NodeSession: a status that says alive can be taken back.   *)
(***************************************************************************)
EXTENDS NodeKeys, NodeSession, SequenceTheorems, TLAPS

\* The places of main at which there is a key in memory, and one on file too.
HasKey == main \in {"create", "encode", "connect", "announce", "running"}
KeyIsSaved == main \in {"connect", "announce", "running"}

\* A key is made only before any is published; from the writing of the file on
\* memory, file and what is published agree.
KeysAgree ==
    /\ HasKey => nodePrivateKey \in PrivateKeys
    /\ main \in {"create", "encode"} => published = None
    /\ KeyIsSaved => nodePrivateKeyFile = nodePrivateKey
    /\ published # None => nodePrivateKeyFile = published

\* MAPI encrypts with the published key only.
MailIsForNode == \A k \in DOMAIN mail : published # None /\ mail[k].node = published

\* The decryptor comes before the hash, and both come from the message being handled.
HashFollowsKey ==
    /\ hashing => Connected /\ mail # <<>> /\ decryptor = Head(mail).org
    /\ OrgKeyHash # None => decryptor # None
    /\ OrgKeyHash # None /\ ~hashing => decryptor = OrgKeyHash
    /\ own => Connected
    /\ own /\ reported # None => decryptor # None

IInv == TypeOK /\ KeysAgree /\ MailIsForNode /\ HashFollowsKey

------------------------------------------------------------------------------
LEMMA InitIInv == Init => IInv
<1> SUFFICES ASSUME Init  PROVE IInv
  OBVIOUS
<1>1. TypeOK
  <2>1. <<>> \in Seq([node : PrivateKeys, org : OrgKeys])
    OBVIOUS
  <2> QED  BY <2>1 DEF Init, TypeOK, Place
<1>2. KeysAgree
  BY DEF Init, KeysAgree, HasKey, KeyIsSaved
<1>3. MailIsForNode
  BY DEF Init, MailIsForNode
<1>4. HashFollowsKey
  BY DEF Init, HashFollowsKey, Connected
<1> QED  BY <1>1, <1>2, <1>3, <1>4 DEF IInv

\* The steps of InitNodeKeypair make or read the key of the node (secret.go 35-109).
LEMMA KeyFileSteps ==
    ASSUME IInv, GenerateKey \/ CreateKeyFile \/ WriteKeyFile \/ ReadKeyFile
    PROVE  IInv'
<1> USE NodeKeysAssumption DEF IInv, orgVars, outside, told
<1>1. TypeOK'
  BY DEF TypeOK, Place, GenerateKey, CreateKeyFile, WriteKeyFile, ReadKeyFile,
         KeysAgree, HasKey
<1>2. KeysAgree'
  BY DEF TypeOK, KeysAgree, HasKey, KeyIsSaved, GenerateKey, CreateKeyFile, WriteKeyFile,
         ReadKeyFile
<1>3. MailIsForNode'
  BY DEF MailIsForNode, GenerateKey, CreateKeyFile, WriteKeyFile, ReadKeyFile
<1>4. HashFollowsKey'
  BY DEF HashFollowsKey, Connected, GenerateKey, CreateKeyFile, WriteKeyFile, ReadKeyFile
<1> QED  BY <1>1, <1>2, <1>3, <1>4

\* Connecting, publishing the key and telling the status (agent.go 73-88).
LEMMA SessionSteps ==
    ASSUME IInv, ConnectNode \/ SendNodePublicKey \/ SendStatus \/ DisconnectedIsTold
    PROVE  IInv'
<1> USE NodeKeysAssumption DEF IInv, orgVars, outside, told
<1>1. TypeOK'
  BY DEF TypeOK, Place, ConnectNode, SendNodePublicKey, SendStatus,
         DisconnectedIsTold
<1>2. KeysAgree'
  BY DEF TypeOK, KeysAgree, HasKey, KeyIsSaved, ConnectNode, SendNodePublicKey, SendStatus,
         DisconnectedIsTold
<1>3. MailIsForNode'
  BY DEF TypeOK, KeysAgree, HasKey, KeyIsSaved, MailIsForNode, ConnectNode,
         SendNodePublicKey, SendStatus, DisconnectedIsTold
<1>4. HashFollowsKey'
  BY DEF HashFollowsKey, Connected, ConnectNode, SendNodePublicKey, SendStatus,
         DisconnectedIsTold
<1> QED  BY <1>1, <1>2, <1>3, <1>4

LEMMA SendOrgKeyStep ==
    ASSUME IInv, SendOrgKey
    PROVE  IInv'
<1> USE DEF IInv, orgVars, told
<1> PICK o \in OrgKeys : mail' = Append(mail, [node |-> published, org |-> o])
  BY DEF SendOrgKey
<1>1. /\ published # None /\ published \in PrivateKeys
      /\ mail \in Seq([node : PrivateKeys, org : OrgKeys])
  BY DEF SendOrgKey, TypeOK
<1>2. mail' \in Seq([node : PrivateKeys, org : OrgKeys])
  BY <1>1
<1>3. UNCHANGED <<main, nodePrivateKeyFile, nodePrivateKey, decryptor, OrgKeyHash, hashing,
                  published, reported, own>>
  BY DEF SendOrgKey
<1>4. TypeOK'
  BY <1>2, <1>3 DEF TypeOK
<1>5. KeysAgree'
  BY <1>3 DEF KeysAgree, HasKey, KeyIsSaved
<1>6. MailIsForNode'
  BY <1>1, <1>3 DEF MailIsForNode
<1>7. mail # <<>> => mail' # <<>> /\ Head(mail') = Head(mail)
  BY <1>1
<1>8. HashFollowsKey'
  BY <1>3, <1>7 DEF HashFollowsKey, Connected
<1> QED  BY <1>4, <1>5, <1>6, <1>8

\* ProcessOrgPrivKeyMessage (secret.go 111-144).
LEMMA HandlerSteps ==
    ASSUME IInv, OrgPrivKeyHandler
    PROVE  IInv'
<1> USE NodeKeysAssumption DEF IInv
<1>1. mail \in Seq([node : PrivateKeys, org : OrgKeys]) /\ mail # <<>>
  BY DEF TypeOK, OrgPrivKeyHandler, OrgKeyRefused, SetDecryptor, SetOrgKeyHash, Handling,
         HashFollowsKey
<1>2. /\ Head(mail) \in [node : PrivateKeys, org : OrgKeys]
      /\ Tail(mail) \in Seq([node : PrivateKeys, org : OrgKeys])
      /\ \A k \in DOMAIN Tail(mail) : k + 1 \in DOMAIN mail /\ Tail(mail)[k] = mail[k + 1]
  <2> DEFINE Mail == [node : PrivateKeys, org : OrgKeys]
  <2>1. mail \in Seq(Mail) /\ mail # <<>>
    BY <1>1
  <2> HIDE DEF Mail
  <2>2. /\ Head(mail) \in Mail /\ Tail(mail) \in Seq(Mail)
        /\ Len(Tail(mail)) = Len(mail) - 1
        /\ \A k \in 1 .. Len(Tail(mail)) : Tail(mail)[k] = mail[k + 1]
    BY <2>1, HeadTailProperties
  <2>3. /\ Len(mail) \in Nat /\ DOMAIN mail = 1 .. Len(mail)
        /\ DOMAIN Tail(mail) = 1 .. Len(Tail(mail))
    BY <2>1, <2>2
  <2>4. \A k \in DOMAIN Tail(mail) : k + 1 \in DOMAIN mail /\ Tail(mail)[k] = mail[k + 1]
    BY <2>2, <2>3
  <2> QED  BY <2>2, <2>4 DEF Mail
<1>3. UNCHANGED <<main, nodePrivateKeyFile, nodePrivateKey, published, reported, own>>
  BY DEF OrgPrivKeyHandler, OrgKeyRefused, SetDecryptor, SetOrgKeyHash, outside, told
<1>4. mail' \in {mail, Tail(mail)}
  BY DEF OrgPrivKeyHandler, OrgKeyRefused, SetDecryptor, SetOrgKeyHash, outside
<1>5. TypeOK'
  <2>1. /\ {decryptor', OrgKeyHash', reported'} \subseteq OrgKeys \cup {None}
        /\ hashing' \in BOOLEAN
    BY <1>2, <1>3
       DEF TypeOK, OrgPrivKeyHandler, OrgKeyRefused, SetDecryptor, SetOrgKeyHash, orgVars
  <2> QED  BY <1>1, <1>2, <1>3, <1>4, <2>1 DEF TypeOK
<1>6. KeysAgree'
  BY <1>3 DEF KeysAgree, HasKey, KeyIsSaved
<1>7. MailIsForNode'
  BY <1>2, <1>3, <1>4 DEF MailIsForNode
<1>8. HashFollowsKey'
  <2>1. CASE OrgKeyRefused
    BY <1>3, <2>1 DEF HashFollowsKey, Connected, OrgKeyRefused, Handling, orgVars
  <2>2. CASE SetDecryptor
    BY <1>1, <1>2, <1>3, <2>2 DEF HashFollowsKey, Connected, SetDecryptor, Handling, outside
  <2>3. CASE SetOrgKeyHash
    BY <1>2, <1>3, <2>3 DEF HashFollowsKey, Connected, SetOrgKeyHash
  <2> QED  BY <2>1, <2>2, <2>3 DEF OrgPrivKeyHandler
<1> QED  BY <1>5, <1>6, <1>7, <1>8

LEMMA RestartSteps ==
    ASSUME IInv, Crash \/ Start
    PROVE  IInv'
<1> USE DEF IInv, orgVars, outside, told
<1>1. TypeOK'
  BY DEF TypeOK, Place, Crash, Start
<1>2. KeysAgree'
  BY DEF KeysAgree, HasKey, KeyIsSaved, Crash, Start
<1>3. MailIsForNode'
  BY DEF MailIsForNode, Crash, Start
<1>4. HashFollowsKey'
  BY DEF HashFollowsKey, Connected, Crash, Start
<1> QED  BY <1>1, <1>2, <1>3, <1>4

LEMMA NextIInv == IInv /\ [Next]_vars => IInv'
<1> SUFFICES ASSUME IInv, [Next]_vars  PROVE IInv'
  OBVIOUS
<1>1. CASE UNCHANGED vars
  BY <1>1 DEF IInv, TypeOK, KeysAgree, HasKey, KeyIsSaved, MailIsForNode, HashFollowsKey,
              Connected, vars
<1>2. CASE Next
  BY <1>2, KeyFileSteps, SessionSteps, SendOrgKeyStep, HandlerSteps, RestartSteps
     DEF Next, Startup
<1> QED  BY <1>1, <1>2

LEMMA AlwaysIInv == Spec => []IInv
BY InitIInv, NextIInv, PTL DEF Spec

------------------------------------------------------------------------------
\* Types of the keys, files and messages, for every set of keys (secret.go).
THEOREM KeyTypes == Spec => []TypeOK
<1>1. IInv => TypeOK
  BY DEF IInv
<1> QED  BY <1>1, AlwaysIInv, PTL

\* A key that was published once is the key of every later process that is
\* connected, over any number of crashes (secret.go 35-109).
THEOREM PublishedForGood == Spec => []PublishedKeyLasts
<1>1. IInv => PublishedKeyLasts
  BY DEF IInv, KeysAgree, KeyIsSaved, PublishedKeyLasts, Connected
<1> QED  BY <1>1, AlwaysIInv, PTL

\* No message with an organization key that MAPI ever sent is unreadable
\* (secret.go 111-128).
THEOREM NoMailInVain == Spec => []OrgKeyIsReadable
<1>1. IInv => OrgKeyIsReadable
  BY DEF IInv, KeysAgree, KeyIsSaved, MailIsForNode, OrgKeyIsReadable, Connected
<1> QED  BY <1>1, AlwaysIInv, PTL

\* A hash that the running process has told is that of a key it has, and the hash it
\* tells that of the key it uses, but while the message that replaces both is handled
\* (secret.go 124-144, status.go 49-55).
THEOREM ToldKeyInUse == Spec => []ReportedKeyIsUsable
<1>1. IInv => ReportedKeyIsUsable
  BY DEF IInv, HashFollowsKey, ReportedKeyIsUsable, Decrypts
<1> QED  BY <1>1, AlwaysIInv, PTL
------------------------------------------------------------------------------
(* The session of the node                                                 *)

SessionTypeOK ==
    /\ place \in {"off", "starting", "connected", "announcing", "running", "quitting",
                  "deleting"}
    /\ nodeStatus \in NodeStatus /\ retained \in NodeStatus \cup {NoMessage}
    /\ beat \in NodeStatus \cup {NoMessage} /\ hand \in NodeStatus \cup {NoMessage}
    /\ link \in {"none", "up", "down"} /\ wire \in Seq(NodeStatus \cup {"DISCONNECT"})
    /\ will \in BOOLEAN /\ late \in BOOLEAN

\* The farewell of a connection is the last of it, there is a will while there is
\* none, and nothing is in a connection that broke.
WillIsKept ==
    /\ \A k \in DOMAIN wire : wire[k] = "DISCONNECT" => k = Len(wire)
    /\ link = "up" => will /\ ~Closed
    /\ link = "down" => wire = <<>> /\ (will \/ retained \notin Alive)
    /\ place \notin {"off", "starting"} => link # "none"
    /\ place = "quitting" /\ link = "up" => late \/ Standing \notin Alive

SessionInv == SessionTypeOK /\ WillIsKept /\ AliveIsRevocable


LEMMA InitSessionInv == SessionInit => SessionInv
<1> SUFFICES ASSUME SessionInit  PROVE SessionInv
  OBVIOUS
<1> USE NodeSessionAssumption DEF SessionInit, NodeStatus
<1>1. <<>> \in Seq(NodeStatus \cup {"DISCONNECT"})
  OBVIOUS
<1>2. SessionTypeOK
  BY <1>1 DEF SessionTypeOK
<1>3. WillIsKept /\ AliveIsRevocable
  BY DEF WillIsKept, AliveIsRevocable, Standing, Closed, Alive
<1> QED  BY <1>2, <1>3 DEF SessionInv

\* What is published is what stands (publishMessage, mqtt.go 174-189).
LEMMA AppendStands ==
    ASSUME SessionInv, ~Closed, NEW m \in NodeStatus, wire' = Append(wire, m)
    PROVE  /\ wire' \in Seq(NodeStatus \cup {"DISCONNECT"})
           /\ \A k \in DOMAIN wire' : wire'[k] # "DISCONNECT"
           /\ ~Closed' /\ Standing' = m
<1> USE DEF SessionInv, SessionTypeOK
<1>1. wire' \in Seq(NodeStatus \cup {"DISCONNECT"}) /\ Len(wire') = Len(wire) + 1
  OBVIOUS
<1>2. \A k \in 1..Len(wire) : wire'[k] = wire[k]
  OBVIOUS
<1>3. wire'[Len(wire')] = m /\ m # "DISCONNECT"
  BY <1>1 DEF NodeStatus
<1>4. ASSUME NEW k \in DOMAIN wire'  PROVE wire'[k] # "DISCONNECT"
  <2>1. k \in 1..Len(wire')
    BY <1>1
  <2>2. CASE k = Len(wire')
    BY <2>2, <1>3
  <2>3. CASE k \in 1..Len(wire)
    <3>1. wire[k] # "DISCONNECT"
      BY <2>3 DEF WillIsKept, Closed
    <3> QED  BY <3>1, <2>3, <1>2
  <2> QED  BY <1>1, <2>1, <2>2, <2>3
<1>5. ~Closed'
  BY <1>3 DEF Closed
<1>6. Standing' = m
  BY <1>1, <1>3, <1>5 DEF Standing
<1> QED  BY <1>1, <1>4, <1>5, <1>6

\* A message is published, or dropped while there is no connection.
LEMMA PublishedKeeps ==
    ASSUME SessionInv, NEW m \in NodeStatus, Published(m), UNCHANGED <<will, retained>>
    PROVE  /\ wire' \in Seq(NodeStatus \cup {"DISCONNECT"}) /\ late' \in BOOLEAN
           /\ \A k \in DOMAIN wire' : wire'[k] = "DISCONNECT" => k = Len(wire')
           /\ link = "up" => will' /\ ~Closed' /\ Standing' = m
           /\ link = "up" /\ place = "quitting" => late'
           /\ link # "up" => UNCHANGED <<wire, late>>
           /\ AliveIsRevocable'
<1> USE DEF SessionInv, SessionTypeOK, Published
<1>1. CASE link = "up"
  BY <1>1, AppendStands DEF WillIsKept, AliveIsRevocable
<1>2. CASE link # "up"
  <2>1. UNCHANGED <<wire, late, will, retained>>
    BY <1>2
  <2> QED  BY <1>2, <2>1 DEF WillIsKept, AliveIsRevocable, Standing, Closed
<1> QED  BY <1>1, <1>2

\* The farewell, the heartbeat, the handlers, and the exit after --delete.
LEMMA PublishingSteps ==
    ASSUME SessionInv,
           DeleteNodeAndExit \/ SayGoodbye \/ Publish \/ PublishInHandler
    PROVE  SessionInv'
<1> USE DEF SessionInv, SessionTypeOK
<1>1. CASE DeleteNodeAndExit
  <2>1. "Disconnected" \in NodeStatus /\ Published("Disconnected")
    BY <1>1 DEF DeleteNodeAndExit, NodeStatus
  <2> QED
    BY <1>1, <2>1, PublishedKeeps DEF DeleteNodeAndExit, WillIsKept
<1>2. CASE SayGoodbye
  <2>1. "Disconnected" \in NodeStatus /\ "Disconnected" \notin Alive
    BY DEF NodeStatus, Alive
  <2> QED
    BY <1>2, <2>1, PublishedKeeps DEF SayGoodbye, WillIsKept, bounds
<1>3. CASE Publish
  <2>1. beat \in NodeStatus
    BY <1>3 DEF Publish
  <2> QED
    BY <1>3, <2>1, PublishedKeeps DEF Publish, WillIsKept, bounds
<1>4. CASE PublishInHandler
  <2>1. hand \in NodeStatus
    BY <1>4 DEF PublishInHandler
  <2> QED
    BY <1>4, <2>1, PublishedKeeps DEF PublishInHandler, WillIsKept, bounds
<1> QED  BY <1>1, <1>2, <1>3, <1>4

\* Connections are made with a will, and the will of an older one is published
\* before (createMqttClient, mqtt.go 90-130).
LEMMA OpeningSteps ==
    ASSUME SessionInv, Connect \/ Reconnect
    PROVE  SessionInv'
<1> USE DEF SessionInv, SessionTypeOK, Opened
<1>1. wire' = <<>> /\ wire' \in Seq(NodeStatus \cup {"DISCONNECT"}) /\ ~Closed'
  <2>1. wire' = <<>>
    BY DEF Connect, Reconnect
  <2> QED  BY <2>1 DEF Closed
<1>2. Standing' = retained' /\ retained' \in NodeStatus \cup {NoMessage}
  BY <1>1 DEF Connect, Reconnect, Standing, NodeStatus
<1>3. CASE Connect
  <2>1. SessionTypeOK'
    BY <1>1, <1>2, <1>3 DEF Connect, bounds
  <2>2. WillIsKept' /\ AliveIsRevocable'
    BY <1>1, <1>2, <1>3 DEF Connect, WillIsKept, AliveIsRevocable
  <2> QED  BY <2>1, <2>2
<1>4. CASE Reconnect
  <2>1. retained' \notin Alive
    BY <1>4 DEF Reconnect, WillIsKept, Alive
  <2> QED
    BY <1>1, <1>2, <1>4, <2>1 DEF Reconnect, WillIsKept, AliveIsRevocable, bounds
<1> QED  BY <1>3, <1>4

\* client.Disconnect: what stood goes on standing, and takes the will away.
LEMMA DisconnectStep ==
    ASSUME SessionInv, Disconnect
    PROVE  SessionInv'
<1> USE DEF SessionInv, SessionTypeOK, Disconnect, bounds
<1>1. CASE link = "up"
  <2>1. wire' = Append(wire, "DISCONNECT") /\ ~Closed
    BY <1>1 DEF WillIsKept
  <2>2. wire' \in Seq(NodeStatus \cup {"DISCONNECT"}) /\ Len(wire') = Len(wire) + 1
    BY <2>1
  <2>3. wire'[Len(wire')] = "DISCONNECT" /\ \A k \in 1..Len(wire) : wire'[k] = wire[k]
    BY <2>1, <2>2
  <2>4. Closed'
    BY <2>2, <2>3 DEF Closed
  <2>5. Standing' = Standing
    BY <2>1, <2>2, <2>3, <2>4 DEF Standing
  <2>6. \A k \in 1..Len(wire) : wire[k] # "DISCONNECT"
    BY <2>1 DEF WillIsKept, Closed
  <2>7. \A k \in DOMAIN wire' : wire'[k] = "DISCONNECT" => k = Len(wire')
    BY <2>2, <2>3, <2>6
  <2> QED
    BY <1>1, <2>2, <2>5, <2>7 DEF WillIsKept, AliveIsRevocable
<1>2. CASE link # "up"
  BY <1>2 DEF WillIsKept, AliveIsRevocable, Standing, Closed
<1> QED  BY <1>1, <1>2

\* The broker takes a message: what stood goes on standing.
LEMMA ArriveStep ==
    ASSUME SessionInv, Arrive
    PROVE  SessionInv'
<1> USE DEF SessionInv, SessionTypeOK, Arrive, bounds
<1>1. wire # <<>> /\ Head(wire) = wire[1] /\ Len(wire) \in Nat \ {0}
  OBVIOUS
<1>2. CASE Head(wire) = "DISCONNECT"
  <2>0. 1 \in DOMAIN wire /\ wire[1] = "DISCONNECT"
    BY <1>1, <1>2
  <2>1. Len(wire) = 1 /\ Closed /\ link # "up"
    <3>1. Len(wire) = 1
      BY <2>0 DEF WillIsKept
    <3>2. Closed
      BY <1>1, <2>0, <3>1 DEF Closed
    <3> QED  BY <3>1, <3>2 DEF WillIsKept
  <2>2. Standing = retained
    BY <1>1, <2>1 DEF Standing
  <2>3. wire' = <<>> /\ wire' \in Seq(NodeStatus \cup {"DISCONNECT"}) /\ ~Closed'
    BY <1>2 DEF Closed
  <2>4. Standing' = retained
    BY <1>2, <2>3 DEF Standing
  <2>5. link # "down"
    BY <1>1 DEF WillIsKept
  <2>6. WillIsKept'
    BY <1>2, <2>1, <2>3, <2>5 DEF WillIsKept
  <2>7. AliveIsRevocable'
    BY <1>2, <2>1, <2>2, <2>3, <2>4 DEF AliveIsRevocable
  <2>8. SessionTypeOK'
    BY <1>2, <2>3
  <2> QED  BY <2>6, <2>7, <2>8
<1>3. CASE Head(wire) # "DISCONNECT"
  <2>1. wire' \in Seq(NodeStatus \cup {"DISCONNECT"}) /\ Len(wire') = Len(wire) - 1
    BY <1>1, <1>3
  <2>2. \A k \in 1..Len(wire') : wire'[k] = wire[k + 1]
    BY <1>1, <1>3, <2>1
  <2>3. \A k \in DOMAIN wire' : wire'[k] = "DISCONNECT" => k = Len(wire')
    <3> SUFFICES ASSUME NEW k \in 1..Len(wire'), wire'[k] = "DISCONNECT"
                 PROVE  k = Len(wire')
      BY <2>1
    <3>1. k + 1 \in DOMAIN wire /\ wire[k + 1] = "DISCONNECT"
      BY <2>1, <2>2
    <3>2. k + 1 = Len(wire)
      BY <3>1 DEF WillIsKept
    <3> QED  BY <2>1, <3>2
  <2>4. retained' = wire[1] /\ retained' \in NodeStatus
    BY <1>1, <1>3
  <2>5. Closed' <=> Closed
    BY <1>1, <1>3, <2>1, <2>2 DEF Closed
  <2>6. Standing' = Standing
    BY <1>1, <1>3, <2>1, <2>2, <2>4, <2>5 DEF Standing, Closed
  <2>7. link # "down"
    BY <1>1 DEF WillIsKept
  <2> QED
    BY <1>3, <2>1, <2>3, <2>4, <2>5, <2>6, <2>7 DEF WillIsKept, AliveIsRevocable
<1> QED  BY <1>2, <1>3

\* Steps that leave the connection and the broker alone, and ends of them.
LEMMA OtherSessionSteps ==
    ASSUME SessionInv,
           \/ SetConnected \/ StartThreads \/ Compose \/ DeleteNode \/ ComposeInHandler
           \/ ProcessEnds \/ Restart \/ PublishWill \/ ConnectionLost
           \/ UNCHANGED sessionVars
    PROVE  SessionInv'
<1> USE DEF SessionInv, SessionTypeOK, bounds
<1>1. CASE SetConnected \/ StartThreads \/ Compose \/ DeleteNode \/ ComposeInHandler
  <2>1. UNCHANGED <<wire, will, retained, late, link>>
    BY <1>1 DEF SetConnected, StartThreads, Compose, DeleteNode, ComposeInHandler
  <2>2. SessionTypeOK' /\ (place' # "quitting" \/ place' = place)
        /\ (place \in {"off", "starting"} => place' = place)
    BY <1>1 DEF SetConnected, StartThreads, Compose, DeleteNode, ComposeInHandler,
                Serving, NodeStatus
  <2> QED
    BY <2>1, <2>2 DEF WillIsKept, AliveIsRevocable, Standing, Closed
<1>2. CASE ProcessEnds \/ Restart
  <2>1. UNCHANGED <<wire, will, retained, late>> /\ place' \in {"off", "starting"}
    BY <1>2 DEF ProcessEnds, Restart
  <2>2. SessionTypeOK' /\ (link' = "none" \/ UNCHANGED link)
    BY <1>2 DEF ProcessEnds, Restart, NodeStatus
  <2> QED
    BY <2>1, <2>2 DEF WillIsKept, AliveIsRevocable, Standing, Closed
<1>3. CASE PublishWill
  BY <1>3 DEF PublishWill, NodeStatus, Alive, WillIsKept, AliveIsRevocable, Standing, Closed
<1>4. CASE ConnectionLost
  <2>1. wire' = <<>> /\ wire' \in Seq(NodeStatus \cup {"DISCONNECT"}) /\ ~Closed'
    BY <1>4 DEF ConnectionLost, Closed
  <2> QED
    BY <1>4, <2>1 DEF ConnectionLost, WillIsKept, AliveIsRevocable
<1>5. CASE UNCHANGED sessionVars
  BY <1>5 DEF sessionVars, WillIsKept, AliveIsRevocable, Standing, Closed
<1> QED  BY <1>1, <1>2, <1>3, <1>4, <1>5

LEMMA SessionInvHolds == SessionSpec => []SessionInv
<1>1. SessionInv /\ [SessionNext]_sessionVars => SessionInv'
  BY PublishingSteps, OpeningSteps, DisconnectStep, ArriveStep, OtherSessionSteps
     DEF SessionNext, Main, Heartbeat, Handlers, Broker
<1> QED  BY InitSessionInv, <1>1, PTL DEF SessionSpec

\* Whatever the broker keeps or is being sent that says the node is alive can be
\* taken back without the node: it has a will that no DISCONNECT on its way will
\* cancel, unless a heartbeat came after the farewell (mqtt.go 78-107).
THEOREM AliveStatusIsRevocable == SessionSpec => []AliveIsRevocable
<1>1. SessionInv => AliveIsRevocable
  BY DEF SessionInv
<1> QED  BY SessionInvHolds, <1>1, PTL
=============================================================================
