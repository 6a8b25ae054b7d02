------------------------------ MODULE NodeKeys ------------------------------
(***************************************************************************)
(* The key of the node and the key of the organization (internal/secret,   *)
(* internal/handler/secrets_msg.go, and their place in main).              *)
(*                                                                         *)
(* The node's key pair is made once, kept in a file, and its public half   *)
(* published at every start.  MAPI sends the organization key encrypted    *)
(* with it; the agent keeps that in memory only and tells its hash in the  *)
(* status.  A key stands for its public half and its hash; the contents of *)
(* a message are the keys it was made with.                                *)
(***************************************************************************)
EXTENDS Naturals, Sequences

CONSTANTS
    PrivateKeys,    \* what rsa.GenerateKey may return
    OrgKeys,        \* the keys MAPI may give to the organization
    None,           \* no file, no key
    Empty,          \* the file that was created and not written
    MaxMail,        \* bound: messages that wait at the broker
    MaxCrashes      \* bound: ends of the process

ASSUME NodeKeysAssumption ==
    /\ None \notin PrivateKeys \cup OrgKeys /\ Empty \notin PrivateKeys /\ Empty # None
    /\ MaxMail \in Nat /\ MaxCrashes \in Nat

VARIABLES
    main,               \* where main() is
    nodePrivateKeyFile, \* nodePrivateKey.pem
    nodePrivateKey,     \* the key in memory
    published,          \* the public key the broker keeps
    mail,               \* messages on <nodeId>/orgKey, the first being handled
    decryptor,          \* the organization key in use
    OrgKeyHash,         \* the key whose hash is told
    hashing,            \* OrgPrivKeyHandler is between the two
    reported,           \* the key whose hash is in the status the broker keeps
    own,                \* that status is one of the running process
    crashes             \* counter for the bound

vars == <<main, nodePrivateKeyFile, nodePrivateKey, published, mail, decryptor,
          OrgKeyHash, hashing, reported, own, crashes>>

orgVars == <<decryptor, OrgKeyHash, hashing>>
told == <<reported, own>>
outside == <<published, mail, told, crashes>>

Place == {"off", "init", "create", "encode", "connect", "announce", "running"}

Init ==
    /\ main = "init" /\ nodePrivateKeyFile = None /\ nodePrivateKey = None
    /\ published = None /\ mail = <<>> /\ reported = None /\ own = FALSE
    /\ decryptor = None /\ OrgKeyHash = None /\ hashing = FALSE
    /\ crashes = 0

------------------------------------------------------------------------------
(* InitNodeKeypair                                                         *)

\* Variant: an empty file is taken for none, and the new key is not written.
GenerateAgain ==
    /\ main = "init" /\ nodePrivateKeyFile \in {None, Empty}
    /\ nodePrivateKey' \in PrivateKeys
    /\ main' = "connect"
    /\ UNCHANGED <<nodePrivateKeyFile, orgVars, outside>>

GenerateKey ==
    /\ main = "init" /\ nodePrivateKeyFile = None
    /\ nodePrivateKey' \in PrivateKeys
    /\ main' = "create"
    /\ UNCHANGED <<nodePrivateKeyFile, orgVars, outside>>

CreateKeyFile ==
    /\ main = "create" /\ main' = "encode"
    /\ nodePrivateKeyFile' = Empty
    /\ UNCHANGED <<nodePrivateKey, orgVars, outside>>

WriteKeyFile ==
    /\ main = "encode" /\ main' = "connect"
    /\ nodePrivateKeyFile' = nodePrivateKey
    /\ UNCHANGED <<nodePrivateKey, orgVars, outside>>

\* Variant: another type of block is looked for than was written.
ReadOtherType ==
    /\ main = "init" /\ nodePrivateKeyFile = Empty
    /\ main' = "connect"
    /\ UNCHANGED <<nodePrivateKeyFile, nodePrivateKey, orgVars, outside>>

\* Variant: it is not checked that there is a key in the file.
ReadAnyFile ==
    /\ main = "init" /\ nodePrivateKeyFile # None
    /\ nodePrivateKey' = nodePrivateKeyFile
    /\ main' = "connect"
    /\ UNCHANGED <<nodePrivateKeyFile, orgVars, outside>>

ReadKeyFile ==
    /\ main = "init" /\ nodePrivateKeyFile \in PrivateKeys
    /\ nodePrivateKey' = nodePrivateKeyFile
    /\ main' = "connect"
    /\ UNCHANGED <<nodePrivateKeyFile, orgVars, outside>>

------------------------------------------------------------------------------
(* The session                                                             *)

ConnectNode ==
    /\ main = "connect" /\ main' = "announce"
    /\ UNCHANGED <<nodePrivateKeyFile, nodePrivateKey, orgVars, outside>>

\* It may get lost, which main does not notice.
SendNodePublicKey ==
    /\ main = "announce" /\ main' = "running"
    /\ published' \in {published, nodePrivateKey}
    /\ UNCHANGED <<nodePrivateKeyFile, nodePrivateKey, orgVars, mail, told, crashes>>

Connected == main \in {"announce", "running"}

\* The heartbeat's, or a handler's; it may get lost, with QoS 0.
SendStatus ==
    /\ Connected
    /\ \/ reported' = OrgKeyHash /\ own' = TRUE
       \/ UNCHANGED told
    /\ UNCHANGED <<main, nodePrivateKeyFile, nodePrivateKey, orgVars, published,
                   mail, crashes>>

\* The farewell or the will of this or of an earlier session, which tells no hash.
\* A status published after the farewell stays, and over the next start
\* (module NodeSession says when either happens).
DisconnectedIsTold ==
    /\ reported' = None /\ own' = FALSE
    /\ UNCHANGED <<main, nodePrivateKeyFile, nodePrivateKey, orgVars, published,
                   mail, crashes>>

\* MAPI: a key of the organization for whoever has the published key.
SendOrgKey ==
    /\ published # None /\ Len(mail) < MaxMail
    /\ \E o \in OrgKeys : mail' = Append(mail, [node |-> published, org |-> o])
    /\ UNCHANGED <<main, nodePrivateKeyFile, nodePrivateKey, orgVars, published,
                   told, crashes>>

------------------------------------------------------------------------------
(* ProcessOrgPrivKeyMessage                                                *)

Handling == Connected /\ mail # <<>> /\ ~hashing

OrgKeyRefused ==
    /\ Handling /\ Head(mail).node # nodePrivateKey
    /\ mail' = Tail(mail)
    /\ UNCHANGED <<main, nodePrivateKeyFile, nodePrivateKey, orgVars, published,
                   told, crashes>>

\* Variant: the hash is told before the key can be used.
SetHashFirst ==
    /\ Handling /\ Head(mail).node = nodePrivateKey
    /\ OrgKeyHash' = Head(mail).org /\ hashing' = TRUE
    /\ UNCHANGED <<main, nodePrivateKeyFile, nodePrivateKey, decryptor, outside>>

SetDecryptor ==
    /\ Handling /\ Head(mail).node = nodePrivateKey
    /\ decryptor' = Head(mail).org /\ hashing' = TRUE
    /\ UNCHANGED <<main, nodePrivateKeyFile, nodePrivateKey, OrgKeyHash, outside>>

SetOrgKeyHash ==
    /\ Connected /\ hashing
    /\ OrgKeyHash' = decryptor /\ hashing' = FALSE
    /\ mail' = Tail(mail)
    /\ UNCHANGED <<main, nodePrivateKeyFile, nodePrivateKey, decryptor, published,
                   told, crashes>>

\* DecryptEnv, for a value that was encrypted with o, its nonce before it (of a value
\* too short to have one module ManifestWiring says what becomes).
Decrypts(o) == decryptor # None /\ decryptor = o

------------------------------------------------------------------------------
Crash ==
    /\ main # "off" /\ crashes < MaxCrashes /\ crashes' = crashes + 1
    /\ main' = "off" /\ nodePrivateKey' = None
    /\ decryptor' = None /\ OrgKeyHash' = None /\ hashing' = FALSE
    /\ own' = FALSE
    /\ UNCHANGED <<nodePrivateKeyFile, published, mail, reported>>

\* systemd, which sees a start that fails, as with an empty key file, as one more
\* end of the process: main stays "init" here.
Start ==
    /\ main = "off" /\ main' = "init"
    /\ UNCHANGED <<nodePrivateKeyFile, nodePrivateKey, orgVars, outside>>

Startup ==
    \/ GenerateKey \/ CreateKeyFile \/ WriteKeyFile \/ ReadKeyFile
    \/ ConnectNode \/ SendNodePublicKey \/ Start

OrgPrivKeyHandler == OrgKeyRefused \/ SetDecryptor \/ SetOrgKeyHash

Next == Startup \/ SendStatus \/ DisconnectedIsTold \/ SendOrgKey \/ OrgPrivKeyHandler \/ Crash

Spec == Init /\ [][Next]_vars

FairSpec == Spec /\ WF_vars(Startup) /\ WF_vars(OrgPrivKeyHandler)

------------------------------------------------------------------------------
(* Properties                                                              *)

\* The types of the keys, of the two files and of the messages (secret.go).
TypeOK ==
    /\ main \in Place /\ hashing \in BOOLEAN /\ own \in BOOLEAN
    /\ nodePrivateKeyFile \in PrivateKeys \cup {None, Empty}
    /\ nodePrivateKey \in PrivateKeys \cup {None}
    /\ published \in PrivateKeys \cup {None}
    /\ mail \in Seq([node : PrivateKeys, org : OrgKeys])
    /\ {decryptor, OrgKeyHash, reported} \subseteq OrgKeys \cup {None}

\* Once published, a key is in the file, and in the memory of every later process
\* that is connected; so what MAPI encrypts with it can always be decrypted
\* (secret.go 35-109, agent.go 54-88).
PublishedKeyLasts ==
    published # None =>
        /\ nodePrivateKeyFile = published
        /\ Connected => nodePrivateKey = published

\* No message with an organization key is in vain, however many restarts lie
\* between its encryption and its handling (secret.go 125).
OrgKeyIsReadable ==
    \A k \in DOMAIN mail : Connected => mail[k].node = nodePrivateKey

\* A hash that the running process has told is that of a key it has, and the key it
\* decrypts with is the one whose hash it tells, or comes from the message that is just
\* being handled: MAPI may encrypt secrets with the key it is told of.  What an earlier
\* process told may still be kept by the broker until the first status of this one
\* arrives, and is not claimed (status.go 54, secret.go 135-140).
ReportedKeyIsUsable ==
    /\ own /\ reported # None => decryptor # None
    /\ OrgKeyHash # None /\ ~hashing => Decrypts(OrgKeyHash)
    /\ main = "running" /\ hashing => decryptor = Head(mail).org

\* The agent comes to run after every crash, unless it crashed while it wrote its
\* key for the first time: with an empty key file it fails at every start
\* (secret.go 58-61, agent.go 54-57).
ComesToRun == []<>(main = "running" \/ nodePrivateKeyFile = Empty)
==============================================================================
