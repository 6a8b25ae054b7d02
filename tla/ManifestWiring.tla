--------------------------- MODULE ManifestWiring ---------------------------
(***************************************************************************)
(* The way of a manifest from the message to the containers                *)
(* (internal/manifest/manifest.go with AddKnownManifest of status.go, as   *)
(* DeployEdgeApp calls them).                                              *)
(*                                                                         *)
(* Parse reads the modules and the connections, AddKnownManifest keeps a   *)
(* copy without secrets, UpdateManifest names the containers and tells     *)
(* each the addresses it sends to, and the containers are created with     *)
(* what the array of modules then holds.  Go slices share their arrays:    *)
(* the manifest and the record name the array they use.  Both loops over   *)
(* a map visit its keys in an order of their own.                          *)
(***************************************************************************)
EXTENDS Integers, Sequences, Functions

CONSTANTS
    Size,           \* number of modules of the manifest, at least one
    Image,          \* [Indices -> the full name of the module's image]
    Clean,          \* what makeContainerName turns an image's name into
    Texts,          \* the texts that may name a module in "connections"
    Atoi,           \* the number a text stands for, or NotANumber
    NotANumber,
    Connections     \* the "connections" a message may carry

\* Parse refuses a manifest without modules, and Atoi fails on some texts.
ASSUME ManifestWiringAssumption ==
    /\ Size \in Nat \ {0}
    /\ NotANumber \notin Int
    /\ Atoi \in [Texts -> Int \cup {NotANumber}]
    /\ \A c \in Connections : DOMAIN c \subseteq Texts /\ \A k \in DOMAIN c : c[k] \in Seq(Texts)

Indices == 0 .. Size - 1

VARIABLES
    pc,             \* the step of the handler that comes next
    secrets,        \* of each module, the first of its secret values that does not decrypt
    decryptor,      \* the organization key is here
    message,        \* "connections" of the message
    todo,           \* keys of the map the loop has not visited
    connections,    \* Manifest.Connections
    array,          \* the arrays of modules in memory
    record          \* the array the known manifest uses

inputs == <<secrets, decryptor, message>>
wiringVars == <<pc, inputs, todo, connections, array, record>>

Blank == <<>>

\* A module has no secret value, or only good ones, or one that is no base64 or not of
\* this key, or one too short to hold a nonce.
SecretKinds == {"none", "good", "wrong", "short"}

WiringInit ==
    /\ pc = "modules" /\ message \in Connections
    /\ secrets \in [Indices -> SecretKinds] /\ decryptor \in BOOLEAN
    /\ todo = {} /\ connections = Blank
    /\ array = Blank /\ record = "none"

------------------------------------------------------------------------------
(* Parse                                                                   *)

Value(i) == <<IF secrets[i] = "none" THEN "plain" ELSE "secret", i>>

\* What a ContainerConfig holds when it is parsed.
Parsed(i) ==
    [image |-> Image[i], password |-> "given", name |-> Blank,
     env |-> << <<"Envs", Value(i)>>, <<"MODULE_NAME", Image[i]>> >>]

\* What DecryptEnv does with the secrets of a module, with the modules taken in order.
Decrypts(i) == secrets[i] = "none" \/ (secrets[i] = "good" /\ decryptor)
Cuts(i) == secrets[i] = "short" /\ decryptor
Stops(i) == ~Decrypts(i) /\ \A j \in Indices : j < i => Decrypts(j)

ParseModules ==
    /\ pc = "modules" /\ \A i \in Indices : Decrypts(i)
    /\ array' = [man |-> [i \in Indices |-> Parsed(i)]]
    /\ todo' = DOMAIN message
    /\ pc' = "connections"
    /\ UNCHANGED <<inputs, connections, record>>

SecretRefused ==
    /\ pc = "modules" /\ \E i \in Indices : Stops(i) /\ ~Cuts(i)
    /\ pc' = "refused"
    /\ UNCHANGED <<inputs, todo, connections, array, record>>

\* The nonce is cut off before the length is looked at: the panic ends the agent.
SecretPanics ==
    /\ pc = "modules" /\ \E i \in Indices : Stops(i) /\ Cuts(i)
    /\ pc' = "unparsed"
    /\ UNCHANGED <<inputs, todo, connections, array, record>>

Numeric(k) == \A t \in Range(message[k]) \cup {k} : Atoi[t] # NotANumber

\* Variant: negative ends are not skipped.
ValuesIntAll(values) == [n \in DOMAIN values |-> Atoi[values[n]]]

\* The ends of a list of numbers: negative ones are left out.
ValuesInt(values) ==
    LET Upto[n \in 0 .. Len(values)] ==
            IF n = 0 THEN <<>>
            ELSE IF Atoi[values[n]] < 0 THEN Upto[n - 1]
            ELSE Append(Upto[n - 1], Atoi[values[n]])
    IN  Upto[Len(values)]

ParseConnection(k) ==
    /\ pc = "connections" /\ k \in todo /\ (message[k] = <<>> \/ Numeric(k))
    /\ todo' = todo \ {k}
    /\ connections' = IF message[k] = <<>> THEN connections
                      ELSE [x \in DOMAIN connections \cup {Atoi[k]} |->
                               IF x = Atoi[k] THEN ValuesInt(message[k]) ELSE connections[x]]
    /\ UNCHANGED <<pc, inputs, array, record>>

ConnectionRefused(k) ==
    /\ pc = "connections" /\ k \in todo /\ message[k] # <<>> /\ ~Numeric(k)
    /\ pc' = "refused"
    /\ UNCHANGED <<inputs, todo, connections, array, record>>

ParseEnds ==
    /\ pc = "connections" /\ todo = {}
    /\ pc' = "record"
    /\ UNCHANGED <<inputs, todo, connections, array, record>>

------------------------------------------------------------------------------
(* AddKnownManifest, and the two uses of the manifest after it           *)

\* Variant: the password of the registry stays.
ClearEnvOnly(modules) == [i \in Indices |-> [modules[i] EXCEPT !.env = <<>>]]

ClearSecretValues(modules) ==
    [i \in Indices |-> [modules[i] EXCEPT !.env = <<>>, !.password = "none"]]

\* Variant: a copy of the struct only, so that both use one array.
AddSharedManifest ==
    /\ pc = "record"
    /\ array' = [man |-> ClearSecretValues(array.man)]
    /\ record' = "man"
    /\ pc' = "name"
    /\ UNCHANGED <<inputs, todo, connections>>

RecordManifest ==
    /\ pc = "record"
    /\ array' = [man |-> array.man, copy |-> ClearSecretValues(array.man)]
    /\ record' = "copy"
    /\ pc' = "name"
    /\ UNCHANGED <<inputs, todo, connections>>

\* Variant: the position of the module is left out.
MakeImageName(i) == <<"network", Clean[Image[i]]>>

MakeContainerName(i) == <<"network", Clean[Image[i]], i>>

With(module, variable, value) ==
    [module EXCEPT !.env = Append(@, <<variable, value>>)]

\* The first loop of UpdateManifest.
NameModules ==
    /\ pc = "name"
    /\ array' = [array EXCEPT !.man = [i \in Indices |->
                    With([@[i] EXCEPT !.name = MakeContainerName(i)],
                         "INGRESS_HOST", MakeContainerName(i))]]
    /\ todo' = DOMAIN connections
    /\ pc' = "wire"
    /\ UNCHANGED <<inputs, connections, record>>

InRange(start) == {start} \cup Range(connections[start]) \subseteq Indices

\* One round of its second loop.
Wire(start) ==
    /\ pc = "wire" /\ start \in todo /\ InRange(start)
    /\ array' = [array EXCEPT !.man[start] =
                    With(@, "EGRESS_URLS", [n \in DOMAIN connections[start] |->
                                              array.man[connections[start][n]].name])]
    /\ todo' = todo \ {start}
    /\ UNCHANGED <<pc, inputs, connections, record>>

\* An index outside the array: the panic ends the agent.
WirePanics(start) ==
    /\ pc = "wire" /\ start \in todo /\ ~InRange(start)
    /\ pc' = "panicked"
    /\ UNCHANGED <<inputs, todo, connections, array, record>>

WiringEnds ==
    /\ pc = "wire" /\ todo = {}
    /\ pc' = "create"
    /\ UNCHANGED <<inputs, todo, connections, array, record>>

WiringNext ==
    \/ ParseModules \/ SecretRefused \/ SecretPanics \/ ParseEnds
    \/ RecordManifest \/ NameModules \/ WiringEnds
    \/ \E k \in Texts : ParseConnection(k) \/ ConnectionRefused(k)
    \/ \E start \in todo : Wire(start) \/ WirePanics(start)

WiringSpec == WiringInit /\ [][WiringNext]_wiringVars

------------------------------------------------------------------------------
(* Properties                                                              *)

WiringTypeOK ==
    /\ pc \in {"modules", "connections", "record", "name", "wire", "create",
               "refused", "unparsed", "panicked"}
    /\ DOMAIN connections \subseteq Int
    /\ \A s \in DOMAIN connections : connections[s] \in Seq(Nat)
    /\ record \in DOMAIN array \cup {"none"}

\* The lines of a container's environment that set a variable, and that one
\* alone sets it, to value.
Lines(module, variable) == {n \in DOMAIN module.env : module.env[n][1] = variable}

IsTold(module, variable, value) ==
    \E n \in DOMAIN module.env :
        Lines(module, variable) = {n} /\ module.env[n][2] = value

Created == [i \in Indices |-> array.man[i]]

\* The containers that carry a name.
Named(name) == {i \in Indices : Created[i].name = name}

\* The lists of the message for module i: one, unless its index is written in two ways.
ListsFor(i) == {message[k] : k \in {x \in DOMAIN message : Atoi[x] = i /\ message[x] # <<>>}}

\* Whatever the order of the two loops, every container is told once where to
\* send if and only if the message lists its module, and the n-th address is
\* the name of the n-th listed module that is not negative, and of no other.
WiringIsRight ==
    pc = "create" =>
        \A i \in Indices :
            IF ListsFor(i) = {} THEN Lines(Created[i], "EGRESS_URLS") = {}
            ELSE \E list \in ListsFor(i), n \in Lines(Created[i], "EGRESS_URLS") :
                    LET ends == ValuesInt(list)
                        told == Created[i].env[n][2]
                    IN  /\ IsTold(Created[i], "EGRESS_URLS", told)
                        /\ DOMAIN told = DOMAIN ends
                        /\ \A m \in DOMAIN ends : Named(told[m]) = {ends[m]}

\* A container is created with the secret values of its module, the image is
\* pulled with the password, and the address it listens on is its own name, while
\* nothing secret is ever in the record, which goes to the disk with every change
\* of the status: what is cleared for the record is not cleared for the
\* deployment, and what the deployment is told later does not get into the record.
SecretsStayApart ==
    /\ pc \in {"name", "wire", "create"} =>
          \A i \in Indices : /\ Created[i].password = "given"
                             /\ IsTold(Created[i], "Envs", Value(i))
                             /\ pc = "create" =>
                                   IsTold(Created[i], "INGRESS_HOST", Created[i].name)
    /\ record # "none" =>
          \A i \in Indices : array[record][i].env = <<>> /\ array[record][i].password = "none"

\* The four ways a manifest ends.  Before anything is recorded: refused, for a secret
\* without its key or not of it or for a list with a text that is no number; or a panic
\* in Parse, for a secret that is too short - whichever of the two kinds of secrets the
\* first module has that has one.  After the record and the network were made: a panic,
\* if a list belongs to no module or leads to none; and otherwise its containers.
Wanted == {k \in DOMAIN message : message[k] # <<>>}
Refused(i) == secrets[i] = "wrong" \/ (secrets[i] # "none" /\ ~decryptor)
SecretsRefused == \E i \in Indices : Refused(i) /\ \A j \in Indices : Cuts(j) => i < j
SecretsPanic == \E i \in Indices : Cuts(i) /\ \A j \in Indices : Refused(j) => i < j
Refusable == SecretsRefused \/ \E k \in Wanted : ~Numeric(k)
Astray(k) == Atoi[k] \notin Indices \/ \E t \in Range(message[k]) : Atoi[t] >= Size

EndFitsMessage ==
    /\ pc = "refused" => Refusable /\ ~SecretsPanic /\ record = "none"
    /\ pc = "unparsed" => SecretsPanic /\ ~SecretsRefused /\ record = "none"
    /\ pc = "panicked" => /\ ~Refusable /\ ~SecretsPanic /\ record # "none"
                          /\ \E k \in Wanted : Astray(k)
    /\ pc = "create" => /\ ~Refusable /\ ~SecretsPanic
                        /\ \A k \in Wanted : Astray(k) =>
                              \E j \in Wanted \ {k} : Atoi[j] = Atoi[k] /\ ~Astray(j)
=============================================================================
