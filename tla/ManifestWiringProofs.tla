------------------------ MODULE ManifestWiringProofs ------------------------
(***************************************************************************)
(* Proofs for ManifestWiring: what containers are told, that secrets and   *)
(* the record stay apart, and in which of four ways a manifest ends, for   *)
(* any number of modules and any connections.                              *)
(***************************************************************************)
EXTENDS ManifestWiring, WellFoundedInduction, SequenceTheorems, TLAPS

------------------------------------------------------------------------------
(* What makes them inductive                                               *)

\* The lists of the message that have been parsed.
Taken == IF pc = "connections" THEN Wanted \ todo ELSE Wanted

\* The connections are those of the lists parsed, each from one of the lists for
\* its index, and all numbers.
ConnectionsFit ==
    /\ DOMAIN connections \subseteq Int
    /\ \A s \in DOMAIN connections : connections[s] \in Seq(Nat)
    /\ pc = "modules" => connections = Blank
    /\ pc \notin {"modules", "refused", "unparsed"} =>
        /\ \A i \in Indices : Decrypts(i)
        /\ \A k \in Taken : Numeric(k) /\ Atoi[k] \in DOMAIN connections
        /\ \A s \in DOMAIN connections :
                \E k \in Taken : Atoi[k] = s /\ connections[s] = ValuesInt(message[k])

\* A module when its container has a name, and what the second loop adds.
NamedModule(i) ==
    [image |-> Image[i], password |-> "given", name |-> MakeContainerName(i),
     env |-> << <<"Envs", Value(i)>>, <<"MODULE_NAME", Image[i]>>,
                <<"INGRESS_HOST", MakeContainerName(i)>> >>]

Urls(i) == [n \in DOMAIN connections[i] |-> MakeContainerName(connections[i][n])]

WiredModule(i) ==
    IF i \in DOMAIN connections \ todo
    THEN [NamedModule(i) EXCEPT !.env = << <<"Envs", Value(i)>>, <<"MODULE_NAME", Image[i]>>,
             <<"INGRESS_HOST", MakeContainerName(i)>>, <<"EGRESS_URLS", Urls(i)>> >>]
    ELSE NamedModule(i)

\* Each module has what the steps up to here have given it, and the record's has
\* nothing secret.
ArraysFit ==
    /\ pc = "modules" => array = Blank
    /\ pc \in {"modules", "connections", "record", "refused", "unparsed"} => record = "none"
    /\ pc \in {"connections", "record"} => array = [man |-> [i \in Indices |-> Parsed(i)]]
    /\ pc \in {"name", "wire", "create", "panicked"} =>
        /\ record = "copy" /\ DOMAIN array = {"man", "copy"}
        /\ \A i \in Indices : array.copy[i].env = <<>> /\ array.copy[i].password = "none"
    /\ pc = "name" => array.man = [i \in Indices |-> Parsed(i)]
    /\ pc \in {"wire", "create"} => array.man = [i \in Indices |-> WiredModule(i)]

\* The connections made so far lead from a module to modules; a panic found one
\* that does not.
LoopsFit ==
    /\ pc = "connections" => todo \subseteq DOMAIN message
    /\ pc \in {"wire", "create"} =>
        /\ todo \subseteq DOMAIN connections
        /\ \A s \in DOMAIN connections \ todo : InRange(s)
    /\ pc = "create" => todo = {}
    /\ pc = "panicked" => \E s \in DOMAIN connections : ~InRange(s)
    /\ pc = "refused" => Refusable /\ ~SecretsPanic
    /\ pc = "unparsed" => SecretsPanic /\ ~SecretsRefused
    /\ pc \in {"modules", "connections", "record", "name", "wire", "create",
               "refused", "unparsed", "panicked"}

WiringInv ==
    /\ message \in Connections /\ secrets \in [Indices -> SecretKinds] /\ decryptor \in BOOLEAN
    /\ ConnectionsFit /\ ArraysFit /\ LoopsFit

------------------------------------------------------------------------------
(* The loop over a list of texts                                           *)

\* Induction up to N, for the set of numbers that have come out right.
LEMMA UpTo ==
    ASSUME NEW N \in Nat, NEW S, 0 \in S, \A n \in 1 .. N : n - 1 \in S => n \in S
    PROVE  0 .. N \subseteq S
<1> DEFINE T == {n \in 0 .. N : n \notin S}
<1> SUFFICES ASSUME T # {}  PROVE FALSE
  OBVIOUS
<1>1. T \in SUBSET Nat
  OBVIOUS
<1>2. PICK m \in T : \A n \in T : <<n, m>> \notin OpToRel(<, Nat)
  <2> HIDE DEF T
  <2> QED  BY <1>1, NatLessThanWellFounded, WFMin
<1>3. \A n \in T : ~(n < m)
  BY <1>1, <1>2 DEF OpToRel
<1>4. m \in 1 .. N
  OBVIOUS
<1>5. m - 1 \in S
  BY <1>3, <1>4
<1> QED  BY <1>4, <1>5

Loop(values, f, k) ==
    f = [n \in 0 .. k |->
            IF n = 0 THEN <<>>
            ELSE IF Atoi[values[n]] < 0 THEN f[n - 1]
            ELSE Append(f[n - 1], Atoi[values[n]])]

\* The loop can go on.
LEMMA LoopGoesOn ==
    ASSUME NEW values, NEW n \in Nat \ {0}, NEW f, Loop(values, f, n - 1)
    PROVE  \E g : Loop(values, g, n)
<1> DEFINE next == IF Atoi[values[n]] < 0 THEN f[n - 1] ELSE Append(f[n - 1], Atoi[values[n]])
           g == [m \in 0 .. n |-> IF m = n THEN next ELSE f[m]]
<1>1. \A m \in 0 .. n - 1 : g[m] = f[m] /\ m # n
  OBVIOUS
<1>2. g[n] = next
  OBVIOUS
<1>3. \A m \in 0 .. n - 1 : f[m] = IF m = 0 THEN <<>>
                                    ELSE IF Atoi[values[m]] < 0 THEN f[m - 1]
                                    ELSE Append(f[m - 1], Atoi[values[m]])
  BY DEF Loop
<1>4. \A m \in 0 .. n : g[m] = IF m = 0 THEN <<>>
                                ELSE IF Atoi[values[m]] < 0 THEN g[m - 1]
                                ELSE Append(g[m - 1], Atoi[values[m]])
  <2> SUFFICES ASSUME NEW m \in 0 .. n
               PROVE  g[m] = IF m = 0 THEN <<>>
                              ELSE IF Atoi[values[m]] < 0 THEN g[m - 1]
                              ELSE Append(g[m - 1], Atoi[values[m]])
    OBVIOUS
  <2> HIDE DEF g
  <2>1. CASE m = n
    BY <1>1, <1>2, <2>1
  <2>2. CASE m # n
    <3>1. m \in 0 .. n - 1 /\ (m # 0 => m - 1 \in 0 .. n - 1)
      BY <2>2
    <3> QED  BY <1>1, <1>3, <3>1
  <2> QED  BY <2>1, <2>2
<1>5. g = [m \in 0 .. n |-> g[m]]
  OBVIOUS
<1> HIDE DEF g
<1>6. Loop(values, g, n)
  BY <1>4, <1>5 DEF Loop
<1> QED  BY <1>6

LEMMA LoopEnds ==
    ASSUME NEW values, NEW N \in Nat
    PROVE  \E f : Loop(values, f, N)
<1> DEFINE S == {n \in 0 .. N : \E f : Loop(values, f, n)}
<1>1. 0 \in S
  <2>1. Loop(values, [n \in 0 .. 0 |-> <<>>], 0)
    BY DEF Loop
  <2> QED  BY <2>1
<1>2. \A n \in 1 .. N : n - 1 \in S => n \in S
  BY LoopGoesOn
<1> HIDE DEF S
<1>3. 0 .. N \subseteq S
  BY <1>1, <1>2, UpTo
<1> QED  BY <1>3 DEF S

LEMMA LoopIsValuesInt ==
    ASSUME NEW values, Len(values) \in Nat
    PROVE  \E f : Loop(values, f, Len(values)) /\ ValuesInt(values) = f[Len(values)]
<1> DEFINE f == CHOOSE g : Loop(values, g, Len(values))
<1>1. Loop(values, f, Len(values))
  BY LoopEnds
<1>2. ValuesInt(values) = f[Len(values)]
  BY DEF ValuesInt, Loop
<1> QED  BY <1>1, <1>2

LEMMA AppendRange ==
    ASSUME NEW s \in Seq(Nat), NEW e \in Nat
    PROVE  Append(s, e) \in Seq(Nat) /\ Range(Append(s, e)) = Range(s) \cup {e}
<1>1. Append(s, e) \in Seq(Nat) /\ Len(Append(s, e)) = Len(s) + 1
  OBVIOUS
<1>2. \A n \in 1 .. Len(s) : Append(s, e)[n] = s[n]
  OBVIOUS
<1>3. Append(s, e)[Len(s) + 1] = e
  OBVIOUS
<1>4. DOMAIN Append(s, e) = (1 .. Len(s)) \cup {Len(s) + 1} /\ DOMAIN s = 1 .. Len(s)
  BY <1>1
<1> QED  BY <1>1, <1>2, <1>3, <1>4 DEF Range

\* What comes of a list: a sequence of the numbers in it that are not negative.
LEMMA ValuesIntFits ==
    ASSUME NEW values \in Seq(Texts), \A n \in DOMAIN values : Atoi[values[n]] \in Int
    PROVE  /\ ValuesInt(values) \in Seq(Nat)
           /\ Range(ValuesInt(values)) = {Atoi[values[n]] : n \in DOMAIN values} \cap Nat
<1> DEFINE N == Len(values)
<1>0. N \in Nat /\ DOMAIN values = 1 .. N
  OBVIOUS
<1>1. PICK f : Loop(values, f, N) /\ ValuesInt(values) = f[N]
  BY <1>0, LoopIsValuesInt
<1> HIDE DEF N
<1> DEFINE S == {n \in 0 .. N : /\ f[n] \in Seq(Nat)
                                /\ Range(f[n]) = {Atoi[values[m]] : m \in 1 .. n} \cap Nat}
<1>2. 0 \in S
  <2>1. f[0] = <<>>
    BY <1>0, <1>1 DEF Loop
  <2>2. Range(<<>>) = {} /\ <<>> \in Seq(Nat)
    BY DEF Range
  <2>3. {Atoi[values[m]] : m \in 1 .. 0} = {}
    OBVIOUS
  <2>4. f[0] \in Seq(Nat) /\ Range(f[0]) = {Atoi[values[m]] : m \in 1 .. 0} \cap Nat
    BY <2>1, <2>2, <2>3
  <2>5. 0 \in 0 .. N
    BY <1>0
  <2> QED  BY <2>4, <2>5
<1>3. ASSUME NEW n \in 1 .. N, n - 1 \in S  PROVE n \in S
  <2> DEFINE e == Atoi[values[n]]
  <2>0. n \in 0 .. N /\ n # 0
    BY <1>0
  <2>1. f[n] = IF e < 0 THEN f[n - 1] ELSE Append(f[n - 1], e)
    <3>1. f = [i \in 0 .. N |->
                  IF i = 0 THEN <<>>
                  ELSE IF Atoi[values[i]] < 0 THEN f[i - 1]
                  ELSE Append(f[i - 1], Atoi[values[i]])]
      BY <1>1 DEF Loop
    <3>2. f[n] = IF n = 0 THEN <<>>
                 ELSE IF Atoi[values[n]] < 0 THEN f[n - 1]
                 ELSE Append(f[n - 1], Atoi[values[n]])
      <4> HIDE DEF e
      <4> QED  BY ONLY <2>0, <3>1
    <3> QED  BY <2>0, <3>2
  <2>2. e \in Int
    BY <1>0
  <2>3. /\ f[n - 1] \in Seq(Nat)
        /\ Range(f[n - 1]) = {Atoi[values[m]] : m \in 1 .. n - 1} \cap Nat
    BY <1>3
  <2>4. {Atoi[values[m]] : m \in 1 .. n} = {Atoi[values[m]] : m \in 1 .. n - 1} \cup {e}
    <3>1. 1 .. n = (1 .. n - 1) \cup {n}
      BY <1>0
    <3> QED  BY <3>1
  <2> HIDE DEF e
  <2>5. CASE e < 0
    <3>1. f[n] = f[n - 1] /\ e \notin Nat
      BY <2>1, <2>2, <2>5
    <3>2. {Atoi[values[m]] : m \in 1 .. n} \cap Nat
            = {Atoi[values[m]] : m \in 1 .. n - 1} \cap Nat
      BY <2>4, <3>1
    <3> QED  BY <2>0, <2>3, <3>1, <3>2
  <2>6. CASE e >= 0
    <3>1. Append(f[n - 1], e) \in Seq(Nat) /\ Range(Append(f[n - 1], e)) = Range(f[n - 1]) \cup {e}
      BY <2>2, <2>3, <2>6, AppendRange
    <3>2. f[n] = Append(f[n - 1], e) /\ e \in Nat
      BY <2>1, <2>2, <2>6
    <3>3. {Atoi[values[m]] : m \in 1 .. n} \cap Nat
            = ({Atoi[values[m]] : m \in 1 .. n - 1} \cap Nat) \cup {e}
      BY <2>4, <3>2
    <3> QED  BY <2>0, <2>3, <3>1, <3>2, <3>3
  <2> QED  BY <2>2, <2>5, <2>6
<1> HIDE DEF S
<1>4. 0 .. N \subseteq S
  BY <1>0, <1>2, <1>3, UpTo
<1>5. N \in S
  BY <1>0, <1>4
<1> QED  BY <1>0, <1>1, <1>5 DEF S

------------------------------------------------------------------------------
(* The invariant                                                           *)

\* What a list stands for that is all numbers.
LEMMA ListFits ==
    ASSUME message \in Connections, NEW k \in DOMAIN message, Numeric(k)
    PROVE  /\ Atoi[k] \in Int
           /\ ValuesInt(message[k]) \in Seq(Nat)
           /\ Range(ValuesInt(message[k])) = {Atoi[t] : t \in Range(message[k])} \cap Nat
<1>1. k \in Texts /\ message[k] \in Seq(Texts) /\ Atoi \in [Texts -> Int \cup {NotANumber}]
  BY ManifestWiringAssumption
<1>2. \A t \in Range(message[k]) \cup {k} : t \in Texts
  BY <1>1 DEF Range
<1>3. \A t \in Range(message[k]) \cup {k} : Atoi[t] \in Int
  BY <1>1, <1>2 DEF Numeric
<1>4. \A n \in DOMAIN message[k] : message[k][n] \in Range(message[k])
  BY DEF Range
<1>5. \A n \in DOMAIN message[k] : Atoi[message[k][n]] \in Int
  BY <1>3, <1>4
<1>6. {Atoi[message[k][n]] : n \in DOMAIN message[k]} = {Atoi[t] : t \in Range(message[k])}
  BY DEF Range
<1> QED  BY <1>1, <1>3, <1>5, <1>6, ValuesIntFits

LEMMA InitWiring == WiringInit => WiringInv
<1> SUFFICES ASSUME WiringInit  PROVE WiringInv
  OBVIOUS
<1>1. ConnectionsFit
  BY DEF WiringInit, Blank, ConnectionsFit
<1>2. ArraysFit
  BY DEF WiringInit, ArraysFit
<1>3. LoopsFit
  BY DEF WiringInit, LoopsFit
<1> QED  BY <1>1, <1>2, <1>3 DEF WiringInit, WiringInv

\* A step to refusal.
LEMMA RefusalKept ==
    ASSUME WiringInv, pc \in {"modules", "connections"}, pc' = "refused", Refusable, ~SecretsPanic,
           UNCHANGED <<inputs, todo, connections, array, record>>
    PROVE  WiringInv'
<1>1. ConnectionsFit'
  BY DEF WiringInv, ConnectionsFit
<1>2. ArraysFit'
  BY DEF WiringInv, ArraysFit
<1>3. LoopsFit'
  <2>1. Refusable' /\ ~SecretsPanic'
    BY DEF inputs, Refusable, SecretsRefused, SecretsPanic, Refused, Cuts, Wanted, Numeric
  <2> QED  BY <2>1 DEF LoopsFit
<1> QED  BY <1>1, <1>2, <1>3 DEF WiringInv, inputs

\* The module at which the loop stops has the first secret of either kind.
LEMMA FirstDecides ==
    ASSUME secrets \in [Indices -> SecretKinds], NEW i \in Indices, Stops(i)
    PROVE  /\ Cuts(i) => SecretsPanic /\ ~SecretsRefused
           /\ ~Cuts(i) => SecretsRefused /\ ~SecretsPanic
<1>0. Indices \subseteq Int
  BY ManifestWiringAssumption DEF Indices
<1>1. \A j \in Indices : ~Decrypts(j) <=> Cuts(j) \/ Refused(j)
  BY DEF Decrypts, Cuts, Refused, SecretKinds
<1>2. \A j \in Indices : ~(Cuts(j) /\ Refused(j))
  BY DEF Cuts, Refused
<1>3. \A j \in Indices : Cuts(j) \/ Refused(j) => i = j \/ i < j
  BY <1>0, <1>1 DEF Stops
<1>4. Cuts(i) \/ Refused(i)
  BY <1>1 DEF Stops
<1>5. CASE Cuts(i)
  BY <1>0, <1>2, <1>3, <1>5 DEF SecretsPanic, SecretsRefused
<1>6. CASE Refused(i)
  BY <1>0, <1>2, <1>3, <1>6 DEF SecretsPanic, SecretsRefused
<1> QED  BY <1>4, <1>5, <1>6

\* Once all secrets are read there is none of either kind.
LEMMA AllDecrypt ==
    ASSUME \A i \in Indices : Decrypts(i)
    PROVE  ~SecretsRefused /\ ~SecretsPanic
BY DEF Decrypts, SecretsRefused, SecretsPanic, Refused, Cuts

LEMMA SecretPanicsKept == WiringInv /\ SecretPanics => WiringInv'
<1> SUFFICES ASSUME WiringInv, SecretPanics  PROVE WiringInv'
  OBVIOUS
<1>0. /\ pc = "modules" /\ pc' = "unparsed" /\ SecretsPanic /\ ~SecretsRefused
      /\ UNCHANGED <<inputs, todo, connections, array, record>>
  BY FirstDecides DEF SecretPanics, WiringInv
<1>1. ConnectionsFit'
  BY <1>0 DEF WiringInv, ConnectionsFit
<1>2. ArraysFit'
  BY <1>0 DEF WiringInv, ArraysFit
<1>3. LoopsFit'
  <2>1. SecretsPanic' /\ ~SecretsRefused'
    BY <1>0 DEF inputs, SecretsRefused, SecretsPanic, Refused, Cuts
  <2> QED  BY <1>0, <2>1 DEF LoopsFit
<1> QED  BY <1>0, <1>1, <1>2, <1>3 DEF WiringInv, inputs

LEMMA ParseModulesKept == WiringInv /\ ParseModules => WiringInv'
<1> SUFFICES ASSUME WiringInv, ParseModules  PROVE WiringInv'
  OBVIOUS
<1> USE DEF ParseModules, inputs
<1>1. ConnectionsFit'
  <2>1. DOMAIN connections = {}
    BY DEF WiringInv, ConnectionsFit, Blank
  <2> QED  BY <2>1 DEF WiringInv, ConnectionsFit, Taken, Wanted, Decrypts
<1>2. ArraysFit'
  BY DEF WiringInv, ArraysFit, Parsed, Value
<1>3. LoopsFit'
  BY DEF LoopsFit
<1> QED  BY <1>1, <1>2, <1>3 DEF WiringInv

LEMMA ParseConnectionKept ==
    ASSUME WiringInv, NEW k, ParseConnection(k)
    PROVE  WiringInv'
<1> USE DEF ParseConnection, inputs
<1>0. /\ message \in Connections /\ k \in DOMAIN message /\ todo \subseteq DOMAIN message
      /\ UNCHANGED <<pc, message, secrets, decryptor, array, record>>
  BY DEF WiringInv, LoopsFit
<1>1. ConnectionsFit'
  <2>1. CASE message[k] = <<>>
    <3>1. Taken' = Taken
      BY <1>0, <2>1 DEF Taken, Wanted
    <3> QED  BY <1>0, <2>1, <3>1 DEF WiringInv, ConnectionsFit, Numeric, Decrypts
  <2>2. CASE message[k] # <<>>
    <3>1. /\ Numeric(k) /\ Atoi[k] \in Int /\ ValuesInt(message[k]) \in Seq(Nat)
      BY <1>0, <2>2, ListFits
    <3>2. Taken' = Taken \cup {k}
      BY <1>0, <2>2 DEF Taken, Wanted
    <3>3. /\ DOMAIN connections' = DOMAIN connections \cup {Atoi[k]}
          /\ connections'[Atoi[k]] = ValuesInt(message[k])
          /\ \A s \in DOMAIN connections : s # Atoi[k] => connections'[s] = connections[s]
      BY <2>2
    <3>4. /\ DOMAIN connections \subseteq Int
          /\ \A s \in DOMAIN connections : connections[s] \in Seq(Nat)
          /\ \A i \in Indices : Decrypts(i)
          /\ \A j \in Taken : Numeric(j) /\ Atoi[j] \in DOMAIN connections
          /\ \A s \in DOMAIN connections :
                \E j \in Taken : Atoi[j] = s /\ connections[s] = ValuesInt(message[j])
      BY DEF WiringInv, ConnectionsFit
    <3>5. \A j \in Taken' : Numeric(j)' /\ Atoi[j] \in DOMAIN connections'
      BY <1>0, <3>1, <3>2, <3>3, <3>4 DEF Numeric
    <3>6. \A s \in DOMAIN connections' :
             \E j \in Taken' : Atoi[j] = s /\ connections'[s] = ValuesInt(message'[j])
      BY <1>0, <3>2, <3>3, <3>4
    <3>7. /\ DOMAIN connections' \subseteq Int
          /\ \A s \in DOMAIN connections' : connections'[s] \in Seq(Nat)
      BY <3>1, <3>3, <3>4
    <3>8. pc' # "modules" /\ \A i \in Indices : Decrypts(i)'
      BY <1>0, <3>4 DEF Decrypts
    <3> HIDE DEF ParseConnection
    <3> QED  BY <3>5, <3>6, <3>7, <3>8 DEF ConnectionsFit
  <2> QED  BY <2>1, <2>2
<1>2. ArraysFit'
  BY <1>0 DEF WiringInv, ArraysFit, Parsed, Value
<1>3. LoopsFit'
  BY <1>0 DEF WiringInv, LoopsFit
<1> QED  BY <1>0, <1>1, <1>2, <1>3 DEF WiringInv

LEMMA ParseEndsKept == WiringInv /\ ParseEnds => WiringInv'
<1> SUFFICES ASSUME WiringInv, ParseEnds  PROVE WiringInv'
  OBVIOUS
<1> USE DEF ParseEnds, inputs
<1>1. ConnectionsFit'
  <2>1. Taken' = Taken
    BY DEF Taken, Wanted
  <2> QED  BY <2>1 DEF WiringInv, ConnectionsFit, Numeric, Decrypts
<1>2. ArraysFit'
  BY DEF WiringInv, ArraysFit, Parsed, Value
<1>3. LoopsFit'
  BY DEF LoopsFit
<1> QED  BY <1>1, <1>2, <1>3 DEF WiringInv

\* From there on the connections stay.
LEMMA ConnectionsKept ==
    ASSUME WiringInv, pc \in {"record", "name", "wire"}, pc' \in {"name", "wire", "create", "panicked"},
           UNCHANGED <<inputs, connections>>
    PROVE  ConnectionsFit'
<1>1. Taken' = Taken
  BY DEF Taken, Wanted, inputs
<1> QED  BY <1>1 DEF WiringInv, ConnectionsFit, Numeric, inputs, Decrypts

LEMMA AddKept == ASSUME Size \in Nat, WiringInv, RecordManifest PROVE WiringInv'
<1> USE DEF RecordManifest
<1>1. ConnectionsFit'
  BY ConnectionsKept
<1>2. ArraysFit'
  <2>1. array.man = [i \in Indices |-> Parsed(i)]
    BY DEF WiringInv, ArraysFit
  <2>2. \A i \in Indices : /\ ClearSecretValues(array.man)[i].env = <<>>
                           /\ ClearSecretValues(array.man)[i].password = "none"
    <3> SUFFICES ASSUME NEW i \in Indices
                 PROVE  /\ ClearSecretValues(array.man)[i].env = <<>>
                        /\ ClearSecretValues(array.man)[i].password = "none"
      OBVIOUS
    <3>1. ClearSecretValues(array.man)[i]
            = [array.man[i] EXCEPT !.env = <<>>, !.password = "none"]
      BY DEF ClearSecretValues
    <3>2. array.man[i] = Parsed(i)
      BY <2>1
    <3>3. DOMAIN Parsed(i) = {"image", "password", "name", "env"}
      BY DEF Parsed
    <3> QED  BY <3>1, <3>2, <3>3
  <2>3. [i \in Indices |-> Parsed(i)]' = [i \in Indices |-> Parsed(i)]
    BY DEF Parsed, Value, inputs
  <2> HIDE DEF RecordManifest
  <2>4. /\ array'.man = array.man /\ array'.copy = ClearSecretValues(array.man)
        /\ DOMAIN array' = {"man", "copy"} /\ record' = "copy" /\ pc' = "name"
    BY DEF RecordManifest
  <2> QED  BY <2>1, <2>2, <2>3, <2>4 DEF ArraysFit
<1>3. LoopsFit'
  BY DEF LoopsFit
<1> QED  BY <1>1, <1>2, <1>3 DEF WiringInv, inputs

\* Lines of the environment, one by one.
LEMMA AppendThird ==
    ASSUME NEW a, NEW b, NEW c
    PROVE  Append(<<a, b>>, c) = <<a, b, c>>
<1> DEFINE S == {a, b, c}
           s == <<a, b>>
           t == <<a, b, c>>
<1>1. s \in Seq(S) /\ Len(s) = 2 /\ s[1] = a /\ s[2] = b /\ c \in S
  OBVIOUS
<1>2. t \in Seq(S) /\ Len(t) = 3 /\ t[1] = a /\ t[2] = b /\ t[3] = c
  OBVIOUS
<1> HIDE DEF S, s, t
<1>3. /\ Append(s, c) \in Seq(S) /\ Len(Append(s, c)) = Len(s) + 1
      /\ \A i \in 1 .. Len(s) : Append(s, c)[i] = s[i]
      /\ Append(s, c)[Len(s) + 1] = c
  <2>1. s \in Seq(S) /\ c \in S
    BY <1>1
  <2> QED  BY ONLY <2>1, AppendProperties
<1>4. \A i \in 1 .. 3 : Append(s, c)[i] = t[i]
  BY <1>1, <1>2, <1>3
<1>5. Append(s, c) = t
  BY <1>1, <1>2, <1>3, <1>4, SeqEqual
<1> QED  BY <1>5 DEF s, t

LEMMA AppendFourth ==
    ASSUME NEW a, NEW b, NEW c, NEW d
    PROVE  Append(<<a, b, c>>, d) = <<a, b, c, d>>
<1> DEFINE S == {a, b, c, d}
           s == <<a, b, c>>
           t == <<a, b, c, d>>
<1>1. s \in Seq(S) /\ Len(s) = 3 /\ s[1] = a /\ s[2] = b /\ s[3] = c /\ d \in S
  OBVIOUS
<1>2. t \in Seq(S) /\ Len(t) = 4 /\ t[1] = a /\ t[2] = b /\ t[3] = c /\ t[4] = d
  OBVIOUS
<1> HIDE DEF S, s, t
<1>3. /\ Append(s, d) \in Seq(S) /\ Len(Append(s, d)) = Len(s) + 1
      /\ \A i \in 1 .. Len(s) : Append(s, d)[i] = s[i]
      /\ Append(s, d)[Len(s) + 1] = d
  <2>1. s \in Seq(S) /\ d \in S
    BY <1>1
  <2> QED  BY ONLY <2>1, AppendProperties
<1>4. \A i \in 1 .. 4 : Append(s, d)[i] = t[i]
  BY <1>1, <1>2, <1>3
<1>5. Append(s, d) = t
  BY <1>1, <1>2, <1>3, <1>4, SeqEqual
<1> QED  BY <1>5 DEF s, t

LEMMA NameKept == ASSUME WiringInv, NameModules PROVE WiringInv'
<1>0. pc = "name" /\ pc' = "wire" /\ todo' = DOMAIN connections
      /\ UNCHANGED <<inputs, connections, record>>
  BY DEF NameModules
<1>1. ConnectionsFit'
  BY <1>0, ConnectionsKept
<1>2. ArraysFit'
  <2>1. /\ record = "copy" /\ DOMAIN array = {"man", "copy"}
        /\ \A i \in Indices : array.copy[i].env = <<>> /\ array.copy[i].password = "none"
        /\ array.man = [i \in Indices |-> Parsed(i)]
    BY <1>0 DEF WiringInv, ArraysFit
  <2>2. /\ DOMAIN array' = {"man", "copy"} /\ array'.copy = array.copy
        /\ array'.man = [i \in Indices |->
                            With([array.man[i] EXCEPT !.name = MakeContainerName(i)],
                                 "INGRESS_HOST", MakeContainerName(i))]
    BY <2>1 DEF NameModules
  <2>3. \A i \in Indices : With([Parsed(i) EXCEPT !.name = MakeContainerName(i)],
                                "INGRESS_HOST", MakeContainerName(i)) = NamedModule(i)
    <3> SUFFICES ASSUME NEW i \in Indices
                 PROVE  With([Parsed(i) EXCEPT !.name = MakeContainerName(i)],
                             "INGRESS_HOST", MakeContainerName(i)) = NamedModule(i)
      OBVIOUS
    <3> DEFINE lines == << <<"Envs", Value(i)>>, <<"MODULE_NAME", Image[i]>> >>
               named == [Parsed(i) EXCEPT !.name = MakeContainerName(i)]
    <3>0. Parsed(i) = [image |-> Image[i], password |-> "given", name |-> Blank, env |-> lines]
      BY DEF Parsed
    <3> HIDE DEF lines
    <3>1. named = [image |-> Image[i], password |-> "given", name |-> MakeContainerName(i),
                   env |-> lines]
      BY <3>0
    <3>2. Append(named.env, <<"INGRESS_HOST", MakeContainerName(i)>>)
            = << <<"Envs", Value(i)>>, <<"MODULE_NAME", Image[i]>>,
                 <<"INGRESS_HOST", MakeContainerName(i)>> >>
      BY <3>1, AppendThird DEF lines
    <3> HIDE DEF named
    <3>3. With(named, "INGRESS_HOST", MakeContainerName(i))
            = [named EXCEPT !.env = Append(named.env, <<"INGRESS_HOST", MakeContainerName(i)>>)]
      BY DEF With
    <3>4. With(named, "INGRESS_HOST", MakeContainerName(i)) = NamedModule(i)
      BY <3>1, <3>2, <3>3 DEF NamedModule
    <3> QED  BY <3>4 DEF named
  <2>4. \A i \in Indices : WiredModule(i)' = NamedModule(i)
    BY <1>0 DEF WiredModule, NamedModule, Value, inputs
  <2>5. array'.man = [i \in Indices |-> WiredModule(i)]'
    BY <2>1, <2>2, <2>3, <2>4
  <2> QED  BY <1>0, <2>1, <2>2, <2>5 DEF ArraysFit
<1>3. LoopsFit'
  BY <1>0 DEF LoopsFit
<1> QED  BY <1>0, <1>1, <1>2, <1>3 DEF WiringInv, inputs

LEMMA WireKept ==
    ASSUME WiringInv, NEW start \in todo, Wire(start)
    PROVE  WiringInv'
<1>0. /\ pc = "wire" /\ todo \subseteq DOMAIN connections /\ InRange(start)
      /\ todo' = todo \ {start} /\ UNCHANGED <<pc, inputs, connections, record>>
  BY DEF Wire, WiringInv, LoopsFit
<1>1. ConnectionsFit'
  <2>1. Taken' = Taken
    BY <1>0 DEF Taken, Wanted, inputs
  <2> QED  BY <1>0, <2>1 DEF WiringInv, ConnectionsFit, Numeric, inputs, Decrypts
<1>2. ArraysFit'
  <2>1. /\ record = "copy" /\ DOMAIN array = {"man", "copy"}
        /\ \A i \in Indices : array.copy[i].env = <<>> /\ array.copy[i].password = "none"
        /\ array.man = [i \in Indices |-> WiredModule(i)]
    BY <1>0 DEF WiringInv, ArraysFit
  <2>2. start \in Indices /\ \A n \in DOMAIN connections[start] : connections[start][n] \in Indices
    BY <1>0 DEF InRange, Range
  <2> DEFINE urls == [n \in DOMAIN connections[start] |->
                         array.man[connections[start][n]].name]
             wired == With(array.man[start], "EGRESS_URLS", urls)
  <2>3. urls = Urls(start)
    <3>1. \A i \in Indices : array.man[i].name = MakeContainerName(i)
      BY <2>1 DEF WiredModule, NamedModule
    <3> QED  BY <2>2, <3>1 DEF Urls
  <2>4. /\ DOMAIN array' = {"man", "copy"} /\ array'.copy = array.copy
        /\ array'.man = [array.man EXCEPT ![start] = wired]
    BY <2>1 DEF Wire
  <2>5. wired = WiredModule(start)'
    <3> HIDE DEF urls
    <3>1. array.man[start] = NamedModule(start)
      BY <2>1, <2>2 DEF WiredModule
    <3>2. Append(NamedModule(start).env, <<"EGRESS_URLS", urls>>)
            = << <<"Envs", Value(start)>>, <<"MODULE_NAME", Image[start]>>,
                 <<"INGRESS_HOST", MakeContainerName(start)>>, <<"EGRESS_URLS", urls>> >>
      BY AppendFourth DEF NamedModule
    <3>3. wired = [NamedModule(start) EXCEPT !.env =
                      << <<"Envs", Value(start)>>, <<"MODULE_NAME", Image[start]>>,
                         <<"INGRESS_HOST", MakeContainerName(start)>>, <<"EGRESS_URLS", urls>> >>]
      BY <3>1, <3>2 DEF With
    <3>4. start \in (DOMAIN connections \ todo)'
      BY <1>0
    <3>5. Urls(start)' = urls
      BY <1>0, <2>3 DEF Urls
    <3>6. NamedModule(start)' = NamedModule(start) /\ Value(start)' = Value(start)
      BY <1>0 DEF NamedModule, Value, inputs
    <3> HIDE DEF wired
    <3> QED  BY <3>3, <3>4, <3>5, <3>6 DEF WiredModule
  <2>6. \A i \in Indices \ {start} : WiredModule(i)' = WiredModule(i)
    BY <1>0 DEF WiredModule, NamedModule, Value, Urls, inputs
  <2> HIDE DEF wired
  <2>7. array'.man = [i \in Indices |-> WiredModule(i)]'
    BY <2>1, <2>2, <2>4, <2>5, <2>6
  <2> QED  BY <1>0, <2>1, <2>4, <2>7 DEF ArraysFit
<1>3. LoopsFit'
  BY <1>0 DEF WiringInv, LoopsFit, InRange
<1> QED  BY <1>0, <1>1, <1>2, <1>3 DEF WiringInv, inputs

LEMMA WirePanicsKept ==
    ASSUME WiringInv, NEW start \in todo, WirePanics(start)
    PROVE  WiringInv'
<1>0. /\ pc = "wire" /\ pc' = "panicked" /\ start \in DOMAIN connections /\ ~InRange(start)
      /\ UNCHANGED <<inputs, todo, connections, array, record>>
  BY DEF WirePanics, WiringInv, LoopsFit
<1>1. ConnectionsFit'
  BY <1>0, ConnectionsKept
<1>2. ArraysFit'
  BY <1>0 DEF WiringInv, ArraysFit
<1>3. LoopsFit'
  BY <1>0 DEF LoopsFit, InRange
<1> QED  BY <1>0, <1>1, <1>2, <1>3 DEF WiringInv, inputs

LEMMA WiringEndsKept == ASSUME WiringInv, WiringEnds PROVE WiringInv'
<1>0. /\ pc = "wire" /\ pc' = "create" /\ todo = {}
      /\ UNCHANGED <<inputs, todo, connections, array, record>>
  BY DEF WiringEnds
<1>1. ConnectionsFit'
  BY <1>0, ConnectionsKept
<1>2. ArraysFit'
  <2>1. \A i \in Indices : WiredModule(i)' = WiredModule(i)
    BY <1>0 DEF WiredModule, NamedModule, Value, Urls, inputs
  <2> QED  BY <1>0, <2>1 DEF WiringInv, ArraysFit
<1>3. LoopsFit'
  BY <1>0 DEF WiringInv, LoopsFit, InRange
<1> QED  BY <1>0, <1>1, <1>2, <1>3 DEF WiringInv, inputs

LEMMA WiringStep == WiringInv /\ [WiringNext]_wiringVars => WiringInv'
<1> SUFFICES ASSUME WiringInv, [WiringNext]_wiringVars  PROVE WiringInv'
  OBVIOUS
<1>1. CASE SecretRefused
  <2>1. Refusable /\ ~SecretsPanic
    BY <1>1, FirstDecides DEF SecretRefused, Refusable, WiringInv
  <2> QED  BY <1>1, <2>1, RefusalKept DEF SecretRefused
<1>2. ASSUME NEW k, ConnectionRefused(k)  PROVE WiringInv'
  <2>1. k \in DOMAIN message
    BY <1>2 DEF ConnectionRefused, WiringInv, LoopsFit
  <2>2. Refusable /\ ~SecretsPanic
    BY <1>2, <2>1, AllDecrypt DEF ConnectionRefused, Refusable, Wanted, WiringInv, ConnectionsFit
  <2> QED  BY <1>2, <2>2, RefusalKept DEF ConnectionRefused
<1>3. CASE UNCHANGED wiringVars
  <2> USE <1>3 DEF wiringVars, inputs
  <2>1. ConnectionsFit'
    <3>1. Taken' = Taken
      BY DEF Taken, Wanted
    <3> QED  BY <3>1 DEF WiringInv, ConnectionsFit, Numeric, Decrypts
  <2>2. ArraysFit'
    <3>1. \A i \in Indices : WiredModule(i)' = WiredModule(i) /\ Parsed(i)' = Parsed(i)
      BY DEF WiredModule, NamedModule, Value, Urls, Parsed
    <3> QED  BY <3>1 DEF WiringInv, ArraysFit
  <2>3. LoopsFit'
    BY DEF WiringInv, LoopsFit, InRange, Refusable, SecretsRefused, SecretsPanic, Refused, Cuts,
           Wanted, Numeric
  <2> QED  BY <2>1, <2>2, <2>3 DEF WiringInv
<1>4. Size \in Nat
  BY ManifestWiringAssumption
<1> QED
  BY <1>1, <1>2, <1>3, <1>4, ParseModulesKept, ParseConnectionKept, ParseEndsKept, AddKept,
     NameKept, WireKept, WirePanicsKept, WiringEndsKept, SecretPanicsKept
     DEF WiringNext

LEMMA AlwaysWiring == WiringSpec => []WiringInv
BY InitWiring, WiringStep, PTL DEF WiringSpec

------------------------------------------------------------------------------
(* The environment of a container                                          *)

LEMMA NamedLines ==
    ASSUME NEW i
    PROVE  /\ DOMAIN NamedModule(i).env = 1 .. 3
           /\ Lines(NamedModule(i), "EGRESS_URLS") = {}
           /\ IsTold(NamedModule(i), "Envs", Value(i))
           /\ IsTold(NamedModule(i), "INGRESS_HOST", MakeContainerName(i))
<1> DEFINE env == NamedModule(i).env
<1>1. /\ DOMAIN env = 1 .. 3
      /\ env[1][1] = "Envs" /\ env[1][2] = Value(i) /\ env[2][1] = "MODULE_NAME"
      /\ env[3][1] = "INGRESS_HOST" /\ env[3][2] = MakeContainerName(i)
  BY DEF NamedModule
<1> HIDE DEF env
<1>2. \A v : {n \in DOMAIN env : env[n][1] = v}
               = {n \in {1, 2, 3} : env[n][1] = v}
  BY <1>1
<1>3. /\ {n \in DOMAIN env : env[n][1] = "Envs"} = {1}
      /\ {n \in DOMAIN env : env[n][1] = "INGRESS_HOST"} = {3}
      /\ {n \in DOMAIN env : env[n][1] = "EGRESS_URLS"} = {}
  BY <1>1, <1>2
<1>4. 1 \in DOMAIN env /\ 3 \in DOMAIN env
  BY <1>1
<1> QED  BY <1>1, <1>3, <1>4 DEF Lines, IsTold, env

LEMMA WiredLines ==
    ASSUME NEW i, i \in DOMAIN connections \ todo
    PROVE  /\ IsTold(WiredModule(i), "EGRESS_URLS", Urls(i))
           /\ Lines(WiredModule(i), "EGRESS_URLS") = {4} /\ WiredModule(i).env[4][2] = Urls(i)
           /\ IsTold(WiredModule(i), "Envs", Value(i))
           /\ IsTold(WiredModule(i), "INGRESS_HOST", MakeContainerName(i))
<1> DEFINE env == WiredModule(i).env
<1>1. /\ DOMAIN env = 1 .. 4
      /\ env[1][1] = "Envs" /\ env[1][2] = Value(i) /\ env[2][1] = "MODULE_NAME"
      /\ env[3][1] = "INGRESS_HOST" /\ env[3][2] = MakeContainerName(i)
      /\ env[4][1] = "EGRESS_URLS" /\ env[4][2] = Urls(i)
  BY DEF WiredModule, NamedModule
<1> HIDE DEF env
<1>2. \A v : {n \in DOMAIN env : env[n][1] = v}
               = {n \in {1, 2, 3, 4} : env[n][1] = v}
  BY <1>1
<1>3. /\ {n \in DOMAIN env : env[n][1] = "Envs"} = {1}
      /\ {n \in DOMAIN env : env[n][1] = "INGRESS_HOST"} = {3}
      /\ {n \in DOMAIN env : env[n][1] = "EGRESS_URLS"} = {4}
  BY <1>1, <1>2
<1>4. 1 \in DOMAIN env /\ 3 \in DOMAIN env /\ 4 \in DOMAIN env
  BY <1>1
<1> QED  BY <1>1, <1>3, <1>4 DEF Lines, IsTold, env

\* What the containers are created with.
LEMMA CreatedModules ==
    ASSUME WiringInv, pc = "create", NEW i \in Indices
    PROVE  Created[i] = WiredModule(i) /\ Created[i].name = MakeContainerName(i)
                                      /\ Created[i].password = "given"
BY DEF WiringInv, ArraysFit, Created, WiredModule, NamedModule

LEMMA WiringInvTypes == WiringInv => WiringTypeOK
<1> SUFFICES ASSUME WiringInv  PROVE WiringTypeOK
  OBVIOUS
<1>1. record \in DOMAIN array \cup {"none"}
  BY DEF WiringInv, ArraysFit, LoopsFit
<1> QED  BY <1>1 DEF WiringInv, ConnectionsFit, LoopsFit, WiringTypeOK

------------------------------------------------------------------------------
(* The theorems                                                            *)

\* The types of the connections, for any message (manifest.go 302-332).
THEOREM WiringTypes == WiringSpec => []WiringTypeOK
BY AlwaysWiring, WiringInvTypes, PTL

\* Whatever the order in which the two maps are visited, every container is told where
\* to send if and only if the message lists its module, and told the names of exactly
\* the listed modules, for any number of modules and any lists (manifest.go 193-226,
\* 302-332).
THEOREM ModulesAreWired == WiringSpec => []WiringIsRight
<1>1. ASSUME WiringInv, pc = "create", NEW i \in Indices, ListsFor(i) = {}
      PROVE  Lines(Created[i], "EGRESS_URLS") = {}
  <2>1. i \notin DOMAIN connections
    BY <1>1 DEF WiringInv, ConnectionsFit, Taken, Wanted, ListsFor
  <2> QED  BY <1>1, <2>1, CreatedModules, NamedLines DEF WiredModule
<1>2. ASSUME WiringInv, pc = "create", NEW i \in Indices, ListsFor(i) # {}
      PROVE  \E list \in ListsFor(i), n \in Lines(Created[i], "EGRESS_URLS") :
                /\ IsTold(Created[i], "EGRESS_URLS", Created[i].env[n][2])
                /\ DOMAIN Created[i].env[n][2] = DOMAIN ValuesInt(list)
                /\ \A m \in DOMAIN ValuesInt(list) :
                      Named(Created[i].env[n][2][m]) = {ValuesInt(list)[m]}
  <2>1. i \in DOMAIN connections /\ todo = {} /\ InRange(i)
    BY <1>2 DEF WiringInv, ConnectionsFit, LoopsFit, Taken, Wanted, ListsFor
  <2>2. PICK k \in Wanted : Atoi[k] = i /\ connections[i] = ValuesInt(message[k])
    BY <1>2, <2>1 DEF WiringInv, ConnectionsFit, Taken
  <2>3. message[k] \in ListsFor(i)
    BY <2>2 DEF Wanted, ListsFor
  <2>4. /\ IsTold(Created[i], "EGRESS_URLS", Urls(i))
        /\ Lines(Created[i], "EGRESS_URLS") = {4} /\ Created[i].env[4][2] = Urls(i)
    BY <1>2, <2>1, CreatedModules, WiredLines
  <2>5. ASSUME NEW m \in DOMAIN connections[i]
        PROVE  Named(Urls(i)[m]) = {connections[i][m]}
    <3>1. connections[i][m] \in Indices
      BY <2>1 DEF InRange, Range
    <3>2. \A j \in Indices : Created[j].name = MakeContainerName(j)
      BY <1>2, CreatedModules
    <3>3. \A j \in Indices : MakeContainerName(j) = MakeContainerName(connections[i][m])
                              => j = connections[i][m]
      BY DEF MakeContainerName
    <3> QED  BY <3>1, <3>2, <3>3 DEF Named, Urls
  <2>6. DOMAIN Urls(i) = DOMAIN connections[i]
    BY DEF Urls
  <2> QED  BY <2>2, <2>3, <2>4, <2>5, <2>6
<1>3. WiringInv => WiringIsRight
  BY <1>1, <1>2 DEF WiringIsRight
<1> QED  BY <1>3, AlwaysWiring, PTL

\* A container has the secret values of its module and its own address, and the record
\* nothing secret from the moment it is made, for any secrets (status.go 46-57,
\* manifest.go 193-199, 334-344).
THEOREM SecretsStayOut == WiringSpec => []SecretsStayApart
<1>1. ASSUME WiringInv, pc \in {"name", "wire", "create"}, NEW i \in Indices
      PROVE  /\ Created[i].password = "given"
             /\ IsTold(Created[i], "Envs", Value(i))
             /\ pc = "create" => IsTold(Created[i], "INGRESS_HOST", Created[i].name)
  <2>1. CASE pc = "name"
    <3>1. Created[i] = Parsed(i)
      BY <1>1, <2>1 DEF WiringInv, ArraysFit, Created
    <3>2. IsTold(Parsed(i), "Envs", Value(i))
      <4> DEFINE env == Parsed(i).env
      <4>1. /\ DOMAIN env = 1 .. 2 /\ env[1][1] = "Envs" /\ env[1][2] = Value(i)
            /\ env[2][1] = "MODULE_NAME"
        BY DEF Parsed
      <4> HIDE DEF env
      <4>2. {n \in DOMAIN env : env[n][1] = "Envs"} = {1} /\ 1 \in DOMAIN env
        BY <4>1
      <4> QED  BY <4>1, <4>2 DEF Lines, IsTold, env
    <3> QED  BY <2>1, <3>1, <3>2 DEF Parsed
  <2>2. CASE pc \in {"wire", "create"}
    <3>1. Created[i] = WiredModule(i)
      BY <1>1, <2>2 DEF WiringInv, ArraysFit, Created
    <3>2. Created[i].name = MakeContainerName(i) /\ Created[i].password = "given"
      BY <3>1 DEF WiredModule, NamedModule
    <3>3. /\ IsTold(Created[i], "Envs", Value(i))
          /\ IsTold(Created[i], "INGRESS_HOST", MakeContainerName(i))
      <4>1. CASE i \in DOMAIN connections \ todo
        BY <3>1, <4>1, WiredLines
      <4>2. CASE i \notin DOMAIN connections \ todo
        BY <3>1, <4>2, NamedLines DEF WiredModule
      <4> QED  BY <4>1, <4>2
    <3> QED  BY <3>2, <3>3
  <2> QED  BY <1>1, <2>1, <2>2
<1>2. ASSUME WiringInv, record # "none", NEW i \in Indices
      PROVE  array[record][i].env = <<>> /\ array[record][i].password = "none"
  BY <1>2 DEF WiringInv, ArraysFit, LoopsFit
<1>3. WiringInv => SecretsStayApart
  BY <1>1, <1>2 DEF SecretsStayApart
<1> QED  BY <1>3, AlwaysWiring, PTL

\* A manifest is refused, panics in Parse or in UpdateManifest, or gets its containers
\* as its lists and secrets ask for: what the first bad secret is decides between the
\* refusal and the panic, and the order in which the lists are visited does not count
\* (secret.go 146-161, manifest.go 110-113, 201-207, 302-332).
THEOREM EndsAsWritten == WiringSpec => []EndFitsMessage
<1>1. ASSUME WiringInv, pc = "refused"  PROVE Refusable /\ ~SecretsPanic /\ record = "none"
  BY <1>1 DEF WiringInv, LoopsFit, ArraysFit
<1>0. ASSUME WiringInv, pc = "unparsed"
      PROVE  SecretsPanic /\ ~SecretsRefused /\ record = "none"
  BY <1>0 DEF WiringInv, LoopsFit, ArraysFit
<1>2. ASSUME WiringInv, pc \in {"panicked", "create"}
      PROVE  /\ ~Refusable /\ ~SecretsPanic /\ record # "none"
             /\ Taken = Wanted /\ message \in Connections
  BY <1>2, AllDecrypt DEF WiringInv, ConnectionsFit, ArraysFit, Taken, Refusable
<1>3. ASSUME WiringInv, pc \in {"panicked", "create"}, NEW k \in Wanted
      PROVE  /\ Numeric(k) /\ Atoi[k] \in DOMAIN connections
             /\ Range(ValuesInt(message[k])) = {Atoi[t] : t \in Range(message[k])} \cap Nat
             /\ \A t \in Range(message[k]) : Atoi[t] \in Int
  <2>1. Numeric(k) /\ Atoi[k] \in DOMAIN connections
    BY <1>2, <1>3 DEF WiringInv, ConnectionsFit
  <2>2. k \in DOMAIN message
    BY DEF Wanted
  <2>3. \A t \in Range(message[k]) : Atoi[t] \in Int
    <3>1. message[k] \in Seq(Texts) /\ Atoi \in [Texts -> Int \cup {NotANumber}]
      BY <1>2, <1>3, <2>2, ManifestWiringAssumption
    <3>2. Range(message[k]) \subseteq Texts
      BY <3>1 DEF Range
    <3> QED  BY <2>1, <3>1, <3>2 DEF Numeric
  <2> QED  BY <1>2, <1>3, <2>1, <2>2, <2>3, ListFits
<1>4. ASSUME WiringInv, pc = "panicked"  PROVE \E k \in Wanted : Astray(k)
  <2>1. PICK s \in DOMAIN connections : ~InRange(s)
    BY <1>4 DEF WiringInv, LoopsFit
  <2>2. PICK k \in Wanted : Atoi[k] = s /\ connections[s] = ValuesInt(message[k])
    BY <1>2, <1>4 DEF WiringInv, ConnectionsFit
  <2>3. CASE s \notin Indices
    BY <2>2, <2>3 DEF Astray
  <2>4. CASE s \in Indices
    <3>1. PICK e \in Range(connections[s]) : e \notin Indices
      BY <2>1, <2>4 DEF InRange
    <3>2. PICK t \in Range(message[k]) : Atoi[t] = e /\ e \in Nat
      BY <1>3, <1>4, <2>2, <3>1
    <3>3. e >= Size
      BY <3>1, <3>2, ManifestWiringAssumption DEF Indices
    <3> QED  BY <3>2, <3>3 DEF Astray
  <2> QED  BY <2>3, <2>4
<1>5. ASSUME WiringInv, pc = "create", NEW k \in Wanted, Astray(k)
      PROVE  \E j \in Wanted \ {k} : Atoi[j] = Atoi[k] /\ ~Astray(j)
  <2> DEFINE s == Atoi[k]
  <2>1. s \in DOMAIN connections /\ InRange(s)
    BY <1>3, <1>5 DEF WiringInv, LoopsFit
  <2>2. PICK j \in Wanted : Atoi[j] = s /\ connections[s] = ValuesInt(message[j])
    BY <1>2, <1>5, <2>1 DEF WiringInv, ConnectionsFit
  <2>3. ASSUME NEW t \in Range(message[j]), Atoi[t] >= Size  PROVE FALSE
    <3>1. Atoi[t] \in Nat /\ Atoi[t] \notin Indices
      BY <1>3, <1>5, <2>3, ManifestWiringAssumption DEF Indices
    <3>2. Atoi[t] \in Range(connections[s])
      BY <1>3, <1>5, <2>2, <3>1
    <3> QED  BY <2>1, <3>1, <3>2 DEF InRange
  <2>4. ~Astray(j)
    BY <2>1, <2>2, <2>3 DEF Astray, InRange
  <2> QED  BY <1>5, <2>2, <2>4
<1>6. WiringInv => EndFitsMessage
  BY <1>0, <1>1, <1>2, <1>4, <1>5 DEF EndFitsMessage
<1> QED  BY <1>6, AlwaysWiring, PTL
=============================================================================
