-------------------------------- MODULE MCData --------------------------------
(* Small instances of what happens to data: the file of the records (two apps, *)
(* one in two versions), the logs of an app (containers enough for two at once *)
(* and for a deployment after another), and a manifest of two modules, whose   *)
(* images differ in a character that container names cannot have.              *)
EXTENDS DataParts, TLC

CONSTANTS a, b, c1, c2, c3

MCApps == {a, b}
MCManifests == {[id |-> a, updatedAt |-> 1], [id |-> a, updatedAt |-> 2],
                [id |-> b, updatedAt |-> 1]}

MCContainers == {c1, c2, c3}
MCSlashless == {c3}

TwoImages == 0 :> "a:1" @@ 1 :> "a_1"
CleanNames == [name \in {"a:1", "a_1"} |-> "a_1"]
AllTexts == {"0", "00", "1", "2", "-1", "x"}
Numbers == [t \in AllTexts |->
               CASE t \in {"0", "00"} -> 0 [] t = "1" -> 1 [] t = "2" -> 2
                 [] t = "-1" -> -1 [] t = "x" -> NotANumber]

\* Lists for at most two keys.
Lists == {<<>>} \cup {<<t>> : t \in {"0", "1", "2", "-1", "x"}}
         \cup {<<"0", "1">>, <<"1", "0">>, <<"-1", "1">>}
SmallConnections ==
    UNION {[keys -> Lists] : keys \in {{j, k} : j, k \in AllTexts}} \cup {<<>>}
===============================================================================
