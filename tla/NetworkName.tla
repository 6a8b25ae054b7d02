----------------------------- MODULE NetworkName -----------------------------
(***************************************************************************)
(* The numbering of edge app networks (internal/docker/network.go).        *)
(*                                                                         *)
(* A network is called <name>_<count>, and the count is read back from the *)
(* last three characters of the name of EVERY docker network, the agent's  *)
(* own or not; a name that does not end in a number counts as 0.  Here a   *)
(* network name is its count: the prefix, which comes from the manifest's  *)
(* name and may be shared by two apps, separates nothing by itself.        *)
(*                                                                         *)
(* Assumed of the host: no docker network has a name of fewer than three   *)
(* characters.  getExistingNetworkCounts slices every name and panics on   *)
(* such a one, so that nothing could be deployed beside it at all.         *)
(***************************************************************************)
EXTENDS Integers, FiniteSetsExt

CONSTANT
    MaxNetworkIndex   \* maxNetworkIndex, 999 in the code

ASSUME MaxNetworkIndexAssumption == MaxNetworkIndex \in Nat \ {0}

\* The largest count in use, 0 when every count is negative or there is none.
getLastCreatedNetworkCount(counts) == Max({0} \cup counts)

\* The counts the wrap-around search looks at: 0 up to, and without, the limit.
Candidates(counts) == (0 .. MaxNetworkIndex - 1) \ counts

\* Variant: the search does not look whether a count is taken.
LowestNetworkCount(counts) == Min(0 .. MaxNetworkIndex - 1)

getLowestAvailableNetworkCount(counts) ==
    IF Candidates(counts) = {} THEN -1 ELSE Min(Candidates(counts))

\* makeNetworkName: count upwards until the limit is reached, then fill gaps;
\* a negative result stands for "number of edge apps limit is exceeded".
NewNetworkCount(counts) ==
    IF getLastCreatedNetworkCount(counts) < MaxNetworkIndex
    THEN getLastCreatedNetworkCount(counts) + 1
    ELSE getLowestAvailableNetworkCount(counts)
==============================================================================
