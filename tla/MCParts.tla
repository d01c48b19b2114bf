------------------------------ MODULE MCParts -------------------------------
(***************************************************************************)
(* The index markers around a commit, and the client's side (subscription  *)
(* pool, read cache, HTTP client, mutation hook), checked side by side:    *)
(* `which` picks one at the start, and only that one takes steps.  They do *)
(* not interact here; one run explores the five state spaces.              *)
(***************************************************************************)
EXTENDS IndexMarkers, SubscriptionPool, ReadCache, ClientCall, UseMutation, TLC

CONSTANTS a1, a2, a3

VARIABLE which

pollVars == <<poolVars, cacheVars>>
callVars == <<clientVars, hookVars>>
partVars == <<which, ixVars, pollVars, callVars>>

MCChainTables == [q \in Sig |-> Table]
MCMaxReads == [q \in Sig |-> IF q = "q1" THEN 2 ELSE 1]

PartInit ==
  /\ which \in {"indexes", "pool", "cache", "client", "hook"}
  /\ IxInit /\ PoolInit /\ CacheInit /\ ClientInit /\ HookInit
  /\ which # "client" => ~rowLive

PartNext ==
  /\ UNCHANGED which
  /\ \/ which = "indexes" /\ IxNext     /\ UNCHANGED <<pollVars, callVars>>
     \/ which = "pool"    /\ PoolNext   /\ UNCHANGED <<ixVars, cacheVars, callVars>>
     \/ which = "cache"   /\ CacheNext  /\ UNCHANGED <<ixVars, poolVars, callVars>>
     \/ which = "client"  /\ ClientNext /\ UNCHANGED <<ixVars, pollVars, hookVars>>
     \/ which = "hook"    /\ HookNext   /\ UNCHANGED <<ixVars, pollVars, clientVars>>

PartSpec == PartInit /\ [][PartNext]_partVars

(* Two committers, hooks or callers are alike, and two of the    *)
(* three requests.                                                         *)
PairSymmetry == Permutations({a1, a2})
=============================================================================
