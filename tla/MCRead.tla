------------------------------- MODULE MCRead -------------------------------
(***************************************************************************)
(* The change feed, the query planner and the chunked snapshot, checked    *)
(* side by side: `which` picks one at the start, and only that one takes   *)
(* steps.  They do not interact here; one run explores the three state     *)
(* spaces, the feed's under its fairness.                                  *)
(***************************************************************************)
EXTENDS ChangeFeed, QueryPlan, ChunkedFold

VARIABLE which

readVars == <<which, feedVars, queryVars, chunkVars>>

(* Values of three types, the two strings in opposite UTF-8 and UTF-16     *)
(* order; clauses on one field that meet, miss or nest, a few on the       *)
(* other, and every query of at most two of them.                          *)
N(i) == <<"num", i>>
S(i) == <<"str", i>>
O(i) == <<"obj", i>>
MCDocValue == {N(i) : i \in 0 .. 3} \cup {S(1), S(2), O(1), O(2)}
MCStrRank == {1, 2}
MCUtf8Rank == [r \in MCStrRank |-> 3 - r]

Clause(op, f, v) == [op |-> op, field |-> f, value |-> v]
ClausesA ==
  {Clause("gt", "a", N(1)), Clause("gte", "a", N(1)), Clause("gte", "a", N(2)),
   Clause("lt", "a", N(2)), Clause("lte", "a", N(1)), Clause("lte", "a", N(2)),
   Clause("gte", "a", S(1)), Clause("lte", "a", S(2))}
  \cup {Clause("eq", "a", v) : v \in {N(1), N(2), S(1), O(1)}}
  \cup {Clause("in", "a", vs) : vs \in {{N(1), N(2)}, {N(1), S(1)}, {N(2), N(3), S(1)}, {N(2)}}}
ClausesB == {Clause("eq", "b", N(1)), Clause("gt", "b", N(1)), Clause("in", "b", {N(1), N(2)})}
UpToTwo(cs) == {{c, d} : c, d \in cs}

Index(on, filter) == [on |-> on, filter |-> filter]
MCWire == {{}} \cup UpToTwo(ClausesA \cup ClausesB)
MCIndexList ==
  {<<Index(<<"a">>, w)>> : w \in UpToTwo(ClausesA)}
  \cup {<<>>, <<Index(<<"a", "b">>, NoFilter)>>, <<Index(<<"b", "a">>, NoFilter)>>,
        <<Index(<<"a">>, NoFilter), Index(<<"a", "b">>, {Clause("lte", "b", N(2))})>>,
        <<Index(<<"a">>, {Clause("gte", "b", N(1))}), Index(<<"b">>, NoFilter)>>}

ReadInit ==
  /\ which \in {"feed", "query", "chunks"}
  /\ FeedInit /\ QueryInit /\ ChunkInit
  /\ which # "query" => wire = {} /\ indexes = <<>>

ReadNext ==
  /\ UNCHANGED which
  /\ \/ which = "feed"   /\ FeedNext  /\ UNCHANGED <<queryVars, chunkVars>>
     \/ which = "query"  /\ QueryNext /\ UNCHANGED <<feedVars, chunkVars>>
     \/ which = "chunks" /\ ChunkNext /\ UNCHANGED <<feedVars, queryVars>>

ReadSpec == ReadInit /\ [][ReadNext]_readVars /\ FeedFairness
=============================================================================
