------------------------------- MODULE MCVerbs -------------------------------
(***************************************************************************)
(* The verbs of a collection on two documents: the requests of the run.    *)
(***************************************************************************)
EXTENDS DocVerbs, TLC

CONSTANTS c1, c2, c3, d1, d2

(* The insert of a minted id races a plain one of the same body, with a    *)
(* delete between them; an update of two documents follows two inserts;    *)
(* and a replace or an update turns the row into one that is not the body  *)
(* inserted.                                                               *)
BodyA == ("f" :> 1) @@ ("g" :> 1)
BodyB == ("f" :> 2) @@ ("g" :> 1)
MCRequest ==
  {[verb |-> "minted",  docs |-> {d1}, content |-> BodyA, by |-> {c1}],
   [verb |-> "replace", docs |-> {d1}, content |-> BodyB, by |-> {c1}],
   [verb |-> "delete",  docs |-> {d1}, content |-> <<>>, by |-> {c2}],
   [verb |-> "update",  docs |-> {d1, d2}, content |-> "f" :> 2, by |-> {c2}],
   [verb |-> "insert",  docs |-> {d1}, content |-> BodyA, by |-> {c3}],
   [verb |-> "insert",  docs |-> {d2}, content |-> BodyA, by |-> {c3}]}
=============================================================================
