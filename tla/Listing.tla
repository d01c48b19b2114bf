------------------------------- MODULE Listing -------------------------------
(***************************************************************************)
(* Lists made from sets, without recursion: the elements of a finite set   *)
(* in a given order, a filtered sequence, a concatenation.  An order is a   *)
(* set of pairs, and the place of an element is the number of elements      *)
(* before it.                                                              *)
(***************************************************************************)
EXTENDS Integers, Sequences, FiniteSets

(* The elements that come before x.                                        *)
Preceding(S, R, x) == {y \in S : <<y, x>> \in R}

(* The elements of S, each once, in the order R.                           *)
InOrder(S, R) ==
  [n \in 1 .. Cardinality(S) |-> CHOOSE x \in S : Cardinality(Preceding(S, R, x)) = n - 1]

(* Numbers, the smallest first.                                            *)
Ascending(S) == InOrder(S, {p \in S \X S : p[1] < p[2]})

(* What a filter keeps of s: the elements at the positions I, in order.    *)
Keep(s, I) == [n \in 1 .. Cardinality(I) |-> s[Ascending(I)[n]]]

(* The positions of the elements of a sequence of sequences, and their     *)
(* order: a sequence after the other.                                      *)
Places(parts) == UNION {{i} \X DOMAIN parts[i] : i \in DOMAIN parts}
Sooner(parts) ==
  {p \in Places(parts) \X Places(parts) :
     p[1][1] < p[2][1] \/ (p[1][1] = p[2][1] /\ p[1][2] < p[2][2])}

(* The sequences of parts, concatenated.                                   *)
Concat(parts) ==
  LET order == InOrder(Places(parts), Sooner(parts))
  IN [n \in DOMAIN order |-> parts[order[n][1]][order[n][2]]]
=============================================================================
