------------------------------ MODULE QueryPlan ------------------------------
(***************************************************************************)
(* Predicates and the query planner: validation (satisfiable.ts), matching  *)
(* (matches.ts), filter implication (query-planner-implies.ts), the choice  *)
(* of an index (query-planner.ts), what an index holds (indexes.ts) and the *)
(* walk that answers the query (query.ts).                                  *)
(*                                                                         *)
(* A behaviour is one query: Validate, Plan, then the walk or the scan,     *)
(* over a collection that holds every document of the document space.       *)
(* A value is <<type, rank>>: numbers and strings order by rank within     *)
(* their type, booleans do not order; an object of rank n carries the keys *)
(* of every smaller one, which is what open-world object equality looks    *)
(* at.  A string's rank is its place in UTF-16 order, in which JavaScript  *)
(* compares; the index compares UTF-8 bytes, an order of its own that may  *)
(* also take two strings for one (unpaired surrogates).  A wire is a set   *)
(* of clauses: no result depends on their order.                           *)
(***************************************************************************)
EXTENDS Integers, Sequences, FiniteSets, FiniteSetsExt

CONSTANTS
  QField,        \* top-level fields
  DocValue,      \* values that documents hold
  StrRank,       \* the strings, by their UTF-16 ranks
  Utf8Rank,      \* string -> its rank in UTF-8 byte order
  Missing,       \* the field is absent or null
  Wire,          \* the queries: sets of clauses, records [op, field, value]
  IndexList,     \* the declared index lists: sequences of [on, filter]
  NoFilter,      \* an index without a predicate
  InFanout       \* IN_FANOUT_THRESHOLD

VARIABLES
  wire,      \* the query's clauses
  indexes,   \* the collection's declared indexes
  plan,      \* the planner's answer
  rows       \* the documents returned

queryVars == <<wire, indexes, plan, rows>>

(* The values JSON has here, and the clauses validateWire lets through.    *)
QValue == ({"bool", "num", "obj"} \X Nat) \cup ({"str"} \X StrRank)
WellFormed(w) ==
  /\ IsFiniteSet(w)
  /\ \A c \in w : /\ c.field \in QField /\ c.op \in {"eq", "in", "gt", "gte", "lt", "lte"}
                  /\ IF c.op = "in" THEN c.value \subseteq QValue /\ IsFiniteSet(c.value)
                     ELSE c.value \in QValue

ASSUME QueryAssumption ==
  /\ InFanout \in Nat /\ StrRank \subseteq Nat /\ Utf8Rank \in [StrRank -> Nat]
  /\ DocValue \subseteq QValue /\ Missing \notin DocValue
  /\ \A w \in Wire : WellFormed(w)
  /\ \A l \in IndexList :
       /\ Len(l) \in Nat /\ DOMAIN l = 1 .. Len(l)
       /\ \A i \in DOMAIN l : /\ l[i].on \in Seq(QField) /\ l[i].on # <<>>
                              /\ l[i].filter # NoFilter => WellFormed(l[i].filter)

QDoc == [QField -> DocValue \cup {Missing}]

TypeOf(v) == v[1]
Comparable(u, v) == TypeOf(u) = TypeOf(v) /\ TypeOf(u) \in {"num", "str"}
JsLess(u, v) == Comparable(u, v) /\ u[2] < v[2]

-----------------------------------------------------------------------------
(* matchesWire.  Object equality is open-world; ranges are type-strict.    *)
matchesEq(expected, actual) ==
  actual # Missing /\ (expected = actual \/
    (TypeOf(expected) = "obj" /\ TypeOf(actual) = "obj" /\ expected[2] <= actual[2]))

matchesClause(c, actual) ==
  /\ actual # Missing
  /\ CASE c.op = "eq"  -> matchesEq(c.value, actual)
       [] c.op = "in"  -> \E m \in c.value : matchesEq(m, actual)
       [] c.op = "gt"  -> JsLess(c.value, actual)
       [] c.op = "gte" -> Comparable(c.value, actual) /\ ~JsLess(actual, c.value)
       [] c.op = "lt"  -> JsLess(actual, c.value)
       [] c.op = "lte" -> Comparable(c.value, actual) /\ ~JsLess(c.value, actual)

matchesWire(w, doc) == \A c \in w : matchesClause(c, doc[c.field])

On(w, f) == {c \in w : c.field = f}
Ops(w, f, ops) == {c \in On(w, f) : c.op \in ops}
Lower == {"gt", "gte"}
Upper == {"lt", "lte"}

-----------------------------------------------------------------------------
(* The tightest of several bounds of one side; strict wins among equals.   *)
NoBound == [value |-> <<"none", 0>>, inclusive |-> FALSE]
BoundOf(c) == [value |-> c.value, inclusive |-> c.op \in {"gte", "lte"}]

Tighter(lower, u, v) == IF lower THEN JsLess(v, u) ELSE JsLess(u, v)

Tightest(lower, cs) ==
  IF cs = {} THEN NoBound
  ELSE LET bs == {BoundOf(c) : c \in cs} IN
       CHOOSE b \in bs : \A x \in bs \ {b} :
         Tighter(lower, b.value, x.value) \/ (b.value = x.value /\ ~b.inclusive)

LowerBound(w, f) == Tightest(TRUE, Ops(w, f, Lower))
UpperBound(w, f) == Tightest(FALSE, Ops(w, f, Upper))

(* assertWireSatisfiable, field by field: bounds of one side share a type, *)
(* equalities agree, the interval is not empty, an equality is inside it   *)
(* and in every membership set, and the membership sets intersect.         *)
SameType(cs) == \A c, d \in cs : Comparable(c.value, d.value)

InsideLower(v, b) == Comparable(v, b.value) /\ (JsLess(b.value, v) \/ (v = b.value /\ b.inclusive))
InsideUpper_Strict(v, b) == Comparable(v, b.value) /\ JsLess(v, b.value)
InsideUpper(v, b) == Comparable(v, b.value) /\ (JsLess(v, b.value) \/ (v = b.value /\ b.inclusive))

FieldSatisfiable(w, f) ==
  LET eqs == {c.value : c \in Ops(w, f, {"eq"})}
      ins == {c.value : c \in Ops(w, f, {"in"})}
      lo  == LowerBound(w, f)
      hi  == UpperBound(w, f)
  IN /\ SameType(Ops(w, f, Lower)) /\ SameType(Ops(w, f, Upper))
     /\ Cardinality(eqs) <= 1
     /\ Comparable(lo.value, hi.value) => InsideLower(hi.value, lo) /\ InsideUpper(lo.value, hi)
     /\ \A v \in eqs : /\ lo # NoBound => InsideLower(v, lo)
                       /\ hi # NoBound => InsideUpper(v, hi)
                       /\ \A s \in ins : v \in s
     /\ Cardinality(ins) > 1 => \E v \in UNION ins : \A s \in ins : v \in s

Satisfiable(w) == \A f \in QField : FieldSatisfiable(w, f)

-----------------------------------------------------------------------------
(* predicateImplies.  The least and greatest member of an in-set as the    *)
(* code's reduce finds them: a member no earlier one compares with stays.  *)
Least(s) == CHOOSE v \in s : \A u \in s : ~JsLess(u, v)
Greatest(s) == CHOOSE v \in s : \A u \in s : ~JsLess(v, u)

Exactly(v) == [value |-> v, inclusive |-> TRUE]

QueryBound(lower, q, f) ==
  LET eqs == Ops(q, f, {"eq"})
      ins == Ops(q, f, {"in"})
      own == IF lower THEN LowerBound(q, f) ELSE UpperBound(q, f)
  IN IF eqs # {} THEN Exactly((CHOOSE c \in eqs : TRUE).value)
     ELSE IF ins # {}
          THEN LET set == (CHOOSE c \in ins : TRUE).value
               IN Exactly(IF lower THEN Least(set) ELSE Greatest(set))
     ELSE own

BoundImplies(lower, filter, query) ==
  /\ query # NoBound /\ TypeOf(filter.value) = TypeOf(query.value)
  /\ \/ Tighter(lower, query.value, filter.value)
     \/ query.value = filter.value /\ (filter.inclusive \/ ~query.inclusive)

FieldImplies(filter, q, f) ==
  LET feqs == Ops(filter, f, {"eq"})
      fins == Ops(filter, f, {"in"})
      qeqs == Ops(q, f, {"eq"})
      qins == Ops(q, f, {"in"})
      lo == LowerBound(filter, f)
      hi == UpperBound(filter, f)
  IN /\ On(q, f) # {}
     /\ Cardinality(fins) <= 1 /\ Cardinality(qins) <= 1
     /\ IF feqs # {} THEN \E c \in feqs, d \in qeqs : c.value = d.value
        ELSE IF fins # {}
             THEN LET set == (CHOOSE c \in fins : TRUE).value IN
                  IF qeqs # {} THEN \A d \in qeqs : d.value \in set
                  ELSE qins # {} /\ \A d \in qins : d.value \subseteq set
        ELSE /\ lo # NoBound => BoundImplies(TRUE, lo, QueryBound(TRUE, q, f))
             /\ hi # NoBound => BoundImplies(FALSE, hi, QueryBound(FALSE, q, f))

predicateImplies(filter, q) ==
  \A f \in {c.field : c \in filter} : FieldImplies(filter, q, f)

-----------------------------------------------------------------------------
(* planQuery.  A field is routable through one channel only: equalities,   *)
(* bounds, or a single in-clause.                                          *)
Channel(w, f) ==
  LET eqs == Ops(w, f, {"eq"})
      ins == Ops(w, f, {"in"})
      ranges == Ops(w, f, Lower \cup Upper)
  IN CASE eqs # {} /\ ins = {} /\ ranges = {} -> "eq"
       [] eqs = {} /\ Cardinality(ins) = 1 /\ ranges = {} -> "in"
       [] eqs = {} /\ ins = {} /\ ranges # {} -> "range"
       [] OTHER -> "none"

(* The equality prefix of an index, and the channel of the field after it. *)
EqPrefix(w, def) ==
  Max({n \in 0 .. Len(def.on) : \A i \in 1 .. n : Channel(w, def.on[i]) = "eq"})
TailChannel(w, def) ==
  LET n == EqPrefix(w, def)
      c == IF n < Len(def.on) THEN Channel(w, def.on[n + 1]) ELSE "none"
  IN IF c \in {"range", "in"} THEN c ELSE "none"
Consumed(w, def) == EqPrefix(w, def) + (IF TailChannel(w, def) = "none" THEN 0 ELSE 1)

Rank(w, def) == IF def.filter = NoFilter THEN 1
                ELSE IF predicateImplies(def.filter, w) THEN 0 ELSE 2

FullScan == [kind |-> "full-scan", def |-> 0]

Candidates(w, l) == {i \in DOMAIN l : Consumed(w, l[i]) > 0}
Preferred(w, l, i, j) ==
  \/ Rank(w, l[i]) < Rank(w, l[j])
  \/ /\ Rank(w, l[i]) = Rank(w, l[j])
     /\ \/ Consumed(w, l[i]) > Consumed(w, l[j])
        \/ Consumed(w, l[i]) = Consumed(w, l[j]) /\ i <= j

planQuery(w, l) ==
  IF w = {} \/ Candidates(w, l) = {} THEN FullScan
  ELSE LET best == CHOOSE i \in Candidates(w, l) : \A j \in Candidates(w, l) : Preferred(w, l, i, j)
           tailIns == Ops(w, l[best].on[Consumed(w, l[best])], {"in"})
       IN IF TailChannel(w, l[best]) = "in" /\ \E c \in tailIns : Cardinality(c.value) > InFanout
          THEN FullScan ELSE [kind |-> "index-walk", def |-> best]

-----------------------------------------------------------------------------
(* projectIndexValues, allIndexKeysFor: a document has an entry unless the *)
(* filter rejects it or one of the indexed fields is missing.              *)
Indexed(def, doc) ==
  /\ def.filter # NoFilter => matchesWire(def.filter, doc)
  /\ \A i \in DOMAIN def.on : doc[def.on[i]] # Missing

(* encodeIndexValue orders by type tag, then numbers by value and strings  *)
(* by their UTF-8 bytes; an object's encoding is equal only to itself.     *)
Tag == [bool |-> 1, num |-> 2, str |-> 3, obj |-> 4]
EncRank(v) == IF TypeOf(v) = "str" THEN Utf8Rank[v[2]] ELSE v[2]
EncLess(u, v) ==
  \/ Tag[TypeOf(u)] < Tag[TypeOf(v)]
  \/ TypeOf(u) = TypeOf(v) /\ EncRank(u) < EncRank(v)
EncSame(u, v) == TypeOf(u) = TypeOf(v) /\ EncRank(u) = EncRank(v)

(* The value segment against the encoded bounds: the cursor starts past an *)
(* exclusive lower bound, or entries below it are skipped; the listing     *)
(* stops at the upper one.                                                 *)
InRange_EndExclusive(v, lo, hi) ==
  /\ lo # NoBound => IF lo.inclusive THEN ~EncLess(v, lo.value) ELSE EncLess(lo.value, v)
  /\ hi # NoBound => EncLess(v, hi.value)
InRange(v, lo, hi) ==
  /\ lo # NoBound => IF lo.inclusive THEN ~EncLess(v, lo.value) ELSE EncLess(lo.value, v)
  /\ hi # NoBound => IF hi.inclusive THEN ~EncLess(hi.value, v) ELSE EncLess(v, hi.value)

(* runIndexWalkPlan: the entries under the equality prefix and the tail,   *)
(* then the full wire on every row fetched.                                *)
Walked(w, def, doc) ==
  LET n == EqPrefix(w, def) IN
  /\ Indexed(def, doc)
  /\ \A i \in 1 .. n : \A c \in Ops(w, def.on[i], {"eq"}) : EncSame(doc[def.on[i]], c.value)
  /\ TailChannel(w, def) = "range" =>
       InRange(doc[def.on[n + 1]], LowerBound(w, def.on[n + 1]), UpperBound(w, def.on[n + 1]))
  /\ TailChannel(w, def) = "in" =>
       \E c \in Ops(w, def.on[n + 1], {"in"}) :
         \E m \in c.value : EncSame(doc[def.on[n + 1]], m)

-----------------------------------------------------------------------------
(* validateIndexDefinition admits only filters that are satisfiable.       *)
Declarable == {l \in IndexList : \A i \in DOMAIN l :
                  l[i].filter # NoFilter => Satisfiable(l[i].filter)}

QueryInit ==
  /\ wire \in Wire
  /\ indexes \in Declarable
  /\ plan = [kind |-> "none", def |-> 0]
  /\ rows = {}

Validate ==
  /\ plan.kind = "none"
  /\ plan' = [kind |-> IF Satisfiable(wire) THEN "valid" ELSE "refused", def |-> 0]
  /\ UNCHANGED <<wire, indexes, rows>>

PlanRead ==
  /\ plan.kind = "valid"
  /\ plan' = planQuery(wire, indexes)
  /\ UNCHANGED <<wire, indexes, rows>>

runIndexWalkPlan ==
  /\ plan.kind = "index-walk"
  /\ plan' = [plan EXCEPT !.kind = "walked"]
  /\ rows' = {doc \in QDoc : Walked(wire, indexes[plan.def], doc) /\ matchesWire(wire, doc)}
  /\ UNCHANGED <<wire, indexes>>

ScanRows ==
  /\ plan.kind = "full-scan"
  /\ plan' = [plan EXCEPT !.kind = "scanned"]
  /\ rows' = {doc \in QDoc : matchesWire(wire, doc)}
  /\ UNCHANGED <<wire, indexes>>

QueryNext == Validate \/ PlanRead \/ runIndexWalkPlan \/ ScanRows
QuerySpec == QueryInit /\ [][QueryNext]_queryVars

-----------------------------------------------------------------------------
MixedIn == \E c \in wire : c.op = "in" /\ \E u, v \in c.value : ~Comparable(u, v)
ObjectOperand(c) == IF c.op = "in" THEN \E v \in c.value : TypeOf(v) = "obj"
                    ELSE TypeOf(c.value) = "obj"

(* A filter that narrows an in-set by a range on the same field.           *)
InAndRange(filter) == \E c, d \in filter : /\ c.field = d.field /\ c.op = "in"
                                           /\ d.op \in Lower \cup Upper

(* Two strings that the index and JavaScript order differently.            *)
OrdersDiffer(u, v) ==
  /\ TypeOf(u) = "str" /\ TypeOf(v) = "str"
  /\ ~(EncLess(u, v) <=> JsLess(u, v)) \/ ~(EncLess(v, u) <=> JsLess(v, u))

(* A walk over an index returns what a scan would, unless: the index's     *)
(* filter is not implied (the documented last resort) or is implied only   *)
(* by a mixed-type in-set or over a filter that combines in and a range;   *)
(* the missing document lacks an indexed field the query does not mention; *)
(* the query compares with an object, whose equality is open-world but     *)
(* whose index encoding is exact; or the missing document holds a string   *)
(* that UTF-8 and UTF-16 put on different sides of one of the query's      *)
(* bounds (planQuery, predicateImplies, projectIndexValues, encodeBytes,   *)
(* runIndexWalkPlan).                                                      *)
IndexRouteIsComplete ==
  plan.kind = "walked" =>
    LET def == indexes[plan.def] IN
    \A doc \in QDoc : matchesWire(wire, doc) =>
      \/ doc \in rows
      \/ def.filter # NoFilter /\ (~predicateImplies(def.filter, wire) \/ MixedIn
                                   \/ InAndRange(def.filter))
      \/ \E i \in DOMAIN def.on : doc[def.on[i]] = Missing /\ On(wire, def.on[i]) = {}
      \/ \E c \in wire : ObjectOperand(c)
      \/ \E c \in wire : c.op \in Lower \cup Upper /\ OrdersDiffer(doc[c.field], c.value)

(* A predicate that validation refuses is one no document can match, so    *)
(* refusing it never hides a row; conflicting equalities on objects are    *)
(* the exception (assertWireSatisfiable against matchesWire).              *)
RefusedMatchesNothing ==
  plan.kind = "refused" =>
    \/ \A doc \in QDoc : ~matchesWire(wire, doc)
    \/ \E c \in wire : ObjectOperand(c)

(* The soundness contract of predicateImplies: a document the query        *)
(* accepts is accepted by the filter.  The code does not give this.        *)
ImplicationIsSound ==
  plan.kind = "valid" =>
    \A i \in DOMAIN indexes :
      indexes[i].filter # NoFilter /\ predicateImplies(indexes[i].filter, wire) =>
        \A doc \in QDoc : matchesWire(wire, doc) => matchesWire(indexes[i].filter, doc)
=============================================================================
