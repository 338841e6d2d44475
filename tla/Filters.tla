------------------------------ MODULE Filters ------------------------------
(***************************************************************************)
(* What a filter of a query finds: in the aggregation of MongoDB that      *)
(* MongooseResourceService makes of it, and in the where clause and the    *)
(* joins of SQL that TypeOrmResourceService makes of it (src/lib/resource/ *)
(* services, with filter.util.ts and object.util.ts of src/lib/utils).     *)
(*                                                                         *)
(* A filter is an object, here the sequence of its entries: a condition on *)
(* a field, a filter on the documents of a relation, or the operators      *)
(* _and, _or and _nor over a list of filters.  A document has one field,   *)
(* and its relations are the values of the field of the related documents; *)
(* a relation is a virtual field to mongoose and one to many to TypeORM.   *)
(***************************************************************************)
EXTENDS Integers, Sequences, FiniteSets, SequencesExt

CONSTANTS
  Value, Relation, Null,
  Filter, \* the filters, with those in them
  Depth   \* how deep each is

Operator == {"_and", "_or", "_nor"}

\* The filters in an entry
Inner(entry) ==
  CASE entry.key = "field"    -> {}
    [] entry.key \in Operator -> ToSet(entry.items)
    [] OTHER                  -> {entry.filter}

FilterEntry ==
  [key : {"field"}, op : {"_eq", "_ne"}, value : Value]
  \cup [key : Operator, items : Seq(Filter) \ {<<>>}]
  \cup [key : Relation, filter : Filter]

\* The objects in a filter: itself, the items of operators and the filters of relations
Objects(filter) ==
  LET objects[f \in Filter] == {f} \cup UNION {UNION {objects[g] : g \in Inner(f[i])} : i \in DOMAIN f}
  IN objects[filter]

EntriesOf(filters) == UNION {ToSet(filter) : filter \in filters}
Keys(filters) == {entry.key : entry \in EntriesOf(filters)}

\* Filters are finite, have entries and items, and no relation below a relation.
ASSUME FiltersAssumption ==
  /\ Null \notin Value /\ Relation \cap (Operator \cup {"field", Null}) = {}
  /\ Filter \subseteq Seq(FilterEntry) \ {<<>>} /\ Depth \in [Filter -> Nat]
  /\ \A filter \in Filter : \A entry \in ToSet(filter) :
       /\ \A inner \in Inner(entry) : Depth[inner] < Depth[filter]
       /\ entry.key \in Relation => Keys(Objects(entry.filter)) \cap Relation = {}

VARIABLE search  \* a query: its filter, and whether its parameters have got the same suffix

NoSearch == [pc |-> "none", filter |-> <<>>, clash |-> FALSE]

\* A document of the queried model
Document == [field : Value, related : [Relation -> SUBSET Value]]

Holds(op, x, value) == IF op = "_eq" THEN x = value ELSE x # value

\* What a filter means, by definition, for a value of the field and the related documents
Matches(filter, field, related) ==
  LET matches[args \in Filter \X Value] ==
        \A entry \in ToSet(args[1]) :
          LET match(item) == matches[<<item, args[2]>>]
          IN CASE entry.key = "field" -> Holds(entry.op, args[2], entry.value)
               [] entry.key = "_and"  -> \A item \in ToSet(entry.items) : match(item)
               [] entry.key = "_or"   -> \E item \in ToSet(entry.items) : match(item)
               [] entry.key = "_nor"  -> ~\E item \in ToSet(entry.items) : match(item)
               [] OTHER               -> \E x \in related[entry.key] : matches[<<entry.filter, x>>]
  IN matches[<<filter, field>>]

-----------------------------------------------------------------------------
(* mongoose *)

\* transfromKeysAndValuesAsync: the entries of an object one by one, under their new keys,
\* which is _id for every virtual field.  When there is an _id already the two merge into a
\* $and, which replaces the one that may be there.
Transformed(acc, filter, i) ==
  CASE filter[i].key \notin Relation \cup {"_and"} -> [acc EXCEPT !.rest = @ \cup {i}]
    [] filter[i].key = "_and"                      -> [acc EXCEPT !.conj = @ \cup {i}]
    [] OTHER -> IF acc.id = {} THEN [acc EXCEPT !.id = {i}]
                ELSE [acc EXCEPT !.id = {}, !.conj = acc.id \cup {i}]

\* resolveFilterSubReferences: the entries that are left
Resolved(filter) ==
  LET acc[i \in 0 .. Len(filter)] ==
        IF i = 0 THEN [id |-> {}, conj |-> {}, rest |-> {}] ELSE Transformed(acc[i - 1], filter, i)
      last == acc[Len(filter)]
  IN {filter[i] : i \in last.id \cup last.conj \cup last.rest}

MongooseFinds(filter, field, related) ==
  LET found[args \in Filter \X Value] ==
        \A entry \in Resolved(args[1]) :
          LET finds(item) == found[<<item, args[2]>>]
          IN CASE entry.key = "field" -> Holds(entry.op, args[2], entry.value)
               [] entry.key = "_and"  -> \A item \in ToSet(entry.items) : finds(item)
               [] entry.key = "_or"   -> \E item \in ToSet(entry.items) : finds(item)
               [] entry.key = "_nor"  -> ~\E item \in ToSet(entry.items) : finds(item)
               [] OTHER               -> \E x \in related[entry.key] : found[<<entry.filter, x>>]
  IN found[<<filter, field>>]

-----------------------------------------------------------------------------
(* TypeORM *)

\* The places in the brackets of an object, or of some of its entries: one for each of them,
\* or for each item of an operator.  A path has a place in each of the brackets around it.
Places(filter, entries) ==
  UNION {{i} \X (1 .. IF filter[i].key \in Operator THEN Len(filter[i].items) ELSE 1) : i \in entries}
Precedes(place, other) == place[1] < other[1] \/ (place[1] = other[1] /\ place[2] < other[2])
PlacePath == Seq(Nat \X Nat)
Earlier(path, other) ==
  \E n \in DOMAIN path \cap DOMAIN other :
    Precedes(path[n], other[n]) /\ \A m \in 1 .. n - 1 : path[m] = other[m]

\* The object in a place, and its relation
ObjectAt(filter, place) ==
  LET entry == filter[place[1]] IN IF entry.key \in Operator THEN entry.items[place[2]] ELSE entry.filter
RelationAt(filter, place, relation) ==
  LET key == filter[place[1]].key IN IF key \in Relation THEN key ELSE relation

\* The statements that buildWhereQuery makes of a filter, each at its path
Statements(filter) ==
  LET made[args \in Filter \X (Relation \cup {Null}) \X PlacePath] ==
        LET object == args[1]
            relation == args[2]
            at(place) == Append(args[3], place)
        IN UNION {IF object[place[1]].key = "field"
                    THEN {[path |-> at(place), relation |-> relation,
                           op |-> object[place[1]].op, value |-> object[place[1]].value]}
                    ELSE made[<<ObjectAt(object, place), RelationAt(object, place, relation), at(place)>>] :
                    place \in Places(object, DOMAIN object)}
  IN made[<<filter, Null, <<>>>>]

\* Where the filter of a relation counts: once for every item of an operator in it
ItemPaths(filter, path) ==
  LET items == Places(filter, {i \in DOMAIN filter : filter[i].key \in Operator})
  IN {Append(path, item) : item \in IF items = {} THEN {<<1, 1>>} ELSE items}

\* nestedKeys: where it lists a relation for a filter
NestedKeys(relation, filter) ==
  LET keys[args \in Filter \X PlacePath] ==
        LET object == args[1]
            at(place) == Append(args[2], place)
        IN UNION {IF object[place[1]].key = relation THEN ItemPaths(ObjectAt(object, place), at(place))
                  ELSE IF object[place[1]].key \in Operator THEN keys[<<ObjectAt(object, place), at(place)>>]
                  ELSE {} : place \in Places(object, DOMAIN object)}
  IN keys[<<filter, <<>>>>]

\* buildJoinRelations: how many joins of its own a relation has
Joins(relation, filter) == Cardinality(NestedKeys(relation, filter))

\* replaceQueryJoinAlias: a statement takes a join of its relation that is not used yet; when
\* there is none it stays with the join that selects the relation, 0.
Join(statement, filter) ==
  LET former == {s \in Statements(filter) : s.relation = statement.relation /\ Earlier(s.path, statement.path)}
      next == Cardinality(former) + 1
  IN IF next <= Joins(statement.relation, filter) THEN next ELSE 0

\* The value of the parameter of a statement: with a clash that of the last one for the name
Parameter(statement, filter, clash) ==
  LET same == {s \in Statements(filter) : s.relation = statement.relation /\ s.op = statement.op}
  IN IF clash THEN (CHOOSE s \in same : ~\E t \in same : Earlier(s.path, t.path)).value ELSE statement.value

\* The logic of SQL: 0 is false, 1 unknown, 2 true.  AND binds closer than OR, and the
\* connector of the first term does not count.
Sql(terms, or) ==
  LET places == DOMAIN terms
      starts == {p \in places : p \in or \/ ~\E q \in places : Precedes(q, p)}
      alternative(p) == {q \in places : ~Precedes(q, p) /\ ~\E s \in starts : Precedes(p, s) /\ ~Precedes(q, s)}
  IN CASE \E p \in starts : \A q \in alternative(p) : terms[q] = 2 -> 2
       [] \A p \in starts : \E q \in alternative(p) : terms[q] = 0 -> 0
       [] OTHER -> 1

\* The truth of the brackets that are in brackets, where truth[object, negated, path] is that of
\* an object, and some of the statements hold and some are unknown
Terms(object, entries, negated, path, truth, holding, unknown) ==
  [place \in Places(object, entries) |->
     LET key == object[place[1]].key
         at == Append(path, place)
     IN IF key = "field" THEN IF at \in unknown THEN 1 ELSE IF at \in holding THEN 2 ELSE 0
        ELSE truth[<<ObjectAt(object, place), IF key \in Operator THEN key = "_nor" ELSE negated, at>>]]
Ors(object) == {place \in Places(object, DOMAIN object) : object[place[1]].key \in {"_or", "_nor"}}

\* Mutant: the entries of a filter stay in one object.
ApartNever(filter) == {DOMAIN filter}

\* transformTypeormFilter: each entry of the filter becomes an object of its own, in an _and.
Apart(filter) ==
  IF Len(filter) = 1 /\ filter[1].key \in Operator THEN {DOMAIN filter} ELSE {{i} : i \in DOMAIN filter}

\* buildWhereQuery: whether the brackets are true that it makes of a filter
WhereHolds(filter, holding, unknown) ==
  LET truth[args \in Filter \X BOOLEAN \X PlacePath] ==
        LET terms == Terms(args[1], DOMAIN args[1], args[2], args[3], truth, holding, unknown)
            result == Sql(terms, Ors(args[1]))
        IN IF args[2] THEN 2 - result ELSE result
  IN \A entries \in Apart(filter) :
       Sql(Terms(filter, entries, FALSE, <<>>, truth, holding, unknown), Ors(filter)) = 2

\* The joins of a document are left joins: every choice of related documents is a row.
TypeormFinds(filter, clash, document) ==
  LET statements == Statements(filter)
      join == [s \in statements |-> Join(s, filter)]
      value == [s \in statements |-> Parameter(s, filter, clash)]
      related(r) == IF document.related[r] = {} THEN {Null} ELSE document.related[r]
      joined == {<<s.relation, join[s]>> : s \in {t \in statements : t.relation # Null}}
      rows == {row \in [joined -> Value \cup {Null}] : \A j \in joined : row[j] \in related(j[1])}
      shown(s, row) == IF s.relation = Null THEN document.field ELSE row[<<s.relation, join[s]>>]
  IN \E row \in rows :
       WhereHolds(filter,
             {s.path : s \in {t \in statements : shown(t, row) # Null /\ Holds(t.op, shown(t, row), value[t])}},
             {s.path : s \in {t \in statements : shown(t, row) = Null}})

-----------------------------------------------------------------------------
Search(filter, clash) ==
  /\ search.pc = "none"
  /\ search' = [pc |-> "found", filter |-> filter, clash |-> clash]

Within(entry) == UNION {Objects(inner) : inner \in Inner(entry)}

\* Every second virtual field merges with the one before, and a filter loses a $and that it has
\* then, of its own or of two others.
Merges(filter, k) ==
  filter[k].key \in Relation /\ Cardinality({i \in 1 .. k : filter[i].key \in Relation}) % 2 = 0
LosesAnd(filter) ==
  \E i, k \in DOMAIN filter : i < k /\ Merges(filter, k) /\ (filter[i].key = "_and" \/ Merges(filter, i))

\* Several conditions on the same document of a relation, or operators in the items of others,
\* whose items get no joins
Multiple(entry) ==
  entry.key \in Relation /\
    \/ \E object \in Objects(entry.filter) : Len(object) > 1
    \/ \E e \in ToSet(entry.filter) : e.key = "_and" /\ Len(e.items) > 1
    \/ \E e \in ToSet(entry.filter) : \E f \in EntriesOf(Within(e)) : f.key \in Operator /\ Len(f.items) > 1

\* _nor over several filters, or over relations
Inexact(entry) == entry.key = "_nor" /\ (Len(entry.items) > 1 \/ Keys(Within(entry)) \cap Relation # {})

\* An object with _or or _nor has other keys too.
Mixed(object) == Len(object) > 1 /\ Keys({object}) \cap {"_or", "_nor"} # {}

\* Both services find what the filter means.  Except, with mongoose: an object with _and
\* before two virtual fields, or with four of those.  And with TypeORM: several conditions on
\* one related document (the joins are of the conditions, also of those that a _nor denies
\* together, and only of the first level of them), _nor of several filters (which is an OR of
\* negations) or of relations, an object within the filter with _or or _nor and other keys
\* (the brackets do not separate them), and parameters with the same suffix
\* (mongoose-resource.service.ts:863, typeorm-resource.service.ts:632, filter.util.ts:103).
FiltersKeepTheirMeaning ==
  search.pc = "found" =>
    LET filter == search.filter
        objects == Objects(filter)
        exact == /\ \A entry \in EntriesOf(objects) : ~Multiple(entry) /\ ~Inexact(entry)
                 /\ \A object \in objects \ {filter} : ~Mixed(object)
                 /\ ~search.clash
    IN \A document \in Document :
         LET means == Matches(filter, document.field, document.related)
         IN /\ (\A object \in objects : ~LosesAnd(object)) =>
                 (MongooseFinds(filter, document.field, document.related) <=> means)
            /\ exact => (TypeormFinds(filter, search.clash, document) <=> means)
=============================================================================
