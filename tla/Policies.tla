------------------------------ MODULE Policies ------------------------------
(***************************************************************************)
(* What the policy of a resource lets an operation touch: the rules that   *)
(* hold for its user become a filter and a projection of the request       *)
(* (resource-policy.interceptor.ts and resource-policy.service.ts of       *)
(* src/lib/resource/policy), with which the resource services find         *)
(* documents and pick the fields that they read or write.                  *)
(*                                                                         *)
(* A rule has conditions, a function from some attributes to values, and   *)
(* keys of fields in their order, where none stands for all.  An inverted  *)
(* rule forbids.  Only the rules for one action are there; of              *)
(* @casl/ability the module has what the interceptor calls, with matchers  *)
(* that match anything.                                                    *)
(*                                                                         *)
(* The module follows one operation of a request.  The operations of a     *)
(* GraphQL request run side by side and share the limits of the request:   *)
(* those beside this one add to them at any time, as it adds to theirs.    *)
(***************************************************************************)
EXTENDS Integers, Sequences, SequencesExt

CONSTANTS
  Attribute,  \* attributes that conditions are about
  Choice,     \* their values
  Part,       \* keys of fields that rules have
  Dotted,     \* those with a dot: a field of a related document
  Linked,     \* those of relations
  Identity,   \* the key of the id
  MaxBeside   \* bound: operations beside this one

ASSUME PoliciesAssumption ==
  /\ Dotted \subseteq Part /\ Linked \subseteq Part \ Dotted
  /\ Identity \in Part \ (Dotted \cup Linked)
  /\ MaxBeside \in Nat

VARIABLE policy  \* the operation and the limits of its request, and what it has read of them

\* A rule, without the action: a rule to manage is for every action.
Conditions == UNION {[attributes -> Choice] : attributes \in SUBSET Attribute}
Rule == [inverted : BOOLEAN, manage : BOOLEAN, conditions : Conditions, fields : Seq(Part)]

\* The limits: of the projection also the key that came first.
NoFilter == [attribute \in {} |-> 0]
NoLimits == [filter |-> NoFilter, projection |-> {}, first |-> {}]

\* The filter and the fields are what the operation has read; beside counts the others, and
\* later has the rules of those that came between the interceptor and the reading of the filter.
NoPolicy ==
  [pc |-> "none", rules |-> <<>>, limits |-> NoLimits, beside |-> 0, later |-> {},
   use |-> "none", filter |-> NoFilter, fields |-> {}]

-----------------------------------------------------------------------------
(* @casl/ability *)

\* rulesFor: no field is asked for, so that inverted rules with fields do not count.
Relevant(rules) == {i \in DOMAIN rules : ~(rules[i].inverted /\ rules[i].fields # <<>>)}

\* Of the rules that apply the one that was defined last decides.
LastPermits(rules, applying) == \E i \in applying : ~rules[i].inverted /\ \A j \in applying : j <= i

\* can, of a type and not of a document: conditions do not count, and inverted rules with
\* conditions do not forbid.
Can(rules, asked) ==
  LastPermits(rules, {i \in Relevant(rules) \cap asked : ~rules[i].inverted \/ DOMAIN rules[i].conditions = {}})

\* can of a document and a field: what the rules mean
Meets(document, conditions) == \A attribute \in DOMAIN conditions : document[attribute] = conditions[attribute]
Permits(rules, document, field) ==
  LastPermits(rules, {i \in DOMAIN rules : /\ Meets(document, rules[i].conditions)
                                           /\ rules[i].fields = <<>> \/ field \in ToSet(rules[i].fields)})

-----------------------------------------------------------------------------
First(positions) == CHOOSE i \in positions : \A j \in positions : i <= j

\* The keys that rules add to a projection, and the key that it then has first
FieldKeys(rules) == UNION {ToSet(rules[i].fields) : i \in Relevant(rules)}
FirstKey(rules, limits) ==
  LET listing == {i \in Relevant(rules) : rules[i].fields # <<>>}
  IN IF limits.projection # {} \/ listing = {} THEN limits.first ELSE {Head(rules[First(listing)].fields)}

\* Mutant: the conditions of a rule replace all that was in the filter.
AggregatedAnew(rules, limits) ==
  [filter |-> IF Relevant(rules) = {} THEN limits.filter ELSE rules[First(Relevant(rules))].conditions,
   projection |-> limits.projection \cup FieldKeys(rules),
   first |-> FirstKey(rules, limits)]

\* aggregatePolicyRules goes from the rule that was defined last to the first: each replaces
\* conditions of those before, and adds to the fields.
Aggregated(rules, limits) ==
  LET about(attribute) == {i \in Relevant(rules) : attribute \in DOMAIN rules[i].conditions}
  IN [filter |-> [attribute \in DOMAIN limits.filter \cup {a \in Attribute : about(a) # {}} |->
                    IF about(attribute) = {} THEN limits.filter[attribute]
                    ELSE rules[First(about(attribute))].conditions[attribute]],
      projection |-> limits.projection \cup FieldKeys(rules),
      first |-> FirstKey(rules, limits)]

\* checkAbility
Allowed(rules) == Can(rules, {i \in DOMAIN rules : rules[i].manage}) \/ Can(rules, DOMAIN rules)

\* The interceptor, for this operation, with these rules
Govern(rules) ==
  /\ policy.pc = "none"
  /\ policy' = IF Allowed(rules)
                 THEN [policy EXCEPT !.pc = "governed", !.rules = rules, !.limits = Aggregated(rules, policy.limits)]
                 ELSE [NoPolicy EXCEPT !.pc = "forbidden"]

\* The interceptor, for another operation of the request.  Its rules need not allow anything
\* here: with an operation that writes come its rules to read.
Beside(rules) ==
  /\ policy.pc \in {"none", "governed"} \/ (policy.pc = "filtered" /\ policy.use = "mongoose")
  /\ policy.beside < MaxBeside
  /\ policy' = [policy EXCEPT !.limits = Aggregated(rules, policy.limits),
                              !.beside = policy.beside + 1,
                              !.later = IF policy.pc = "governed" THEN policy.later \cup {rules[i] : i \in Relevant(rules)}
                                        ELSE policy.later]

\* policyFilter, where the operation writes, or reads with either library
TakeFilter(use) ==
  /\ policy.pc = "governed"
  /\ policy' = [policy EXCEPT !.pc = "filtered", !.use = use, !.filter = policy.limits.filter]

\* policyProjection without the keys that have a dot: intersectFields, and mongoose, which reads
\* the id as well
Own(projection) == projection \ Dotted
Intersected(projection) == IF Own(projection) = {} THEN Part \ Dotted ELSE Own(projection)

\* makeQueryBuilderParts: the first key replaces all columns by its own, but a relation is
\* passed over, and then they stay.  The id is always among the keys.
SelectedColumns(limits) ==
  IF limits.projection = {} \/ limits.first \cap Linked # {} THEN Part \ (Dotted \cup Linked)
  ELSE (Own(limits.projection) \ Linked) \cup {Identity}

FieldsTaken(use, limits) ==
  IF use = "typeorm" THEN SelectedColumns(limits)
  ELSE Intersected(limits.projection) \cup (IF use = "mongoose" THEN {Identity} ELSE {})

\* The projection is read, by mongoose's findResource after an await.
TakeFields ==
  /\ policy.pc = "filtered"
  /\ policy' = [policy EXCEPT !.pc = "picked",
                              !.fields = FieldsTaken(policy.use, policy.limits)]

-----------------------------------------------------------------------------
\* Rules that forbid everything or nothing, and not next to a rule to manage
PlainRules(rules) ==
  \A i \in DOMAIN rules : rules[i].inverted =>
    /\ rules[i].fields = <<>> /\ DOMAIN rules[i].conditions = {}
    /\ \A j \in DOMAIN rules : ~rules[j].manage

\* Nothing that was permitted before is forbidden.
Lasting(rules) == \A i, j \in DOMAIN rules : i < j /\ rules[j].inverted => rules[i].inverted

Differ(rule, other) ==
  \E attribute \in DOMAIN rule.conditions \cap DOMAIN other.conditions :
    rule.conditions[attribute] # other.conditions[attribute]
Agree(rules) == \A i, j \in DOMAIN rules : ~Differ(rules[i], rules[j])

\* What an operation touches its rules permit: of every document that its filter finds a
\* field, unless an operation beside it has replaced a condition meanwhile; and if no two
\* rules differ in a condition and the request has no other operation every field that it
\* picks, since the limits do not know which field comes with which condition
\* (resource-policy.interceptor.ts:74 and 100).  But rules that forbid count only where they
\* forbid everything, and not next to a rule to manage; and what was permitted before still
\* counts in the limits.  Beyond what is permitted come the id with what is read; every field
\* when all keys have a dot (resource-policy.service.ts:51); and with TypeORM every column
\* when the first key is that of a relation (typeorm-resource.service.ts:574).
PolicyIsKept ==
  LET rules == policy.rules
      limits == policy.limits
      replaced == \E i \in DOMAIN rules : \E rule \in policy.later : Differ(rules[i], rule)
      alone == Agree(rules) /\ Lasting(rules) /\ policy.beside = 0
      beyond == IF policy.use = "typeorm" THEN limits.first \cap Linked # {}
                ELSE limits.projection # {} /\ limits.projection \subseteq Dotted
      found == {document \in [Attribute -> Choice] : Meets(document, policy.filter)}
  IN policy.pc \in {"filtered", "picked"} /\ PlainRules(rules) /\ ~replaced =>
       \A document \in found :
         /\ Agree(rules) \/ Lasting(rules) => \E field \in Part : Permits(rules, document, field)
         /\ policy.pc = "picked" /\ alone /\ ~beyond =>
              \A field \in policy.fields :
                Permits(rules, document, field) \/ (field = Identity /\ policy.use # "write")
=============================================================================
