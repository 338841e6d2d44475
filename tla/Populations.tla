---------------------------- MODULE Populations ----------------------------
(***************************************************************************)
(* Which relations a resource service shows with a document: those that    *)
(* PopulateRelation and VirtualProp declare (src/lib/resource/decorators), *)
(* followed to their depths.  TypeOrmResourceService (relationsToPopulate) *)
(* joins and selects them, MongooseResourceService (makePopulationArray)   *)
(* has them populated.  A projection of the policy leaves only those that  *)
(* it names.                                                               *)
(*                                                                         *)
(* A path is the sequence of the names of the relations that it follows.   *)
(* A key of a projection is one too, or goes on to a column.  No two have  *)
(* the same alias.                                                         *)
(***************************************************************************)
EXTENDS Naturals, Sequences, SequencesExt

CONSTANTS
  Table,      \* models
  Root,       \* the model of the document
  FieldName,  \* names of relations and columns, and what a string says of a name that is undefined
  Underscored \* names of relations that have an underscore

ASSUME PopulationsAssumption == Root \in Table /\ Underscored \subseteq FieldName /\ "undefined" \in FieldName

VARIABLE population

NoPopulation == [pc |-> "none"]

\* The relations of a table: declared[table][name], with the table it leads to.
Names(declared, table) == {<<name>> : name \in DOMAIN declared[table]}

\* The relations on a path lead from the root from one table to the next.
Leads(declared, path) ==
  \E table \in [0 .. Len(path) -> Table] :
    /\ table[0] = Root
    /\ \A i \in DOMAIN path : /\ path[i] \in DOMAIN declared[table[i - 1]]
                              /\ table[i] = declared[table[i - 1]][path[i]].to

\* What a list of the configuration says: it may be missing, and it may be empty.
NoList == [given |-> FALSE, names |-> {}]
ListOf(names) == [given |-> TRUE, names |-> names]

-----------------------------------------------------------------------------
(* TypeOrmResourceService *)

\* Mutant: the exclusions are compared with the names in the table below.
OnPathShort(name, below, excluded) == {<<name>> \o path : path \in below \ excluded}

\* The names below a relation get its name, and go if they are excluded then.
OnPath(name, below, excluded) == {<<name>> \o path : path \in below} \ excluded

Populated(relation, single) ==
  relation.populate /\ relation.type \in {"all", IF single THEN "single" ELSE "multi"}

\* relationsToPopulate; relationFields returns strings, and a string has no name.
RelationsToPopulate(declared, single) ==
  LET populate[call \in Table \X Nat \X SUBSET Seq(FieldName)] ==
        LET table == call[1]
            level == call[2]
            excluded == call[3]
            sub(relation, without) == populate[<<relation.to, level + 1, without>>]
            below(relation) ==
              IF ~relation.children \/ relation.maxDepth = 0 \/ level >= relation.maxDepth THEN {}
              ELSE IF ~relation.include.given /\ relation.exclude # ListOf({}) THEN sub(relation, relation.exclude.names)
              ELSE IF relation.include.names # {} THEN sub(relation, Names(declared, relation.to) \ relation.include.names)
              ELSE {<<"undefined">> : name \in Names(declared, relation.to)}
        IN UNION {{<<name>>} \cup OnPath(name, below(declared[table][name]), excluded) :
                    name \in {n \in DOMAIN declared[table] :
                                <<n>> \notin excluded /\ Populated(declared[table][n], single)}}
  IN populate[<<Root, 0, {}>>]

\* eagerRelationsList
EagerRelations(declared) ==
  LET eager[table \in Table] ==
        UNION {{<<name>>} \cup {<<name>> \o path : path \in eager[declared[table][name].to]} :
                 name \in {n \in DOMAIN declared[table] : declared[table][n].eager}}
  IN eager[Root]

\* buildJoinRelations, for a filter without relations
JoinRelations(declared, single, protected) ==
  IF protected THEN RelationsToPopulate(declared, single) ELSE EagerRelations(declared)

\* The alias of a join has an underscore for each dot, and is turned back into a name.
NameFound(path) == \A i \in DOMAIN path : path[i] \notin Underscored

\* A key that leads to no relation is that of a column.
OfColumn(declared, key) == ~Leads(declared, key)

\* makeQueryBuilderParts: what is joined is selected if it is found again, and the projection has it;
\* and TypeORM counts as selected a join of which the projection selects a column.
Selected(declared, joins, projection) ==
  {path \in joins : \/ NameFound(path) /\ (projection # {} => path \in projection)
                    \/ \E key \in projection : Len(key) > 1 /\ Front(key) = path /\ OfColumn(declared, key)}

\* TypeORM makes no entity of what is not selected, and has nothing to hang the rest on.
Hydrated(selected) == {path \in selected : \A i \in DOMAIN path : SubSeq(path, 1, i) \in selected}

-----------------------------------------------------------------------------
(* MongooseResourceService *)

\* Mutant: the first field of a key counts at every level.
FieldAllowedFirst(field, level, projection) == projection = {} \/ \E key \in projection : field = Head(key)

\* A field is compared with what a key of the projection has at its level.
FieldAllowed(field, level, projection) ==
  projection = {} \/ \E key \in projection : Len(key) > level /\ field = key[level + 1]

DefaultDepth == 5

\* makePopulationArray
PopulationArray(declared, projection) ==
  LET array[call \in Table \X Nat \X Nat \X SUBSET Seq(FieldName)] ==
        LET table == call[1]
            depth == call[2]
            level == call[3]
            excluded == call[4]
            below(relation) ==
              array[<<relation.to, relation.maxDepth, level + 1,
                      excluded \cup relation.exclude.names \cup relation.foreign>>]
        IN IF level >= depth THEN {}
           ELSE UNION {{<<name>>} \cup {<<name>> \o path : path \in below(declared[table][name])} :
                         name \in {n \in DOMAIN declared[table] :
                                     /\ <<n>> \notin excluded
                                     /\ declared[table][n].populate
                                     /\ FieldAllowed(n, level, projection)}}
  IN array[<<Root, DefaultDepth, 0, {}>>]

-----------------------------------------------------------------------------
Show(orm, declared, single, protected, projection) ==
  /\ population = NoPopulation
  /\ population' =
       IF orm = "typeorm"
         THEN LET joins == JoinRelations(declared, single, protected)
              IN [pc |-> orm, declared |-> declared, projection |-> projection, protected |-> protected,
                  all |-> joins, shown |-> Hydrated(Selected(declared, joins, projection))]
         ELSE [pc |-> orm, declared |-> declared, projection |-> projection, protected |-> protected,
               all |-> PopulationArray(declared, {}),
               shown |-> PopulationArray(declared, projection)]

-----------------------------------------------------------------------------
\* The database accepts a query that joins relations that exist, each to one that it joins as well.
Stand(declared, joins) ==
  \A path \in joins : Leads(declared, path) /\ (Len(path) > 1 => Front(path) \in joins)

Configurations(declared) == UNION {{declared[t][n] : n \in DOMAIN declared[t]} : t \in Table}

(* The database accepts the joins of every request to a resource, unless a list of the configuration *)
(* is empty (its names are strings, typeorm-resource.service.ts:919), or an exclusion with a dot       *)
(* leaves what is below the relation that it excludes (line 929).                                     *)
JoinsStand ==
  population.pc = "typeorm" =>
    \/ Stand(population.declared, population.all)
    \/ \E relation \in Configurations(population.declared) :
         \/ relation.include = ListOf({})
         \/ relation.exclude = ListOf({}) /\ ~relation.include.given
         \/ \E name \in relation.exclude.names : Len(name) > 1

(* With a projection of the policy the response shows of the relations those that the projection     *)
(* leads to.  With TypeORM it has to name every relation on the way, or a column of it               *)
(* (typeorm-resource.service.ts:575), and a name with an underscore is found again only by a column  *)
(* below it; with mongoose it is enough to end further down, and a path may as well cross from one   *)
(* key of the projection to another (mongoose-resource.service.ts:541).  All this if the database    *)
(* accepts what TypeORM selects for a key.                                                           *)
PolicyDecidesPopulation ==
  LET keys == population.projection
      leads(path) == \E key \in keys : IsPrefix(path, key)
      crosses(path) == \A i \in DOMAIN path : \E key \in keys : i \in DOMAIN key /\ key[i] = path[i]
      named(way) == (keys = {} \/ way \in keys) /\ \A i \in DOMAIN way : way[i] \notin Underscored
      columned(way) == \E key \in keys : Len(key) > 1 /\ Front(key) = way /\ ~Leads(population.declared, key)
      open(way) == named(way) \/ columned(way)
  IN /\ population.pc = "typeorm" /\ Stand(population.declared, population.all) =>
          \A path \in population.all :
            path \in population.shown <=> \A i \in DOMAIN path : open(SubSeq(path, 1, i))
     /\ population.pc = "mongoose" =>
          /\ population.shown \subseteq population.all
          /\ \A path \in population.all :
               /\ keys = {} \/ leads(path) => path \in population.shown
               /\ path \in population.shown => keys = {} \/ leads(path) \/ crosses(path)
=============================================================================
