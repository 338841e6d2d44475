----------------------------- MODULE MCRequests -----------------------------
(* What comes to the parts of Requests, for TLC. *)
EXTENDS Requests, TLC

CONSTANTS
  FirstModel,  \* the only model that may refer to itself
  LastModel    \* an other model

(* Routes: configs with an entry for some of the operation, its base and All *)
Entries(key, confs) == {NoConfig} \cup {key :> conf : conf \in confs}
MCConfs == {conf \in Conf : conf.auth # "true"}
MCFewConfs == {conf \in MCConfs : conf.auth # "false" /\ "undefined" \in {conf.enabled, conf.public}}
MCConfigs ==
  [operation : {"find"}, files : {FALSE},
   config : {all @@ own : all \in Entries("All", MCConfs), own \in Entries("find", MCConfs)}]
  \cup
  [operation : {"upload"}, files : BOOLEAN,
   config : {all @@ own : all \in Entries("All", MCFewConfs), own \in Entries("upload", MCFewConfs)}]
  \cup
  UNION {[operation : {operation}, files : {FALSE},
          config : {all @@ own @@ base : all \in Entries("All", MCFewConfs), own \in Entries(operation, MCFewConfs),
                                         base \in Entries(Base(operation), MCFewConfs)}] :
           operation \in {"queryGet", "aggregateGet", "deleteBulk"}}
MCDefaults ==
  [rest |-> TRUE, queryMethod |-> "any", aggregateMethod |-> "any", bulkEnabled |-> TRUE, bulk |-> BulkOperation]
MCSettings(operation) ==
  {MCDefaults, [MCDefaults EXCEPT !.rest = FALSE]}
  \cup (IF operation \in BulkOperation
          THEN {[MCDefaults EXCEPT !.bulkEnabled = b, !.bulk = some] : b \in BOOLEAN, some \in SUBSET BulkOperation}
          ELSE {[MCDefaults EXCEPT !.queryMethod = q, !.aggregateMethod = a] : q \in Method, a \in Method})
MCAllConfigs == {NoConfig, "All" :> [NoConf EXCEPT !.enabled = "false"], "All" :> [NoConf EXCEPT !.auth = "list"]}
MCAsked(api, operation, dotted, config, hasFiles, settings, enabled, credentials) ==
  [api |-> api, operation |-> operation, dotted |-> dotted, credentials |-> credentials,
   config |-> config, files |-> hasFiles, settings |-> settings, enabled |-> enabled]
MCSettled ==
  UNION {{MCAsked(api, operation, FALSE, config, TRUE, settings, AuthType, {"jwt"}) :
            api \in {"rest", "graphql"}, config \in MCAllConfigs, settings \in MCSettings(operation)} :
           operation \in Operation}
  \cup
  {MCAsked("rest", operation, TRUE, NoConfig, hasFiles, [MCDefaults EXCEPT !.rest = rest], AuthType, {"jwt"}) :
     operation \in {"find", "update", "delete", "upload", "unlink"}, hasFiles \in BOOLEAN, rest \in BOOLEAN}
MCCalls ==
  {MCAsked("rest", c.operation, FALSE, c.config, c.files, MCDefaults, enabled, credentials) :
     c \in MCConfigs, enabled \in {{}, {"key"}, AuthType}, credentials \in {{}, {"key"}, {"jwt"}}}
  \cup MCSettled

(* Policies: one or two rules, or one that forbids everything between two; few for most handlers *)
MCGiven(conditions, fields) == [inverted |-> FALSE, manage |-> FALSE, conditions |-> conditions, fields |-> fields]
MCPermits(conditions, lists) == {MCGiven(c, l) : c \in conditions, l \in lists}
MCForbids == [MCGiven(NoFilter, <<>>) EXCEPT !.inverted = TRUE]
MCFewConditions == {NoFilter, "a" :> 1, "a" :> 2, "a" :> 1 @@ "b" :> 1}
MCLists == {<<>>, <<"x">>, <<"r.x">>, <<"r">>, <<"r", "x">>, <<"r.x", "file">>, <<"r.x", "r">>, <<"id", "x">>}
MCSingle ==
  {rule \in [inverted : BOOLEAN, manage : BOOLEAN, conditions : Conditions, fields : MCLists] :
     rule.manage => rule.fields = <<>> /\ DOMAIN rule.conditions = {}}
MCRule ==
  MCPermits(MCFewConditions, {<<>>, <<"x">>, <<"r.x">>})
  \cup {MCForbids, [MCForbids EXCEPT !.conditions = "a" :> 1], [MCForbids EXCEPT !.manage = TRUE],
        [MCGiven(NoFilter, <<>>) EXCEPT !.manage = TRUE]}
MCFewRules == {<<>>, <<MCForbids>>} \cup {<<rule>> : rule \in MCPermits({NoFilter, "a" :> 1}, {<<>>, <<"x">>, <<"r", "x">>})}
MCRules ==
  MCFewRules \cup {<<rule>> : rule \in MCSingle} \cup (MCRule \X MCRule)
  \cup {<<first, MCForbids, last>> : first \in MCRule, last \in MCRule}
MCPolicing ==
  [handler \in Reads \cup {"create", "delete", "upload", "unlink"} \cup BulkOperation |->
     IF handler \in {"find", "create"} THEN MCRules ELSE MCFewRules]
MCBesides ==
  {<<rule>> : rule \in MCPermits({"a" :> 1, "a" :> 2}, {<<>>, <<"r", "file">>}) \cup {MCForbids}}

(* Populations: t1 has the relations a and b_c to t2, and t2 has a back to t1 and b to itself *)
MCLink(to) ==
  [to |-> to, populate |-> TRUE, children |-> TRUE, exclude |-> NoList, include |-> NoList,
   maxDepth |-> 2, type |-> "all", eager |-> FALSE, foreign |-> {}]
MCTables(a, bc, back, b) == ("t1" :> ("a" :> a @@ "b_c" :> bc)) @@ ("t2" :> ("a" :> back @@ "b" :> b))
MCExclusions == {{}, {<<"a">>}, {<<"b">>}, {<<"b", "a">>}, {<<"a", "a">>}}
MCLimited ==
  {link \in {[MCLink("t2") EXCEPT !.children = c, !.exclude = e, !.include = i, !.maxDepth = d] :
              c \in BOOLEAN, d \in 0 .. 2, e \in {NoList} \cup {ListOf(paths) : paths \in MCExclusions},
              i \in {NoList, ListOf({}), ListOf({<<"a">>})}} :
     link.include.names = {} \/ link.exclude.names = {}}
MCBack ==
  {[MCLink("t1") EXCEPT !.populate = FALSE], [MCLink("t1") EXCEPT !.type = "multi"]}
  \cup {[MCLink("t1") EXCEPT !.maxDepth = d] : d \in {0, 3}}
MCBelow == {MCLink("t2")} \cup {[MCLink("t2") EXCEPT !.exclude = ListOf({path})] : path \in {<<"a">>, <<"a", "b_c">>}}
MCVirtual ==
  {[MCLink("t2") EXCEPT !.exclude = e, !.maxDepth = d, !.foreign = f] :
     e \in {NoList, ListOf({<<"a">>})}, d \in {1, 2, 3, 5}, f \in {{}, {<<"a">>}, {<<"b">>}}}
MCProjections ==
  {{}, {<<"a">>, <<"a", "b">>}, {<<"a", "b">>, <<"name">>}, {<<"a", "a">>, <<"b_c">>, <<"b_c", "b">>},
   {<<"a", "name">>, <<"a", "b">>}, {<<"b_c", "name">>, <<"a", "a", "name">>}}
MCShape(orm, declared, single, protected) ==
  [orm : {orm}, declared : declared, single : single, protected : {protected},
   projection : IF protected THEN MCProjections ELSE {{}}]
MCShapes ==
  MCShape("typeorm", {MCTables(a, MCLink("t2"), back, b) : a \in MCLimited, back \in MCBack, b \in MCBelow}, BOOLEAN, TRUE)
  \cup MCShape("typeorm", {("t1" :> ("a" :> [MCLink("t2") EXCEPT !.eager = one] @@ "b_c" :> [MCLink("t2") EXCEPT !.eager = two]))
                             @@ ("t2" :> <<>>) : one \in BOOLEAN, two \in BOOLEAN}, BOOLEAN, FALSE)
  \cup MCShape("mongoose", {("t1" :> ("a" :> a @@ "b" :> MCLink("t2"))) @@ ("t2" :> ("a" :> back @@ "b" :> b)) :
                              a \in MCVirtual, back \in MCBack, b \in MCVirtual}, {FALSE}, TRUE)

(* Filters: conditions, and operators and relations over them *)
Condition(op, value) == [key |-> "field", op |-> op, value |-> value]
Over(op, items) == [key |-> op, items |-> items]
Related(relation, filter) == [key |-> relation, filter |-> filter]
MCConditions == {Condition("_eq", 1), Condition("_eq", 2), Condition("_ne", 1)}
MCPair == <<<<Condition("_eq", 1)>>, <<Condition("_eq", 2)>>>>
MCRelated ==
  {Related(relation, <<entry>>) :
     relation \in Relation,
     entry \in MCConditions \cup {Over("_or", MCPair), Over("_and", MCPair), Over("_nor", <<MCPair[1]>>),
                              Over("_nor", <<<<Over("_or", MCPair)>>>>)}}
MCLeaves == {<<entry>> : entry \in MCConditions \cup MCRelated}
MCOver(leaves) == {Over(op, items) : op \in Operator, items \in {<<a>> : a \in leaves} \cup (leaves \X leaves)}
MCMixed == {<<a, b>> : a \in MCConditions, b \in MCOver({<<c>> : c \in MCConditions})}
MCNested == {<<a, b>> : a \in MCMixed \cup {<<f[2], f[1]>> : f \in MCMixed}, b \in {MCPair[1]}}
MCVirtuals ==
  {<<a, b, c>> : a \in {Over("_and", <<<<d>>>>) : d \in MCConditions},
                 b \in {Related("tags", <<d>>) : d \in MCConditions},
                 c \in {Related("items", <<d>>) : d \in MCConditions}}
MCSearches ==
  MCLeaves \cup {<<entry>> : entry \in MCOver(MCLeaves)}
  \cup MCMixed \cup {<<Over(op, f)>> : op \in Operator, f \in MCNested}
  \cup MCVirtuals \cup {<<f[2], f[1], f[3]>> : f \in MCVirtuals} \cup {<<f[3], f[2], f[1]>> : f \in MCVirtuals}
\* All filters, with those in them, and how deep each is
MCInner(filters) == filters \cup UNION {Inner(entry) : entry \in EntriesOf(filters)}
MCFilters == {f : f \in MCInner(MCInner(MCInner(MCInner(MCSearches))))}
MCFilter == MCFilters
MCDepths ==
  LET depth[f \in MCFilters] == Max({0} \cup {1 + depth[g] : g \in UNION {Inner(entry) : entry \in ToSet(f)}})
  IN [f \in MCFilters |-> depth[f]]
MCDepth == MCDepths

(* Pages: without replication, in a snapshot, and with TypeORM *)
MCWalk(orm, replicated, joined) ==
  [orm : {orm}, replicated : {replicated}, joined : joined, sort : Sort, size : {Absent, "0", "larger"}]
MCWalks == MCWalk("mongoose", FALSE, {FALSE}) \cup MCWalk("mongoose", TRUE, {FALSE}) \cup MCWalk("typeorm", FALSE, BOOLEAN)

(* Aggregates: up to two documents, in the order of their dates *)
MCDated == [date : 0 .. 6, flag : BOOLEAN]
MCSummaries ==
  [documents : {<<>>} \cup {<<d>> : d \in MCDated} \cup {p \in MCDated \X MCDated : p[1].date <= p[2].date},
   filter : SUBSET {"flag", "since"},
   range : {NoRange} \cup [start : {0, 2}, end : {5, 6}, step : {1, 2}]]

(* Relations: all graphs with at most one model that refers to itself.  Models that do not are
   alike but for their names, so the one with the fewest relations may be the last, and if
   none does the one with the most may be the first. *)
MCLoops(graph) == {model \in Model : model \in graph[model]}
MCGraphs ==
  {graph \in [Model -> SUBSET Model] :
     /\ MCLoops(graph) \subseteq {FirstModel}
     /\ \A model \in Model \ MCLoops(graph) :
          /\ Cardinality(graph[LastModel]) <= Cardinality(graph[model])
          /\ MCLoops(graph) = {} => Cardinality(graph[model]) <= Cardinality(graph[FirstModel])}

(* Cascades: a parent and a child that are deleted, the child with an other parent *)
None == [d \in Doc |-> {}]
MCDeletions ==
  UNION {
    [documents : {documents}, root : {"p1", "c1"}, declared : Setup,
     owners : {("c1" :> first @@ "c2" :> second @@ "g1" :> third) @@ None :
                 first \in {{"p1"}, {"p1", "p2"}},
                 second \in IF "c2" \in documents THEN {{}, {"p1"}} ELSE {{}},
                 third \in IF "g1" \in documents THEN {{c} : c \in documents \cap Child} ELSE {{}}},
     others : {None, ("c1" :> {"p2"}) @@ None}] :
    documents \in {{"p1", "p2", "c1"}, {"p1", "p2", "c1", "g1"}, {"p1", "p2", "c1", "c2", "g1"}}}

(* Bulk: up to two items, or one that is too many, about two documents *)
MCItem(action) == [key : Id, content : IF action = "delete" THEN {1} ELSE Content]
MCFirst(action) == CHOOSE item \in MCItem(action) : TRUE
MCItems(action) ==
  {<<>>, <<MCFirst(action), MCFirst(action), MCFirst(action)>>}
  \cup {<<item>> : item \in MCItem(action)} \cup (MCItem(action) \X MCItem(action))
MCBulks ==
  UNION {[orm : {"mongoose", "typeorm"}, action : {action}, array : {TRUE}, valid : {TRUE}, items : MCItems(action),
          writable : {limits[1]}, readable : {limits[2]}, initial : {[k \in Id |-> Gone], [k \in Id |-> {k}]}] :
           action \in {"create", "update", "delete"}, limits \in {<<{1}, Content>>, <<Content, {1}>>}}
  \cup [orm : {"mongoose"}, action : {"create", "update", "delete"}, array : BOOLEAN, valid : {FALSE}, items : {<<>>},
        writable : {Content}, readable : {Content}, initial : {[k \in Id |-> Gone]}]

(* Uploads: no files, one in two fields, and files in all kinds of fields *)
MCFields == <<"photos", "papers", "cover">>
MCFiles(photos, papers, cover) ==
  LET value == "photos" :> photos @@ "papers" :> papers @@ "cover" :> cover
  IN [value |-> value, created |-> SetToSortSeq(Named(value), <)]
MCDocuments == {MCFiles(<<>>, <<>>, <<>>), MCFiles(<<1>>, <<2>>, <<>>), MCFiles(<<1, 2>>, <<>>, <<3>>)}
MCSendings == {<<"photos">>, <<"photos", "papers">>, <<"photos", "photos">>, <<"cover">>}
MCAskings == {<<field>> : field \in FileField}

(* Directories: of the module, of a field, and two levels of a name without uuid *)
MCLayout(dirPattern, dirname, filename, stored) ==
  [patterns |-> [dirPattern |-> dirPattern, namePattern |-> <<"name", "uuid">>,
                 props |-> [dirname |-> dirname, filename |-> filename]],
   names |-> stored]
MCName(dir, file) == [dir |-> dir, file |-> file]
MCLayouts ==
  {MCLayout(<<>>, Default, Default, {MCName(<<>>, <<"y", 1>>)}),
   MCLayout(<<"fieldName">>, Default, Default, {MCName(<<"a">>, <<"y", 1>>), MCName(<<"b">>, <<"y", 2>>)}),
   MCLayout(<<>>, <<"s", "fieldName">>, Default, {MCName(<<"s", "a">>, <<"y", 1>>), MCName(<<"s", "a">>, <<"y", 2>>)}),
   MCLayout(<<>>, <<"s", "fieldName">>, <<"name">>, {MCName(<<"s", "a">>, <<"y">>), MCName(<<"s", "b">>, <<"x">>)})}

(* Downloads: of any file, or range of it *)
MCDownloaded ==
  [route : {"public", "protected"}, filesAccess : FilesAccess, user : {"none", "owner", "other"},
   access : Access, length : 0 .. MaxLength, range : Ranges \cup {Whole}]
=============================================================================
