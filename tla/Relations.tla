----------------------------- MODULE Relations -----------------------------
(***************************************************************************)
(* Which models a key of the cache names.  A change of a model expires the *)
(* keys that name it (expireOnChange of src/lib/cache/cache.service.ts),   *)
(* so a key has to name every model that its response may show.  The names *)
(* come from relationModelNames of the resource services, a table that the *)
(* first service fills for all models and that createResourceCacheKey      *)
(* (src/lib/utils/cache.util.ts) not only reads: it pushes the name of a   *)
(* resource onto the entry of the table itself.                            *)
(*                                                                         *)
(* A model shows the models its relations lead to.  What a virtual field   *)
(* populates refers back by its foreign field, so what a deletion cascades *)
(* to leads to the deleted model.                                          *)
(***************************************************************************)
EXTENDS FiniteSets

CONSTANT Model

ASSUME ModelsAreFinite == IsFiniteSet(Model)

VARIABLES
  relations,  \* relations[m]: the models of the references, virtuals and embedded fields of m
  names,      \* modelRelationNames
  entries     \* what the cache holds

relationsVars == <<relations, names, entries>>

\* Keys are made for a route of a resource, for the user (by the name of its model), and
\* for a handler that is cached with the relations '*'.
Kind == {"resource", "modelName", "*"}
Entry == [kind : Kind, model : Model, names : SUBSET Model, stale : BOOLEAN]

\* Mutant: a model names its relations, but not theirs.
RelationNamesFlat(graph, model) == graph[model]

\* relationModelNames, a loop over the relations: one that is excluded or found already is
\* skipped, and what an other leads to is followed without it.
RelationNames(graph, model) ==
  LET found[loop \in (SUBSET Model) \X (SUBSET Model)] ==
        LET rest == loop[1]
            exclude == loop[2]
            relation == CHOOSE r \in rest : TRUE
            former == found[<<rest \ {relation}, exclude>>]
        IN IF rest = {} THEN {}
           ELSE IF relation \in exclude \cup former THEN former
           ELSE former \cup {relation} \cup found[<<graph[relation], exclude \cup {relation}>>]
  IN found[<<graph[model], {}>>]

\* initRelationModelNames
AllRelationNames(graph) == [model \in Model |-> RelationNames(graph, model)]

\* What a response about model may show, by definition: model and all it leads to.
Closed(shown) == \A m \in shown : relations[m] \subseteq shown
Shown(model) == {m \in Model : \A shown \in SUBSET Model : model \in shown /\ Closed(shown) => m \in shown}

RelationsInit(graphs) ==
  /\ relations \in graphs
  /\ names = AllRelationNames(relations)
  /\ entries = {}

\* createResourceCacheKey
KeyNames(kind, model) ==
  CASE kind = "*"         -> Model
    [] kind = "modelName" -> names[model]
    [] kind = "resource"  -> names[model] \cup {model}

\* The entry under the key that a request makes now
Hit(kind, model) ==
  {entry \in entries : /\ entry.kind = kind /\ entry.model = model
                       /\ entry.names = KeyNames(kind, model)}

\* A request is answered from the cache, or fills it.
Respond(kind, model) ==
  /\ entries' = IF Hit(kind, model) # {} THEN entries
                ELSE entries \cup {[kind |-> kind, model |-> model,
                                    names |-> KeyNames(kind, model), stale |-> FALSE]}
  /\ names' = IF kind = "resource" THEN [names EXCEPT ![model] = @ \cup {model}] ELSE names
  /\ UNCHANGED relations

\* The documents of changed have changed, and those of model expire what names model.
ChangeModels(model, changed) ==
  /\ entries' = {[entry EXCEPT !.stale = @ \/ Shown(entry.model) \cap changed # {}] :
                   entry \in {e \in entries : model \notin e.names}}
  /\ UNCHANGED <<relations, names>>

\* An update, or a deletion that cascades to models that refer to model
Change(model) ==
  \E cascaded \in SUBSET {m \in Model : model \in Shown(m)} :
    ChangeModels(model, {model} \cup cascaded)

RelationsNext ==
  \/ \E kind \in Kind, model \in Model : Respond(kind, model)
  \/ \E model \in Model : Change(model)

\* The cache answers no request with what a completed change has made out of date: except
\* the user under a key without the name of its model, which is there only when the
\* relations of the model lead back to it or once a route of the resource has made a key
\* (cache.util.ts:14 and 20).
HitsAreCurrent ==
  \A kind \in Kind, model \in Model : \A entry \in Hit(kind, model) :
    entry.stale => kind = "modelName" /\ model \notin names[model]

=============================================================================
