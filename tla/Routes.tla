------------------------------- MODULE Routes -------------------------------
(***************************************************************************)
(* The handlers that ResourceController and ResourceResolver               *)
(* (src/lib/resource/helpers) declare for a resource, what the decorator   *)
(* Resource (src/lib/resource/decorators/resource.decorator.ts) makes of   *)
(* them by the config of the resource and AppUtil (src/lib/utils/          *)
(* app.util.ts) by the settings of the application, and whom               *)
(* AuthMultiGuard (src/lib/auth/auth-multi.guard.ts) lets pass.            *)
(*                                                                         *)
(* A config has an entry for some of the operations, and All for the rest. *)
(* Of an entry the model has enabled, auth and public; what the decorator  *)
(* finds falsy it takes from All.                                          *)
(***************************************************************************)
EXTENDS Naturals, Sequences, SequencesExt

CONSTANTS
  AuthType,  \* the ways to authenticate
  Listed,    \* those that an entry lists, when its auth is a list
  Nobody

ASSUME RoutesAssumption == Listed \subseteq AuthType /\ Listed # {} /\ Nobody \notin AuthType

VARIABLE call  \* a request, from its coming to the handler that answers it

\* The handlers of one document or of all
ResourceHandlers == <<
  [operation |-> "find",         method |-> "GET",    path |-> <<":id">>],
  [operation |-> "queryGet",     method |-> "GET",    path |-> <<>>],
  [operation |-> "query",        method |-> "POST",   path |-> <<"query">>],
  [operation |-> "aggregateGet", method |-> "GET",    path |-> <<"aggregate">>],
  [operation |-> "aggregate",    method |-> "POST",   path |-> <<"aggregate">>],
  [operation |-> "create",       method |-> "POST",   path |-> <<>>],
  [operation |-> "update",       method |-> "PUT",    path |-> <<":id">>],
  [operation |-> "delete",       method |-> "DELETE", path |-> <<":id">>] >>

\* Mutant: the paths of bulk operations leave out what the method says.
BulkHandlersShort == <<
  [operation |-> "createBulk",   method |-> "POST",   path |-> <<"bulk">>],
  [operation |-> "updateBulk",   method |-> "PUT",    path |-> <<"bulk">>],
  [operation |-> "deleteBulk",   method |-> "POST",   path |-> <<"bulk", "delete">>] >>

BulkHandlers == <<
  [operation |-> "createBulk",   method |-> "POST",   path |-> <<"bulk", "create">>],
  [operation |-> "updateBulk",   method |-> "PUT",    path |-> <<"bulk", "update">>],
  [operation |-> "deleteBulk",   method |-> "POST",   path |-> <<"bulk", "delete">>] >>

FileHandlers == <<
  [operation |-> "upload",       method |-> "POST",   path |-> <<":id", "files">>],
  [operation |-> "unlink",       method |-> "POST",   path |-> <<":id", "delete-files">>] >>

\* In the order in which the class declares them, which is that of the router
ControllerHandlers == ResourceHandlers \o BulkHandlers \o FileHandlers

\* ResourceResolver: each handler is a field of the schema, under a name of its own.
ResolverHandlers ==
  [i \in DOMAIN ControllerHandlers |->
     LET operation == ControllerHandlers[i].operation
     IN [operation |-> operation, method |-> "field", path |-> <<operation>>]]

\* The resolver has not all of them.
Provided(api, operation) == api = "graphql" => operation \notin {"queryGet", "aggregateGet", "upload"}

Handlers == [rest |-> ControllerHandlers, graphql |-> ResolverHandlers]

Operation == {h.operation : h \in ToSet(ControllerHandlers)}

\* extraOperations: what an operation is a variant of
Base(operation) ==
  CASE operation = "queryGet"     -> "query"
    [] operation = "aggregateGet" -> "aggregate"
    [] operation = "createBulk"   -> "create"
    [] operation = "updateBulk"   -> "update"
    [] operation = "deleteBulk"   -> "delete"
    [] OTHER                      -> operation

Flag == {"undefined", "true", "false"}
Conf == [enabled : Flag, auth : Flag \cup {"list"}, public : Flag]
NoConf == [enabled |-> "undefined", auth |-> "undefined", public |-> "undefined"]

\* A config is a function from some of the keys.
Key == Operation \cup {"All"}
NoConfig == [key \in {} |-> NoConf]

\* The settings of the application: REST, the methods of query and aggregate, where "any"
\* leaves both, and the bulk operations
Method == {"GET", "POST", "any"}
BulkOperation == {h.operation : h \in ToSet(BulkHandlers)}
Settings ==
  [rest : BOOLEAN, queryMethod : Method, aggregateMethod : Method,
   bulkEnabled : BOOLEAN, bulk : SUBSET BulkOperation]

\* What comes to the router of an api, with a dot in its path or not; and the resource and
\* the types of authentication that it finds there
Asked(config) ==
  [api : DOMAIN Handlers, operation : Operation, dotted : BOOLEAN, credentials : SUBSET AuthType,
   config : {config}, files : BOOLEAN, settings : Settings, enabled : SUBSET AuthType]

NoCall == [pc |-> "none", asked |-> Nobody, handler |-> "none", user |-> Nobody]

-----------------------------------------------------------------------------
(* The decorator Resource *)

Truthy(value) == value \in {"true", "list"}

\* The entry of an operation, completed with that of All
WithAll(conf, all) ==
  [key \in DOMAIN conf |-> IF ~Truthy(conf[key]) /\ all[key] # "undefined" THEN all[key] ELSE conf[key]]

\* Mutant: a variant without an entry has that of All.
ConfOfAll(config, operation) ==
  LET all == IF "All" \in DOMAIN config THEN config["All"] ELSE NoConf
  IN IF operation \in DOMAIN config THEN WithAll(config[operation], all) ELSE all

\* The entry that holds for an operation: a variant without one has that of its base, and
\* the entry of a variant is not completed.
ConfOf(config, operation) ==
  LET all == IF "All" \in DOMAIN config THEN config["All"] ELSE NoConf
      base == Base(operation)
  IN IF base # operation /\ operation \in DOMAIN config THEN config[operation]
     ELSE IF base \in DOMAIN config THEN WithAll(config[base], all) ELSE all

\* Mutant: only an entry with auth authorizes.
AuthorizedByAuth(conf) == Truthy(conf.auth)

\* authorizedOperation puts AuthMultiGuard in front of the handler.
Authorized(conf) == conf.public # "true" \/ Truthy(conf.auth)

AuthTypes(conf) == IF conf.auth = "list" THEN Listed ELSE AuthType

\* AppUtil: the operations that the settings leave
LeftBySettings(api, settings, operation) ==
  /\ operation \in BulkOperation => settings.bulkEnabled /\ operation \in settings.bulk
  /\ api = "rest" =>
       /\ operation = "query" => settings.queryMethod # "GET"
       /\ operation = "queryGet" => settings.queryMethod # "POST"
       /\ operation = "aggregate" => settings.aggregateMethod # "GET"
       /\ operation = "aggregateGet" => settings.aggregateMethod # "POST"

\* Whether the handler keeps its route: deleteOperation, and files only where there are
Registered(asked, operation) ==
  /\ Provided(asked.api, operation)
  /\ ConfOf(asked.config, operation).enabled # "false"
  /\ operation \in {"upload", "unlink"} => asked.files
  /\ LeftBySettings(asked.api, asked.settings, operation)

-----------------------------------------------------------------------------
(* The router and AuthMultiGuard *)

Fits(path, route) ==
  Len(path) = Len(route) /\ \A i \in 1 .. Len(path) : route[i] \in {path[i], ":id"}

\* The places of the registered handlers that fit a request, which has the method and the
\* path of the handler of its operation
Fitting(asked) ==
  LET handlers == Handlers[asked.api]
  IN {i \in DOMAIN handlers :
        /\ Registered(asked, handlers[i].operation)
        /\ \E own \in ToSet(handlers) : /\ own.operation = asked.operation /\ own.method = handlers[i].method
                                       /\ Fits(own.path, handlers[i].path)}

\* The middleware that AppUtil adds when REST is off
PassesMiddleware(asked) == asked.api = "rest" => asked.settings.rest \/ asked.dotted

\* The first handler that fits answers.
FirstOf(places) == {i \in places : \A j \in places : i <= j}

Coming(asked) ==
  /\ call.pc = "none"
  /\ IF PassesMiddleware(asked) /\ Fitting(asked) # {}
       THEN \E first \in FirstOf(Fitting(asked)) :
              call' = [NoCall EXCEPT !.pc = "routed", !.asked = asked, !.handler = Handlers[asked.api][first].operation]
       ELSE call' = [NoCall EXCEPT !.pc = "refused"]

\* The entry of the handler, and the types that the guard tries
Called == ConfOf(call.asked.config, call.handler)
Tried == AuthTypes(Called) \cap call.asked.enabled

Answer(user) == call' = [call EXCEPT !.pc = "answered", !.user = user]

\* No guard, or none of its types is enabled
AnswerAnyone ==
  /\ call.pc = "routed"
  /\ ~Authorized(Called) \/ Tried = {}
  /\ Answer(Nobody)

AnswerUser(type) ==
  /\ call.pc = "routed"
  /\ Authorized(Called) /\ type \in Tried \cap call.asked.credentials
  /\ Answer(type)

\* None of the types has authenticated, but a public handler answers anyone.
AnswerPublic ==
  /\ call.pc = "routed"
  /\ Authorized(Called) /\ Tried # {} /\ Tried \cap call.asked.credentials = {}
  /\ Called.public = "true"
  /\ Answer(Nobody)

\* 401
Refuse ==
  /\ call.pc = "routed"
  /\ Authorized(Called) /\ Tried # {} /\ Tried \cap call.asked.credentials = {}
  /\ Called.public # "true"
  /\ call' = [NoCall EXCEPT !.pc = "refused"]

RouteNext == AnswerAnyone \/ (\E type \in AuthType : AnswerUser(type)) \/ AnswerPublic \/ Refuse

-----------------------------------------------------------------------------
\* The keys of the entries that are about a handler, and the one that is most so
KeysAbout(handler) == {handler, Base(handler), "All"} \cap DOMAIN call.asked.config
Nearest(handler) ==
  IF handler \in KeysAbout(handler) THEN handler ELSE IF Base(handler) \in KeysAbout(handler) THEN Base(handler) ELSE "All"

\* A handler answers without a user only if an entry about it says public, or if no type
\* that it accepts is enabled; and a list of types holds for whom it answers
\* (resource.decorator.ts:76, auth-multi.guard.ts:62).
HandlersAreGuarded ==
  call.pc = "answered" =>
    LET config == call.asked.config
        keys == KeysAbout(call.handler)
        listed == \E key \in keys : config[key].auth = "list"
    IN /\ call.user = Nobody /\ (\A key \in keys : config[key].public # "true") =>
            call.asked.enabled = {} \/ (listed /\ call.asked.enabled \cap Listed = {})
       /\ call.user # Nobody /\ keys # {} /\ config[Nearest(call.handler)].auth = "list" => call.user \in Listed

\* A disabled operation answers no request: disabled by its own entry, by that of its base
\* when it has none, or by All when neither has.  But a falsy value gives way to All: an
\* operation is not off where All says enabled (resource.decorator.ts:46).  Nor does a bulk
\* operation that the settings disable, whatever the config says, nor any handler of REST
\* when that is off, except for an id with a dot (app.util.ts:125).
DisabledOperationsAreOff ==
  call.pc = "answered" =>
    LET config == call.asked.config
        settings == call.asked.settings
    IN /\ KeysAbout(call.handler) # {} /\ config[Nearest(call.handler)].enabled = "false" =>
            /\ "All" \in DOMAIN config /\ config["All"].enabled = "true"
            /\ Base(call.handler) \in DOMAIN config
       /\ call.handler \in BulkOperation => settings.bulkEnabled /\ call.handler \in settings.bulk
       /\ call.asked.api = "rest" => settings.rest \/ call.asked.dotted

\* A request is answered by the handler of its operation, except that find answers
\* GET /aggregate (resource-controller.helper.ts:440).
RoutesReachTheirHandlers ==
  call.pc = "answered" =>
    \/ call.handler = call.asked.operation
    \/ call.asked.api = "rest" /\ call.asked.operation = "aggregateGet" /\ call.handler = "find"
=============================================================================
