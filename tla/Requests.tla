------------------------------ MODULE Requests ------------------------------
(***************************************************************************)
(* A request to a resource on its way through the library: the router and  *)
(* AuthMultiGuard lead it to a handler (Routes), the interceptor of the    *)
(* policy limits it (Policies), and the resource service finds a document  *)
(* with its relations (Populations), searches what the request asks for    *)
(* (Filters) page by page (Pages), or sums it up (Aggregates), and caches  *)
(* the response with the models that it shows (Relations); or it deletes a *)
(* document (Cascades), or works on many (Bulk), or on the files of one    *)
(* (Uploads), or stores files that it brings itself (Directories).  A      *)
(* request for a file goes to StorageController (Downloads).               *)
(*                                                                         *)
(* Each part hands the next one only what that reads, which is all that is *)
(* left in request: the handler, and whether the file of the document is   *)
(* among the fields that the user may read.                                *)
(***************************************************************************)
EXTENDS Routes, Policies, Populations, Filters, Pages, Aggregates, Relations, Cascades, Bulk,
        Uploads, Downloads, Directories

CONSTANTS
  Calls,      \* what comes to the router
  Policing,   \* rules that a policy defines for a handler
  Besides,    \* rules of other operations of the same request
  Shapes,     \* declarations of relations, and how a request comes to them
  Walks,      \* how a client goes through the pages
  Summaries,  \* documents, and the filters and ranges of aggregations
  Graphs,     \* relations between the models
  Deletions,  \* documents and declarations that a deletion meets
  Bulks,      \* bulk requests, and what they meet
  Documents,  \* documents with files
  Sendings,   \* the fields of the files of an upload
  Askings,    \* the fields of the names of an unlink
  Downloaded, \* requests for a file
  Layouts,    \* patterns for the names of files, and files that are stored
  Declaring,  \* the fields of the files to store
  FilePart    \* the field with the file

ASSUME RequestsAssumption ==
  /\ FilePart \in Part \ (Dotted \cup Linked)
  /\ \A asked \in Calls : /\ \A key \in DOMAIN asked.config : key \in Key /\ asked.config[key] \in Conf
                          /\ asked \in Asked(asked.config)
  /\ \A rules \in Besides \cup UNION {Policing[handler] : handler \in DOMAIN Policing} : rules \in Seq(Rule)
  /\ \A s \in Summaries : s.documents \in Seq(Dated) /\ s.range \in TimeRange \cup {NoRange}

VARIABLE request  \* where it is, the handler, and whether the file is hidden

serviceVars == <<population, search, pagesVars, summary, relationsVars, cascadesVars, bulkVars>>
fileVars == <<uploadsVars, download, directoriesVars>>
vars == <<request, call, policy, serviceVars, fileVars>>

Reads == {"find", "query", "aggregate"}

Init ==
  /\ request = [pc |-> "coming", handler |-> "none", hidden |-> FALSE]
  /\ call = NoCall
  /\ policy = NoPolicy
  /\ population = NoPopulation
  /\ search = NoSearch
  /\ PagesInit
  /\ summary = NoSummary
  /\ RelationsInit({[model \in Model |-> {}]})
  /\ CascadesInit
  /\ BulkInit
  /\ UploadsInit
  /\ download = NoDownload
  /\ DirectoriesInit

\* What the first three steps leave alone
later == <<serviceVars, fileVars>>

Route ==
  /\ request.pc = "coming"
  /\ \/ call.pc = "none" /\ \E asked \in Calls : Coming(asked)
     \/ RouteNext
  /\ UNCHANGED <<request, policy, later>>

\* The handler is called, and a variant that is no bulk operation calls its base: what brought
\* the request there counts no more.
Enter ==
  LET handler == IF call.handler \in BulkOperation THEN call.handler ELSE Base(call.handler) IN
  /\ request.pc = "coming" /\ call.pc = "answered"
  /\ handler \in Reads \cup {"create", "delete", "upload", "unlink"} \cup BulkOperation
  /\ request' = [request EXCEPT !.pc = "routed", !.handler = handler]
  /\ call' = NoCall
  /\ UNCHANGED <<policy, later>>

\* What a handler does with the limits of the policy
Uses(handler) == IF handler \in Reads \cup {"delete", "deleteBulk"} THEN {"mongoose", "typeorm"} ELSE {"write"}

Limit ==
  /\ request.pc = "routed"
  /\ \/ \E rules \in Policing[request.handler] : Govern(rules)
     \/ \E rules \in Besides : Beside(rules)
     \/ \E use \in Uses(request.handler) : TakeFilter(use)
     \/ TakeFields
  /\ UNCHANGED <<request, call, later>>

\* The handler calls the service, with which only the projection of the read rules goes on.
Pass ==
  /\ request.pc = "routed" /\ policy.pc = "picked"
  /\ request' = [request EXCEPT !.pc = "limited",
                                !.hidden = request.handler = "delete" /\ FilePart \notin policy.fields]
  /\ policy' = NoPolicy
  /\ UNCHANGED <<call, later>>

FindOne ==
  /\ request.pc = "limited" /\ request.handler = "find"
  /\ \E s \in Shapes : Show(s.orm, s.declared, s.single, s.protected, s.projection)
  /\ request' = [request EXCEPT !.pc = "searched"]
  /\ UNCHANGED <<call, policy, search, pagesVars, summary, relationsVars, cascadesVars, bulkVars, fileVars>>

Query ==
  /\ request.pc = "limited" /\ request.handler = "query"
  /\ \E filter \in Filter, clash \in BOOLEAN : Search(filter, clash)
  /\ request' = [request EXCEPT !.pc = "searched"]
  /\ UNCHANGED <<call, policy, population, pagesVars, summary, relationsVars, cascadesVars, bulkVars, fileVars>>

Summarize ==
  /\ request.pc = "limited" /\ request.handler = "aggregate"
  /\ \E s \in Summaries, orm \in {"mongoose", "typeorm"} : Aggregate(orm, s.documents, s.filter, s.range)
  /\ request' = [request EXCEPT !.pc = "searched"]
  /\ UNCHANGED <<call, policy, population, search, pagesVars, relationsVars, cascadesVars, bulkVars, fileVars>>

\* The database runs the query, and how it was made counts no more.
Found ==
  /\ request.pc = "searched" /\ summary.pc # "refused"
  /\ request' = [request EXCEPT !.pc = "found"]
  /\ population' = NoPopulation
  /\ search' = NoSearch
  /\ summary' = NoSummary
  /\ UNCHANGED <<call, policy, pagesVars, relationsVars, cascadesVars, bulkVars, fileVars>>

\* The query is for one of several pages.
Paginate ==
  /\ request.pc = "found" /\ request.handler = "query"
  /\ \E w \in Walks : Walk(w.orm, w.replicated, w.joined, w.sort, w.size)
  /\ request' = [request EXCEPT !.pc = "paging", !.handler = "none"]
  /\ UNCHANGED <<call, policy, population, search, summary, relationsVars, cascadesVars, bulkVars, fileVars>>

Browse ==
  /\ request.pc = "paging"
  /\ PagesNext
  /\ UNCHANGED <<request, call, policy, population, search, summary, relationsVars, cascadesVars, bulkVars, fileVars>>

\* The response goes to the cache, where others like it come and go.
Serve ==
  /\ request.pc = "found"
  /\ request' = [request EXCEPT !.pc = "serving", !.handler = "none"]
  /\ relations' \in Graphs
  /\ names' = AllRelationNames(relations')
  /\ UNCHANGED <<entries, call, policy, population, search, pagesVars, summary, cascadesVars, bulkVars, fileVars>>

Share ==
  /\ request.pc = "serving"
  /\ RelationsNext
  /\ UNCHANGED <<request, call, policy, population, search, pagesVars, summary, cascadesVars, bulkVars, fileVars>>

Delete ==
  /\ request.pc = "limited" /\ request.handler = "delete"
  /\ \E d \in Deletions : d.declared.hidden = request.hidden
                          /\ Declare(d.documents, d.root, d.declared, d.owners, d.others)
  /\ request' = [request EXCEPT !.pc = "deleting", !.hidden = FALSE]
  /\ UNCHANGED <<call, policy, population, search, pagesVars, summary, relationsVars, bulkVars, fileVars>>

Cascade ==
  /\ request.pc = "deleting"
  /\ DeleteNext
  /\ UNCHANGED <<request, call, policy, population, search, pagesVars, summary, relationsVars, bulkVars, fileVars>>

\* The handler of a bulk operation checks the request and calls the service.
TakeBulk ==
  /\ request.pc = "limited" /\ request.handler \in BulkOperation
  /\ \E b \in Bulks :
       /\ b.action = Base(request.handler)
       /\ Receive(b.orm, b.action, b.array, b.valid, b.items, b.writable, b.readable, b.initial)
  /\ request' = [request EXCEPT !.pc = "working", !.handler = "none"]
  /\ UNCHANGED <<call, policy, population, search, pagesVars, summary, relationsVars, cascadesVars, fileVars>>

Work ==
  /\ request.pc = "working"
  /\ BulkNext
  /\ UNCHANGED <<request, call, policy, population, search, pagesVars, summary, relationsVars, cascadesVars, fileVars>>

\* The document has files; and other requests to it come.
Store ==
  /\ request.pc = "limited" /\ request.handler \in {"upload", "unlink"}
  /\ \E d \in Documents, orm \in {"mongoose", "typeorm"} : Attach(orm, d.value, d.created)
  /\ request' = [request EXCEPT !.pc = "storing", !.handler = "none"]
  /\ UNCHANGED <<call, policy, serviceVars, download, directoriesVars>>

Attend ==
  /\ request.pc = "storing"
  /\ \E c \in Client : Arrive(c, Sendings, Askings) \/ UploadsStep(c)
  /\ UNCHANGED <<request, call, policy, serviceVars, download, directoriesVars>>

\* The files of a new document come with it; and other requests store and delete files.
Create ==
  /\ request.pc = "limited" /\ request.handler = "create"
  /\ \E l \in Layouts : Arrange(l.patterns, l.names)
  /\ request' = [request EXCEPT !.pc = "keeping", !.handler = "none"]
  /\ UNCHANGED <<call, policy, serviceVars, uploadsVars, download>>

Keep ==
  /\ request.pc = "keeping"
  /\ \E c \in Caller :
       \/ \E field \in Declaring : StoreFile(c, "x", [field |-> field])
       \/ \E name \in DOMAIN recorded : DeleteFile(c, name)
       \/ DirectoriesStep(c)
  /\ UNCHANGED <<request, call, policy, serviceVars, uploadsVars, download>>

\* The routes of the storage controller are its own.
Download ==
  /\ request.pc = "coming" /\ call.pc = "none"
  /\ \E d \in Downloaded : Ask(d.route, d.filesAccess, d.user, d.access, d.length, d.range)
  /\ request' = [request EXCEPT !.pc = "sending"]
  /\ UNCHANGED <<call, policy, serviceVars, uploadsVars, directoriesVars>>

Send ==
  /\ request.pc = "sending"
  /\ DownloadsNext
  /\ UNCHANGED <<request, call, policy, serviceVars, uploadsVars, directoriesVars>>

Next ==
  \/ Route \/ Enter \/ Limit \/ Pass
  \/ FindOne \/ Query \/ Summarize \/ Found \/ Paginate \/ Browse \/ Serve \/ Share
  \/ Delete \/ Cascade
  \/ TakeBulk \/ Work
  \/ Store \/ Attend
  \/ Create \/ Keep
  \/ Download \/ Send

Spec == Init /\ [][Next]_vars
=============================================================================
