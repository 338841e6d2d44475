------------------------------- MODULE Pages -------------------------------
(***************************************************************************)
(* The pages of a query: a client asks for one after the other, while the  *)
(* documents change.  RequestUtil.prepareQueryParams settles the size of a *)
(* page, and query of the resource services finds the documents of the     *)
(* page and counts all of them, in two queries: with TypeORM in a          *)
(* transaction on a connection of its own, which reads what others commit, *)
(* with mongoose in a snapshot, or in no transaction without replication.  *)
(***************************************************************************)
EXTENDS Naturals, Sequences, FiniteSets, SequencesExt, Selections

CONSTANTS
  Record,      \* documents: numbers
  MaxSize,     \* pagination.maxSize
  DefaultSize, \* pagination.defaultSize
  Pool,        \* connections of the database
  MaxEdits     \* bound on the changes of the documents

ASSUME PagesAssumption == Record \cup {MaxSize, DefaultSize} \subseteq Nat

VARIABLES
  stock,   \* the documents in the database
  walk,    \* the client and its request
  opened,  \* connections that are taken
  refused, \* transactions that did not start
  edits

pagesVars == <<stock, walk, opened, refused, edits>>

\* sort: by a unique field, by one that documents share, or not at all
Sort == {"unique", "shared", "none"}
Rank(sort, record) ==
  CASE sort = "unique" -> record
    [] sort = "shared" -> (record + 1) \div 2
    [] sort = "none"   -> 0

\* The orders in which a database may find records
Orders(sort, records) ==
  {order \in SetToSeqs(records) :
     \A i, j \in DOMAIN order : i < j => Rank(sort, order[i]) <= Rank(sort, order[j])}

Absent == "absent"

\* A size that is missing is the default, and 0 is the largest.
Prepared(size) ==
  CASE size = Absent                 -> DefaultSize
    [] size = "0" \/ size = "larger" -> MaxSize
    [] OTHER                         -> 1

\* Mutant: the first page is page 0.
SkippedFromZero(page, size) == page * size

Skipped(page, size) == (page - 1) * size

Page(order, page, size) ==
  LET skip == Skipped(page, size)
  IN SubSeq(order, skip + 1, IF skip + size < Len(order) THEN skip + size ELSE Len(order))

NoWalk == [pc |-> "none"]

PagesInit ==
  /\ stock = {}
  /\ walk = NoWalk
  /\ opened = 0
  /\ refused = 0
  /\ edits = 0

\* read: the documents of the snapshot, or of the last query; shown: how often the client got each;
\* came, left: what was inserted and deleted since it began; torn: and since the first query.
Walk(orm, replicated, joined, sort, size) ==
  /\ walk = NoWalk
  /\ stock' \in SUBSET Record
  /\ walk' = [pc |-> "asking", orm |-> orm, replicated |-> replicated, joined |-> joined, sort |-> sort,
              size |-> Prepared(size), page |-> 1, read |-> {}, items |-> <<>>, total |-> 0,
              shown |-> [r \in Record |-> 0], first |-> stock', came |-> {}, left |-> {}, torn |-> FALSE]
  /\ UNCHANGED <<opened, refused, edits>>

\* repositoryAndRunner takes a connection before the try; makeSession takes none.
Begin ==
  /\ walk.pc = "asking"
  /\ walk.orm = "typeorm" => opened < Pool
  /\ opened' = IF walk.orm = "typeorm" THEN opened + 1 ELSE opened
  /\ walk' = [walk EXCEPT !.pc = IF walk.joined THEN "listing" ELSE "finding"]
  /\ UNCHANGED <<stock, refused, edits>>

\* startTransaction throws: nothing releases the connection.
BeginFails ==
  /\ walk.pc = "asking" /\ walk.orm = "typeorm" /\ opened < Pool
  /\ opened' = opened + 1
  /\ refused' = refused + 1
  /\ UNCHANGED <<stock, walk, edits>>

\* With joins TypeORM finds the identifiers of the page first.
List ==
  /\ walk.pc = "listing"
  /\ \E order \in Orders(walk.sort, stock) :
       walk' = [walk EXCEPT !.pc = "finding", !.items = Page(order, walk.page, walk.size), !.torn = FALSE]
  /\ UNCHANGED <<stock, opened, refused, edits>>

Find ==
  /\ walk.pc = "finding"
  /\ \E order \in Orders(walk.sort, stock) :
       walk' = [walk EXCEPT
         !.pc = "counting", !.read = stock, !.torn = walk.joined /\ @,
         !.items = IF walk.joined THEN Those(walk.items, stock)
                                  ELSE Page(order, walk.page, walk.size)]
  /\ UNCHANGED <<stock, opened, refused, edits>>

Released == IF walk.orm = "typeorm" THEN opened - 1 ELSE opened

Count ==
  /\ walk.pc = "counting"
  /\ walk' = [walk EXCEPT !.pc = "answered", !.total = Cardinality(IF walk.replicated THEN walk.read ELSE stock)]
  /\ opened' = Released
  /\ UNCHANGED <<stock, refused, edits>>

\* Mutant: only the rollback follows an error.
QueryFailsOpen ==
  /\ walk.pc \in {"listing", "finding", "counting"}
  /\ walk' = [walk EXCEPT !.pc = "asking", !.items = <<>>]
  /\ UNCHANGED <<stock, opened, refused, edits>>

\* A query throws: the transaction is rolled back, the connection released, and the client asks again.
QueryFails ==
  /\ walk.pc \in {"listing", "finding", "counting"}
  /\ walk' = [walk EXCEPT !.pc = "asking", !.items = <<>>]
  /\ opened' = Released
  /\ UNCHANGED <<stock, refused, edits>>

\* The client goes on until it has got as many as there are.
Turn ==
  /\ walk.pc = "answered"
  /\ walk' = [walk EXCEPT
       !.pc = IF walk.page * walk.size < walk.total THEN "asking" ELSE "over",
       !.page = @ + 1, !.items = <<>>, !.read = {}, !.torn = FALSE,
       !.shown = [r \in Record |-> @[r] + Cardinality({i \in DOMAIN walk.items : walk.items[i] = r})]]
  /\ UNCHANGED <<stock, opened, refused, edits>>

Edit ==
  /\ walk.pc \notin {"none", "over"} /\ edits < MaxEdits
  /\ \E r \in Record \ (walk.came \cup walk.left) :
       IF r \in stock
         THEN stock' = stock \ {r} /\ walk' = [walk EXCEPT !.left = @ \cup {r}, !.torn = TRUE]
         ELSE stock' = stock \cup {r} /\ walk' = [walk EXCEPT !.came = @ \cup {r}, !.torn = TRUE]
  /\ edits' = edits + 1
  /\ UNCHANGED <<opened, refused>>

PagesNext ==
  \/ Begin \/ BeginFails \/ List \/ Find \/ Count \/ QueryFails \/ Turn \/ Edit

-----------------------------------------------------------------------------
\* What may move r to another page between two queries
Shares(r) == {e \in (walk.first \cup walk.came) \ {r} : Rank(walk.sort, e) = Rank(walk.sort, r)}
Ahead(r, records) == {e \in records : Rank(walk.sort, e) < Rank(walk.sort, r)}

(* A walk through the pages shows each document that was there all the time once, unless the sort    *)
(* leaves its place open, or one ahead of it was deleted or inserted meanwhile.  The total of a      *)
(* response fits its items, unless a change came between the queries and they share no snapshot.     *)
WalksShowEverything ==
  /\ walk.pc = "over" =>
       \A r \in walk.first \ walk.left :
         /\ walk.shown[r] = 0 => Shares(r) \cup Ahead(r, walk.left) # {}
         /\ walk.shown[r] > 1 => Shares(r) \cup Ahead(r, walk.came) # {}
  /\ walk.pc = "answered" /\ (walk.torn => walk.replicated) =>
       LET past == Skipped(walk.page, walk.size)
       IN \/ walk.total = past + Len(walk.items)
          \/ Len(walk.items) = walk.size /\ walk.total > past + walk.size
          \/ walk.items = <<>> /\ walk.total <= past

(* A request that is over keeps no connection, but for one whose transaction did not start. *)
ConnectionsAreReturned ==
  opened = refused + (IF walk.pc \in {"listing", "finding", "counting"} /\ walk.orm = "typeorm" THEN 1 ELSE 0)
=============================================================================
