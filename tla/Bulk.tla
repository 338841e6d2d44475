-------------------------------- MODULE Bulk --------------------------------
(***************************************************************************)
(* createBulk, updateBulk and deleteBulk of the resource services: one     *)
(* item after the other, and an item that fails is left out of the answer. *)
(* An item can fail after its document has changed: its files are looked   *)
(* after then, the cache expires, and TypeOrmResourceService reads the     *)
(* document again, as far as the policy lets the user read.                *)
(***************************************************************************)
EXTENDS Naturals, Sequences, FiniteSets

CONSTANTS
  Id,      \* identifiers of documents
  Content,  \* what a document contains, as far as a policy asks for it
  MaxBulk,  \* bulk.maxSize
  MaxOthers \* bound on the changes by other requests

VARIABLES
  rows,   \* rows[k]: the contents of the document, if there is one
  bulk,   \* the request
  others  \* the changes by other requests

bulkVars == <<rows, bulk, others>>

\* A document is a set of one content, so that none is the empty set.
Gone == {}
NoBulk == [pc |-> "none"]

BulkInit == rows = [k \in Id |-> Gone] /\ bulk = NoBulk /\ others = <<>>

\* The results of validateBulkRequest; what is no array goes on, to fail in the service.
Accepted(array, valid, items) == array /\ valid /\ Len(items) \in 1 .. MaxBulk

\* writable, readable: the contents that the rules for the action and for reading let through.
Receive(orm, action, array, valid, items, writable, readable, initial) ==
  /\ bulk = NoBulk
  /\ rows' = initial
  /\ bulk' = [pc |-> IF Accepted(array, valid, items) THEN "next" ELSE "refused", orm |-> orm, action |-> action,
              items |-> items, writable |-> writable, readable |-> readable, at |-> 0, found |-> Gone,
              answer |-> <<>>, done |-> {}, failed |-> {}, initial |-> initial]
  /\ UNCHANGED others

Item == bulk.items[bulk.at]

NextItem ==
  /\ bulk.pc = "next"
  /\ bulk' = IF bulk.at = Len(bulk.items) THEN [bulk EXCEPT !.pc = "over"]
             ELSE [bulk EXCEPT !.at = @ + 1, !.found = Gone,
                               !.pc = IF bulk.action = "create" THEN "saving" ELSE "finding"]
  /\ UNCHANGED <<rows, others>>

\* findResource with the policy of the action: what it does not find fails the item.
FindItem ==
  /\ bulk.pc = "finding"
  /\ LET found == rows[Item.key] \cap bulk.writable
     IN bulk' = [bulk EXCEPT !.found = found, !.pc = IF found = Gone THEN "next" ELSE "saving"]
  /\ UNCHANGED <<rows, others>>

Changed == [bulk EXCEPT !.pc = "changed", !.done = @ \cup {bulk.at}]

\* The identifiers are unique.
CreateItem ==
  /\ bulk.pc = "saving" /\ bulk.action = "create"
  /\ IF rows[Item.key] # Gone
       THEN bulk' = [bulk EXCEPT !.pc = "next"] /\ UNCHANGED rows
       ELSE bulk' = Changed /\ rows' = [rows EXCEPT ![Item.key] = {Item.content}]
  /\ UNCHANGED others

\* save inserts what is gone with TypeORM, and throws with mongoose.
UpdateItem ==
  /\ bulk.pc = "saving" /\ bulk.action = "update"
  /\ IF rows[Item.key] = Gone /\ bulk.orm = "mongoose"
       THEN bulk' = [bulk EXCEPT !.pc = "next"] /\ UNCHANGED rows
       ELSE bulk' = Changed /\ rows' = [rows EXCEPT ![Item.key] = {Item.content}]
  /\ UNCHANGED others

DeleteItem ==
  /\ bulk.pc = "saving" /\ bulk.action = "delete"
  /\ bulk' = Changed
  /\ rows' = [rows EXCEPT ![Item.key] = Gone]
  /\ UNCHANGED others

\* A query, a file or the cache fails, before the change or after it.
ItemFails ==
  /\ bulk.pc \in {"finding", "saving", "changed"}
  /\ bulk' = [bulk EXCEPT !.pc = "next", !.failed = @ \cup {bulk.at}]
  /\ UNCHANGED <<rows, others>>

Answered(document) == [at |-> bulk.at, key |-> Item.key, document |-> document]

\* Mutant: what the policy hides is left empty in the answer.
ReplyAnyway ==
  /\ bulk.pc = "changed"
  /\ bulk' = [bulk EXCEPT !.pc = "next", !.answer = Append(@, Answered(
       CASE bulk.action = "delete"                          -> bulk.found
         [] bulk.action # "delete" /\ bulk.orm = "mongoose" -> {Item.content}
         [] OTHER                                           -> rows[Item.key] \cap bulk.readable))]
  /\ UNCHANGED <<rows, others>>

\* TypeOrmResourceService reads what it has saved; MongooseResourceService has it.
Reply ==
  /\ bulk.pc = "changed"
  /\ LET document == CASE bulk.action = "delete"                          -> bulk.found
                       [] bulk.action # "delete" /\ bulk.orm = "mongoose" -> {Item.content}
                       [] OTHER                                           -> rows[Item.key] \cap bulk.readable
     IN bulk' = [bulk EXCEPT !.pc = "next", !.answer = IF document = Gone THEN @ ELSE Append(@, Answered(document))]
  /\ UNCHANGED <<rows, others>>

Other ==
  /\ bulk.pc \notin {"none", "refused", "over"} /\ Len(others) < MaxOthers
  /\ \E k \in Id, document \in {Gone} \cup {{c} : c \in Content} :
       /\ document # rows[k]
       /\ rows' = [rows EXCEPT ![k] = document]
       /\ others' = Append(others, [at |-> bulk.at, pc |-> bulk.pc, key |-> k, document |-> document])
  /\ UNCHANGED bulk

BulkNext ==
  \/ NextItem \/ FindItem \/ CreateItem \/ UpdateItem \/ DeleteItem \/ ItemFails \/ Reply \/ Other

-----------------------------------------------------------------------------
\* Another request has changed the document of item i: before it was over, while it was worked on
Touched(i) == \E o \in DOMAIN others : others[o].at <= i /\ others[o].key = bulk.items[i].key
Meddled(i) ==
  \E o \in DOMAIN others : others[o].at = i /\ others[o].pc # "next" /\ others[o].key = bulk.items[i].key
\* An earlier item of the bulk is about the same document.
Repeats(i) == \E j \in 1 .. i - 1 : bulk.items[j].key = bulk.items[i].key

(* At the end the answer has the documents of the items that were done, in their order.  A document   *)
(* that has changed is missing only if something failed after the change, or if the policy or another *)
(* request kept TypeORM from reading it again.  One that has not changed was not there or not allowed, *)
(* or had come before in the bulk, or was touched by another request, or something failed.            *)
BulkAnswersAreExplained ==
  LET answered == {bulk.answer[a].at : a \in DOMAIN bulk.answer}
      allowed(i) == LET before == bulk.initial[bulk.items[i].key]
                    IN IF bulk.action = "create" THEN before = Gone ELSE before \cap bulk.writable # Gone
  IN bulk.pc = "over" =>
       /\ \A a \in 1 .. Len(bulk.answer) - 1 : bulk.answer[a].at < bulk.answer[a + 1].at
       /\ \A a \in DOMAIN bulk.answer :
            LET answer == bulk.answer[a]
            IN /\ answer.at \in bulk.done /\ answer.document # Gone
               /\ bulk.action # "delete" =>
                    answer.document = {bulk.items[answer.at].content} \/ Meddled(answer.at)
       /\ \A i \in bulk.done \ answered :
            \/ i \in bulk.failed
            \/ /\ bulk.orm = "typeorm" /\ bulk.action # "delete"
               /\ Meddled(i) \/ bulk.items[i].content \notin bulk.readable
       /\ \A i \in DOMAIN bulk.items \ bulk.done :
            i \in bulk.failed \/ ~allowed(i) \/ Repeats(i) \/ Touched(i)
=============================================================================
