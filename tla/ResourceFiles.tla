--------------------------- MODULE ResourceFiles ----------------------------
(***************************************************************************)
(* Files of resources: FileManager (src/lib/storage/file-manager.ts) as    *)
(* create, update and delete of MongooseResourceService and of             *)
(* TypeOrmResourceService use it (src/lib/resource/services).              *)
(*                                                                         *)
(* A file lives in three places that no transaction ties together: its     *)
(* bytes in the storage, its FileMeta document, and its name in the file   *)
(* field of a resource.  A request changes them one await at a time, and   *)
(* cleans up what it can when a step fails.                                *)
(*                                                                         *)
(* The resource has one file field, of one file or of an array of files;   *)
(* persistFiles runs for the resource and for each embedded document, and  *)
(* the field stands for the files of them all.  Names are generated with a *)
(* uuid: they are fresh.  MongoDB and mongoose are external: a document is *)
(* saved atomically, and a save that sets a whole array is refused when    *)
(* another such save came after the document was read (the version key).   *)
(* With TypeORM a document is a row, a name is a row of its own, which     *)
(* refers to the metadata of the file and goes with it, and foreign keys   *)
(* and a unique column guard both; save knows no versions, and inserts a   *)
(* row that it does not find.  An array is left to mongoose.               *)
(***************************************************************************)
EXTENDS Naturals, FiniteSets, Sequences

CONSTANTS
  Request,   \* requests on the resource, each on its own flow of control
  Doc,       \* documents that may be created
  File,      \* file names that may be generated
  Null,      \* a field without value
  IsArray,   \* isArray of the file field
  Default,   \* default of the file field: null, unless the schema says otherwise
  Nullable,  \* whether a request may set the field to null
  Calls,     \* uploads of a request: how many files for each call of persistFiles
  Faults,    \* the steps that may fail: store, move, meta, row, after, unlink, crash
  Orms       \* the library of the resource service

ASSUME FieldAssumption ==
  /\ IsArray \in BOOLEAN /\ Nullable \in BOOLEAN
  /\ Default = Null \/ (Default = {} /\ IsArray)
  /\ Null \notin File \cup Doc /\ \A S \in SUBSET File : S # Null
ASSUME CallsAssumption == Calls \subseteq Seq(Nat) \ {<<>>} /\ <<0>> \in Calls
ASSUME OrmsAssumption == Orms \subseteq {"mongoose", "typeorm"} /\ ("typeorm" \in Orms => ~IsArray)
ASSUME FaultsAssumption ==
  Faults \subseteq {"store", "move", "meta", "row", "after", "unlink", "crash"}

VARIABLES
  orm,       \* the library in use
  rows,      \* the documents in the database
  disk,      \* the files in the storage
  metas,     \* the files that have a FileMeta document
  req,       \* what each request holds, and does next
  orphaned,  \* history: files nobody will delete, once the request that left them is over
  broken     \* history: names written to a document without a file to last

vars == <<orm, rows, disk, metas, req, orphaned, broken>>

Value == {Null} \cup SUBSET File

\* A request and the local variables of its calls:
\*   pc, op, doc      the next step, the operation and the document
\*   found            the file field of currentResource
\*   stale            whether another request has set the array since it was read
\*   want             the file field of the model, but for the files stored since
\*   calls            uploads left to store, for each call of persistFiles left
\*   hand             the file between two steps of storeFile, moveFromTemp, deleteFile
\*   stored, earlier  storedFiles of this call, and of those that have returned
\*   doomed           files left to delete
\*   made             history: the names it has generated
\*   bare             names that it has read, or made, without metadata
Idle ==
  [pc |-> "idle", op |-> "none", doc |-> Null, found |-> Null, stale |-> FALSE,
   want |-> Null, calls |-> <<0>>, hand |-> Null, stored |-> {}, earlier |-> {},
   doomed |-> {}, made |-> {}, bare |-> {}]

\* The locals of a request that has only files left to delete
Purging(names) == [Idle EXCEPT !.pc = "purging", !.doomed = names]

Undoing(q, names) == [Idle EXCEPT !.pc = "undoing", !.doomed = names, !.made = q.made]

Names(value) == IF value = Null THEN {} ELSE value

\* The file field of the model once its uploads are stored
NewValue(q) == IF q.want = Null THEN Null ELSE q.want \cup q.stored \cup q.earlier

\* Mutant: an update deletes the files it keeps.
FilesToDeleteAll(current, new) == Names(current)

\* Mutant: a value that is replaced is not deleted, only one that is removed.
FilesToDeleteRemoved(current, new) == IF new = Null THEN Names(current) ELSE {}

\* getFilesToDelete of an update.  An array that becomes null is neither two arrays
\* nor one file.
FilesToDelete(current, new) ==
  IF IsArray /\ new = Null THEN {} ELSE Names(current) \ Names(new)

\* Mutant: any name is accepted.
NamesValidAlways(q) == TRUE

\* Only names of the current array are accepted, if there is one (lines 334-346).
NamesValid(q) ==
  IsArray /\ q.op = "update" /\ q.found # Null /\ q.want # Null => q.want \subseteq q.found

Live(d) == rows[d].state = "live"

Referenced == UNION {Names(rows[d].files) : d \in Doc}

\* The files a request will yet write to its document or delete
InHands(q) ==
  ({q.hand} \ {Null}) \cup q.stored \cup q.earlier \cup q.doomed
    \cup (IF q.pc \in {"saved", "removed"} THEN Names(q.found) ELSE {})

\* A uuid names no file that is known anywhere.
Known == disk \cup metas \cup Referenced \cup orphaned \cup broken \cup
  UNION {Names(q.found) \cup Names(q.want) \cup InHands(q) \cup q.made :
           q \in {req[r] : r \in Request}}

Fresh == File \ Known

Set(r, q) == req' = [req EXCEPT ![r] = q]

(***************************************************************************)
(* Requests arrive                                                         *)
(***************************************************************************)
Begin(r, kind, d, value, uploads) ==
  /\ req[r].pc = "idle"
  /\ Set(r, [Idle EXCEPT !.pc = IF kind = "delete" THEN "removing" ELSE "storing",
                         !.op = kind, !.doc = d, !.want = value, !.calls = uploads,
                         !.found = IF kind = "create" THEN Null ELSE rows[d].files,
                         !.bare = IF kind = "create" \/ orm = "mongoose" THEN {} ELSE Names(rows[d].files) \ metas])
  /\ UNCHANGED <<rows, disk, metas, orphaned, broken>>

NoUploads(uploads) == \A i \in DOMAIN uploads : uploads[i] = 0

OneFile(uploads) == uploads = <<1>>

Create(r) ==
  \E uploads \in Calls :
    /\ IsArray \/ NoUploads(uploads) \/ OneFile(uploads)
    /\ Begin(r, "create", Null, IF NoUploads(uploads) THEN Default ELSE {}, uploads)

\* update, with a body that sets the file field.  An array lists names, as it pleases,
\* and uploads; one file is kept, whatever its name, or replaced by one upload.
Update(r, d) ==
  /\ Live(d)
  /\ \E uploads \in Calls, value \in Value :
       /\ value = Null => NoUploads(uploads) /\ Nullable
       /\ \/ IsArray
          \/ value = Null
          \/ value = {} /\ OneFile(uploads)
          \/ value = Names(rows[d].files) /\ NoUploads(uploads)
       /\ Begin(r, "update", d, value, uploads)

\* update for the upload endpoint: the files wait in the temporary directory, and are
\* added to an array field (mergeFileArrays).
Upload(r, d) ==
  /\ Live(d)
  /\ \E uploads \in Calls :
       /\ Len(uploads) = 1 /\ ~NoUploads(uploads)
       /\ IsArray \/ OneFile(uploads)
       /\ Begin(r, "upload", d, IF IsArray THEN Names(rows[d].files) ELSE {}, uploads)

Delete(r, d) == Live(d) /\ Begin(r, "delete", d, Null, <<0>>)

(***************************************************************************)
(* persistFiles                                                            *)
(***************************************************************************)
Uploading(r) == req[r].pc = "storing" /\ req[r].hand = Null /\ Head(req[r].calls) > 0

OneLess(uploads) == <<Head(uploads) - 1>> \o Tail(uploads)

\* The catch of persistFiles knows the files of its own call.  The caller never gets
\* the list, and the files of earlier calls stay.
PersistFails(r, left) ==
  /\ Set(r, Undoing(req[r], req[r].stored))
  /\ orphaned' = orphaned \cup req[r].earlier \cup left
  /\ UNCHANGED <<rows, disk, metas, broken>>

\* storageAdapter.store, or move for a file already uploaded
Store(r) ==
  /\ Uploading(r)
  /\ \E f \in Fresh :
       /\ disk' = disk \cup {f}
       /\ Set(r, [req[r] EXCEPT !.hand = f, !.made = @ \cup {f}])
  /\ UNCHANGED <<rows, metas, orphaned, broken>>

StoreFails(r) ==
  /\ Uploading(r) /\ req[r].op # "upload" /\ "store" \in Faults
  /\ PersistFails(r, {})

\* A file that cannot be moved keeps its temporary name in the field.
MoveFails(r) ==
  /\ Uploading(r) /\ req[r].op = "upload" /\ "move" \in Faults
  /\ \E f \in Fresh :
       /\ Set(r, [req[r] EXCEPT !.want = @ \cup {f}, !.made = @ \cup {f}, !.calls = OneLess(@),
                                !.bare = IF orm = "mongoose" THEN @ ELSE @ \cup {f}])
       /\ broken' = broken \cup {f}
  /\ UNCHANGED <<rows, disk, metas, orphaned>>

\* fileMetaService.save, and the note of the name
SaveMeta(r) ==
  /\ req[r].pc = "storing" /\ req[r].hand # Null
  /\ metas' = metas \cup {req[r].hand}
  /\ Set(r, [req[r] EXCEPT !.stored = @ \cup {req[r].hand}, !.hand = Null, !.calls = OneLess(@)])
  /\ UNCHANGED <<rows, disk, orphaned, broken>>

SaveMetaFails(r) ==
  /\ req[r].pc = "storing" /\ req[r].hand # Null /\ "meta" \in Faults
  /\ PersistFails(r, {req[r].hand})

\* An upload that does not validate, or a name that is not of this resource: nothing
\* is stored any more, and the call throws.
Reject(r) ==
  /\ req[r].pc = "storing" /\ req[r].hand = Null
  /\ Head(req[r].calls) > 0 \/ ~NamesValid(req[r])
  /\ PersistFails(r, {})

\* The call returns, to the next embedded document or to the service.
Persisted(r) ==
  LET q == req[r] IN
  /\ q.pc = "storing" /\ q.hand = Null /\ Head(q.calls) = 0 /\ NamesValid(q)
  /\ Set(r, [q EXCEPT !.pc = IF Len(q.calls) = 1 THEN "saving" ELSE "storing",
                      !.calls = IF Len(@) = 1 THEN @ ELSE Tail(@),
                      !.earlier = @ \cup q.stored, !.stored = {}])
  /\ UNCHANGED <<rows, disk, metas, orphaned, broken>>

(***************************************************************************)
(* The document                                                            *)
(***************************************************************************)
Inserts(d, q) ==
  /\ rows[d].state = "new"
  /\ rows' = [rows EXCEPT ![d] = [state |-> "live", files |-> NewValue(q)]]
  /\ UNCHANGED <<disk, metas, orphaned, broken>>

Insert(r) ==
  /\ req[r].pc = "saving" /\ req[r].op = "create" /\ orm = "mongoose"
  /\ \E d \in Doc : Inserts(d, req[r])
  /\ Set(r, Idle)

\* With TypeORM create goes on, as update does.
InsertRow(r) ==
  /\ req[r].pc = "saving" /\ req[r].op = "create" /\ orm = "typeorm"
  /\ \E d \in Doc :
       Inserts(d, req[r]) /\ Set(r, [req[r] EXCEPT !.pc = "saved", !.doc = d])

\* Mutant: the last save wins.
MaySaveLast(q) == Live(q.doc)

\* Not so when the document is gone, nor when the value is an array and another has
\* been set since.
MaySave(q) == Live(q.doc) /\ ~(IsArray /\ NewValue(q) # Null /\ q.stale)

\* Nor when a name refers to metadata that is gone, or another row has it.
MaySaveRow(q) ==
  /\ Names(NewValue(q)) \ q.bare \subseteq metas
  /\ \A d \in Doc \ {q.doc} : Names(rows[d].files) \cap Names(NewValue(q)) = {}

\* What a save writes, and which files and names nobody looks after since
Write(q) ==
  LET new == NewValue(q)
      old == Names(rows[q.doc].files)
  IN /\ rows' = [rows EXCEPT ![q.doc] = [state |-> "live", files |-> new]]
     /\ orphaned' = orphaned \cup (old \ (Names(q.found) \cup Names(new)))
                      \cup (IF IsArray /\ new = Null THEN Names(q.found) ELSE {})
     /\ broken' = broken \cup (Names(q.want) \ old)
     /\ UNCHANGED <<disk, metas>>

\* resource.save(): the requests that have read the document are outdated when it sets
\* an array.
Save(r) ==
  LET q == req[r] IN
  /\ q.pc = "saving" /\ q.op \in {"update", "upload"}
  /\ orm = "mongoose" /\ MaySave(q)
  /\ Write(q)
  /\ req' = [p \in Request |->
               IF p = r THEN [q EXCEPT !.pc = "saved"]
               ELSE [req[p] EXCEPT !.stale = @ \/ (/\ IsArray /\ NewValue(q) # Null
                                                   /\ req[p].doc = q.doc)]]

\* repository.save(resource)
SaveRow(r) ==
  /\ req[r].pc = "saving" /\ req[r].op \in {"update", "upload"}
  /\ orm = "typeorm" /\ MaySaveRow(req[r])
  /\ Write(req[r])
  /\ Set(r, [req[r] EXCEPT !.pc = "saved"])

\* The catch of create and update deletes what persistResourceFiles returned.
Undo(r) ==
  /\ Set(r, Undoing(req[r], req[r].stored \cup req[r].earlier))
  /\ UNCHANGED <<rows, disk, metas>>

SaveFails(r) ==
  /\ req[r].pc = "saving"
  /\ \/ "row" \in Faults
     \/ /\ req[r].op # "create"
        /\ ~(IF orm = "mongoose" THEN MaySave(req[r]) ELSE MaySaveRow(req[r]))
  /\ Undo(r)
  /\ UNCHANGED <<orphaned, broken>>

\* updateFilesMetaResourceIds of TypeORM, which throws when it does not find the metadata
FindsMetadata(q) == orm = "typeorm" => q.stored \cup q.earlier \subseteq metas

\* resourceFilesToDelete, and what it queries of virtual references, after a save
Collect(r) ==
  /\ req[r].pc = "saved" /\ FindsMetadata(req[r])
  /\ Set(r, Purging(FilesToDelete(req[r].found, NewValue(req[r]))))
  /\ UNCHANGED <<rows, disk, metas, orphaned, broken>>

\* When it fails, the same catch deletes the files the document now names.
CollectFails(r) ==
  /\ req[r].pc = "saved" /\ ("after" \in Faults \/ ~FindsMetadata(req[r]))
  /\ Undo(r)
  /\ orphaned' = orphaned \cup Names(req[r].found)
  /\ broken' = broken \cup req[r].stored \cup req[r].earlier

Removes(q) ==
  /\ rows' = [rows EXCEPT ![q.doc] = [state |-> "gone", files |-> Null]]
  /\ orphaned' = orphaned \cup (Names(rows[q.doc].files) \ Names(q.found))
  /\ UNCHANGED <<disk, metas, broken>>

\* deleteOne, outside of the session whose transaction surrounds it
Remove(r) ==
  /\ req[r].pc = "removing" /\ orm = "mongoose"
  /\ Removes(req[r])
  /\ Set(r, [req[r] EXCEPT !.pc = "removed"])

\* repository.remove, once the files to delete are collected
RemoveRow(r) ==
  /\ req[r].pc = "removing" /\ orm = "typeorm"
  /\ Removes(req[r])
  /\ Set(r, Purging(Names(req[r].found)))

CollectRemoved(r) ==
  /\ req[r].pc = "removed"
  /\ Set(r, Purging(Names(req[r].found)))
  /\ UNCHANGED <<rows, disk, metas, orphaned, broken>>

\* The delete is refused, or fails afterwards: abortTransaction brings nothing back.
DeleteFails(r) ==
  /\ \/ /\ req[r].pc = "removing" /\ "row" \in Faults
        /\ UNCHANGED orphaned
     \/ /\ req[r].pc = "removed" /\ "after" \in Faults
        /\ orphaned' = orphaned \cup Names(req[r].found)
  /\ Set(r, Idle)
  /\ UNCHANGED <<rows, disk, metas, broken>>

(***************************************************************************)
(* deleteFileArray                                                         *)
(***************************************************************************)
Deleting(r) == req[r].pc \in {"undoing", "purging"} /\ req[r].hand = Null

\* storageAdapter.delete: it deletes the file; or finds none; or fails, with the file
\* still there, or, in removeEmptyDirectories, when it is gone.  The metadata goes only
\* in the first case.
Unlink(r) ==
  /\ Deleting(r)
  /\ \E f \in req[r].doomed :
       \/ /\ f \in disk
          /\ disk' = disk \ {f}
          /\ Set(r, [req[r] EXCEPT !.doomed = @ \ {f}, !.hand = f])
          /\ UNCHANGED orphaned
       \/ /\ f \notin disk \/ "unlink" \in Faults
          /\ Set(r, [req[r] EXCEPT !.doomed = @ \ {f}])
          /\ \/ disk' = disk \ {f} /\ UNCHANGED orphaned
             \/ UNCHANGED disk /\ orphaned' = orphaned \cup ({f} \cap disk)
  /\ UNCHANGED <<rows, metas, broken>>

\* fileMetaService.delete, which swallows its errors
Forgets(r, refused) ==
  /\ req[r].pc \in {"undoing", "purging"} /\ req[r].hand # Null
  /\ \/ ~refused /\ metas' = metas \ {req[r].hand}
     \/ ("meta" \in Faults \/ refused) /\ UNCHANGED metas
  /\ Set(r, [req[r] EXCEPT !.hand = Null])
  /\ UNCHANGED <<rows, disk, orphaned, broken>>

ForgetMeta(r) == orm = "mongoose" /\ Forgets(r, FALSE)

\* The row of the name would go with the metadata, and a document may refer to it.
ForgetRow(r) == orm = "typeorm" /\ Forgets(r, req[r].hand \in Referenced)

Finish(r) ==
  /\ Deleting(r) /\ req[r].doomed = {}
  /\ Set(r, Idle)
  /\ UNCHANGED <<rows, disk, metas, orphaned, broken>>

\* The process dies, and its requests with it.
Crash ==
  /\ "crash" \in Faults
  /\ orphaned' = orphaned \cup UNION {InHands(req[r]) : r \in Request}
  /\ req' = [r \in Request |-> Idle]
  /\ UNCHANGED <<rows, disk, metas, broken>>

-----------------------------------------------------------------------------
Init ==
  /\ orm \in Orms
  /\ rows = [d \in Doc |-> [state |-> "new", files |-> Null]]
  /\ disk = {} /\ metas = {}
  /\ req = [r \in Request |-> Idle]
  /\ orphaned = {} /\ broken = {}

Arrive(r) == Create(r) \/ \E d \in Doc : Update(r, d) \/ Upload(r, d) \/ Delete(r, d)

Persist(r) ==
  \/ Store(r) \/ StoreFails(r) \/ MoveFails(r)
  \/ SaveMeta(r) \/ SaveMetaFails(r)
  \/ Reject(r) \/ Persisted(r)

Change(r) ==
  \/ Insert(r) \/ InsertRow(r) \/ Save(r) \/ SaveRow(r) \/ SaveFails(r)
  \/ Collect(r) \/ CollectFails(r)
  \/ Remove(r) \/ RemoveRow(r) \/ CollectRemoved(r) \/ DeleteFails(r)

CleanUp(r) == Unlink(r) \/ ForgetMeta(r) \/ ForgetRow(r) \/ Finish(r)

Next ==
  /\ Crash \/ \E r \in Request : Arrive(r) \/ Persist(r) \/ Change(r) \/ CleanUp(r)
  /\ UNCHANGED orm

Spec == Init /\ [][Next]_vars

-----------------------------------------------------------------------------
\* A file that a live document names is in the storage and has its metadata, whatever
\* requests overlap, however they fail and wherever the process dies.  (In a field of
\* an array that is never null, and while nothing fails after a save: see below.)
NamesHaveFiles ==
  \A d \in Doc : Names(rows[d].files) \subseteq disk \cap metas

\* Else a document names a file that is not there only where the code itself writes a
\* name without a file to last: a file it could not move, the files its catch deletes
\* after the save, a name that a slower save brings back.
MissingFilesAreExplained ==
  \A d \in Doc : Names(rows[d].files) \subseteq (disk \cap metas) \cup broken

\* A file in the storage is named by a document or is about to be named or deleted by
\* a live request, unless it was left behind at one of the places that leave files:
\* no other interleaving or failure of create, update, upload and delete leaks a file.
FilesAreAccountedFor ==
  disk \subseteq Referenced \cup orphaned \cup UNION {InHands(req[r]) : r \in Request}

\* No two documents name the same file: what one request deletes with its document,
\* no other document needs ("Only file names from this resource and field property
\* can be used", file-manager.ts:341).
FilesBelongToOneDocument ==
  \A d, e \in Doc : d # e => Names(rows[d].files) \cap Names(rows[e].files) = {}

\* "Remove all recently stored files if error occurs" (file-manager.ts:385): when the
\* cleanup of a failed request is over, none of the files it stored is left.
ErrorsLeaveNoFiles ==
  [][\A r \in Request :
       req[r].pc = "undoing" /\ req'[r].pc = "idle" => req[r].made \cap disk' = {}]_vars
=============================================================================
