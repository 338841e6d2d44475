------------------------------ MODULE Uploads -------------------------------
(***************************************************************************)
(* upload and unlink of ResourceController, for one document with several  *)
(* file fields.  multer has put the files of an upload into the temporary  *)
(* directory; the service moves them to the storage and adds them to the   *)
(* document (FilesUtil.mergeFileArrays, FileManager.persistFiles), and the *)
(* handler answers with their names (createFilesResponseDto) and empties   *)
(* the temporary directory (removeTemporaryFiles).  unlink finds the       *)
(* document, takes the names out of what it has found                      *)
(* (transformDeleteFilesRequest), and calls update, which finds it again.  *)
(*                                                                         *)
(* A file keeps its number when it is moved.  What can fail between a file *)
(* and its metadata is in ResourceFiles.                                   *)
(***************************************************************************)
EXTENDS Naturals, Sequences, SequencesExt, FiniteSets, Selections

CONSTANTS
  Client,   \* requests
  Fields,   \* the file fields, in the order in which the model declares them
  Many,     \* those of several files
  Upload,   \* files: numbers
  MaxCount  \* maxCount of a field of several files

ASSUME UploadsAssumption == Upload \subseteq Nat \ {0} /\ IsFiniteSet(Upload)

VARIABLES
  library,  \* "mongoose" or "typeorm"
  document, \* document[f]: the names in field f
  temp,     \* the files in the temporary directory
  disk,     \* the files in the storage
  metas,    \* the files that have metadata, in the order of its creation
  unmoved,  \* history: files that could not be moved, which have no metadata
  client    \* the requests

uploadsVars == <<library, document, temp, disk, metas, unmoved, client>>

FileField == ToSet(Fields)
Nothing == [f \in FileField |-> <<>>]
Named(value) == UNION {ToSet(value[f]) : f \in FileField}

\* items: the files that are sent or asked for, with their fields; tried: how many were moved or not;
\* seen, found: the document at the find of unlink and of update; value: what update writes;
\* stale: another request has set an array since update found the document; crossed: any field.
Idle ==
  [pc |-> "idle", op |-> "none", items |-> <<>>, tried |-> 0, seen |-> Nothing, found |-> Nothing, value |-> Nothing,
   moved |-> {}, doomed |-> {}, hand |-> {}, stale |-> FALSE, crossed |-> FALSE, end |-> "none", answer |-> Nothing]

UploadsInit ==
  /\ library = "none" /\ document = Nothing
  /\ temp = {} /\ disk = {} /\ metas = <<>> /\ unmoved = {}
  /\ client = [c \in Client |-> Idle]

\* The document, of which all files are there
Attach(orm, value, order) ==
  /\ library = "none"
  /\ library' = orm /\ document' = value
  /\ disk' = Named(value) /\ metas' = order
  /\ UNCHANGED <<temp, unmoved, client>>

Becomes(c, q) == client' = [client EXCEPT ![c] = q]

\* findResource of update, and the copy of what it has found
Rereads(q) == [q EXCEPT !.found = document, !.stale = FALSE, !.crossed = FALSE]

Of(q, f) == At([i \in DOMAIN q.items |-> q.items[i].file], {i \in DOMAIN q.items : q.items[i].field = f})

Items(q) == {q.items[i].file : i \in DOMAIN q.items}

\* A name of multer is one that nobody knows.
Known ==
  Named(document) \cup disk \cup ToSet(metas)
    \cup UNION {Items(client[c]) \cup Named(client[c].seen) \cup Named(client[c].found) \cup Named(client[c].value) :
                 c \in Client}
New == At([n \in Upload |-> n], Upload \ Known)

(***************************************************************************)
(* upload                                                                  *)
(***************************************************************************)
\* The interceptor stores the files.
ReceiveFiles(c, fields) ==
  LET items == [i \in DOMAIN fields |-> [field |-> fields[i], file |-> New[i]]] IN
  /\ client[c].pc = "idle" /\ Len(fields) <= Len(New)
  /\ temp' = temp \cup {items[i].file : i \in DOMAIN items}
  /\ Becomes(c, [Idle EXCEPT !.pc = "received", !.op = "upload", !.items = items])
  /\ UNCHANGED <<library, document, disk, metas, unmoved>>

\* The pipe of the id comes after the interceptor, and before the handler.
RefuseId(c) ==
  /\ client[c].pc = "received" /\ library = "typeorm"
  /\ Becomes(c, [client[c] EXCEPT !.pc = "over", !.end = "no id"])
  /\ UNCHANGED <<library, document, temp, disk, metas, unmoved>>

\* createFilesUpdateDto, or the validation after it, throws.
RefuseFiles(c) ==
  /\ client[c].pc = "received"
  /\ Becomes(c, [client[c] EXCEPT !.pc = "cleaning", !.end = "refused"])
  /\ UNCHANGED <<library, document, temp, disk, metas, unmoved>>

\* Mutant: the files of the upload take the place of those that were there.
MergedOver(current, resource) == resource

\* mergeFileArrays: also in a field that the upload does not touch, where both are the same
Merged(current, resource) ==
  [f \in FileField |-> IF f \in Many /\ current[f] # <<>> THEN current[f] \o resource[f] ELSE resource[f]]

FindForUpload(c) ==
  LET resource == [f \in FileField |-> IF Of(client[c], f) # <<>> THEN Of(client[c], f) ELSE document[f]]
  IN /\ client[c].pc = "received"
     /\ Becomes(c, [Rereads(client[c]) EXCEPT !.pc = "moving", !.value = Merged(document, resource)])
     /\ UNCHANGED <<library, document, temp, disk, metas, unmoved>>

\* persistFiles goes on after an error, but moves nothing any more.
TooMany(q, fields) == \E i \in DOMAIN fields : fields[i] \in Many /\ Len(q.value[fields[i]]) > MaxCount
Before(f) == SubSeq(Fields, 1, CHOOSE i \in DOMAIN Fields : Fields[i] = f)
Moving(q) == q.pc = "moving" /\ q.tried < Len(q.items) /\ ~TooMany(q, Before(q.items[q.tried + 1].field))

MoveFromTemp(c) ==
  LET q == client[c]
      file == q.items[q.tried + 1].file
  IN /\ Moving(q)
     /\ temp' = temp \ {file}
     /\ disk' = disk \cup {file}
     /\ metas' = Append(metas, file)
     /\ Becomes(c, [q EXCEPT !.tried = @ + 1, !.moved = @ \cup {file}])
     /\ UNCHANGED <<library, document, unmoved>>

\* moveFromTemp returns null, and the field keeps the temporary name.
MoveFromTempFails(c) ==
  /\ Moving(client[c])
  /\ unmoved' = unmoved \cup {client[c].items[client[c].tried + 1].file}
  /\ Becomes(c, [client[c] EXCEPT !.tried = @ + 1])
  /\ UNCHANGED <<library, document, temp, disk, metas>>

Undoing(q) == [q EXCEPT !.pc = "undoing", !.doomed = q.moved, !.end = "failed"]

Persist(c) ==
  LET q == client[c] IN
  /\ q.pc = "moving" /\ ~Moving(q)
  /\ Becomes(c, IF TooMany(q, Fields) THEN Undoing(q) ELSE [q EXCEPT !.pc = "saving"])
  /\ UNCHANGED <<library, document, temp, disk, metas, unmoved>>

(***************************************************************************)
(* unlink                                                                  *)
(***************************************************************************)
AskUnlink(c, items) ==
  /\ client[c].pc = "idle"
  /\ Becomes(c, [Idle EXCEPT !.pc = "asked", !.op = "unlink", !.items = items])
  /\ UNCHANGED <<library, document, temp, disk, metas, unmoved>>

\* How often a name is among the first of them
Times(name, names, end) == Cardinality({i \in DOMAIN names \cap 1 .. end : names[i] = name})
\* transformDeleteFilesRequest takes each name out once, or null for what is one file.
WithoutOnce(names, gone) ==
  At(names, {i \in DOMAIN names : Times(names[i], names, i) > Times(names[i], gone, Len(gone))})

FindForUnlink(c) ==
  LET q == client[c] IN
  /\ q.pc = "asked"
  /\ Becomes(c, IF \E i \in DOMAIN q.items : q.items[i].file \notin ToSet(document[q.items[i].field])
                  THEN [q EXCEPT !.pc = "over", !.end = "refused"]
                  ELSE [q EXCEPT !.pc = "updating", !.seen = document,
                                 !.value = [f \in FileField |-> WithoutOnce(document[f], Of(q, f))]])
  /\ UNCHANGED <<library, document, temp, disk, metas, unmoved>>

\* Only names of the document that update has found are accepted.
NamesKnown(q) == \A f \in Many : Of(q, f) # <<>> => ToSet(q.value[f]) \subseteq ToSet(document[f])

FindForUpdate(c) ==
  LET q == client[c] IN
  /\ q.pc = "updating"
  /\ Becomes(c, IF NamesKnown(q)
                  THEN [Rereads(q) EXCEPT !.pc = "saving",
                                 !.value = [f \in FileField |-> IF Of(q, f) # <<>> THEN @[f] ELSE document[f]]]
                  ELSE [q EXCEPT !.pc = "over", !.end = "refused"])
  /\ UNCHANGED <<library, document, temp, disk, metas, unmoved>>

(***************************************************************************)
(* update                                                                  *)
(***************************************************************************)
\* The fields that mongoose finds modified
Modified(q) == {f \in FileField : q.value[f] # q.found[f]}

Once(names) == At(names, {i \in DOMAIN names : Times(names[i], names, i) = 1})

\* mongoose sets no array that another has set since; TypeORM inserts what the tables miss, for which
\* the metadata has to be there, and a name only once.
MaySave(q) ==
  IF library = "mongoose"
    THEN q.stale => Modified(q) \cap Many = {}
    ELSE \A f \in FileField : \A i \in DOMAIN q.value[f] :
           q.value[f][i] \notin ToSet(document[f]) =>
             /\ q.value[f][i] \in ToSet(metas) \cup unmoved
             /\ \A j \in DOMAIN q.value[f] \ {i} : q.value[f][j] # q.value[f][i]

\* getFilesToDelete
Doomed(q) ==
  UNION {IF f \in Many \/ q.value[f] # q.found[f] THEN ToSet(q.found[f]) \ ToSet(q.value[f]) ELSE {} : f \in FileField}

\* resource.save() writes the fields that have changed, repository.save(resource) all.
Save(c) ==
  LET q == client[c] IN
  /\ q.pc = "saving" /\ MaySave(q)
  /\ document' = [f \in FileField |-> IF library = "typeorm" THEN Once(q.value[f])
                                  ELSE IF f \in Modified(q) THEN q.value[f] ELSE document[f]]
  /\ client' = [p \in Client |->
       IF p = c THEN [q EXCEPT !.pc = "purging", !.doomed = Doomed(q)]
       ELSE [client[p] EXCEPT !.crossed = TRUE, !.stale = @ \/ Modified(q) \cap Many # {}]]
  /\ UNCHANGED <<library, temp, disk, metas, unmoved>>

SaveFails(c) ==
  /\ client[c].pc = "saving"
  /\ Becomes(c, Undoing(client[c]))
  /\ UNCHANGED <<library, document, temp, disk, metas, unmoved>>

\* deleteFileArray: the file, and then its metadata
Erase(c) ==
  LET q == client[c] IN
  /\ q.pc \in {"purging", "undoing"} /\ q.hand = {}
  /\ \E file \in q.doomed :
       /\ disk' = disk \ {file}
       /\ Becomes(c, [q EXCEPT !.doomed = @ \ {file}, !.hand = {file} \cap disk])
  /\ UNCHANGED <<library, document, temp, metas, unmoved>>

Forget(c) ==
  LET q == client[c] IN
  /\ q.hand # {}
  /\ metas' = Those(metas, ToSet(metas) \ q.hand)
  /\ Becomes(c, [q EXCEPT !.hand = {}])
  /\ UNCHANGED <<library, document, temp, disk, unmoved>>

\* By the creation of their metadata; those without come last.
ByCreation(names) ==
  Those(metas, ToSet(names)) \o Those(names, ToSet(names) \ ToSet(metas))

Latest(n, names) == SubSeq(names, IF n < Len(names) THEN Len(names) - n + 1 ELSE 1, Len(names))

\* createFilesResponseDto, of what the service returns
FilesResponse(q, data) ==
  [f \in FileField |-> IF Of(q, f) = <<>> THEN <<>>
                     ELSE IF f \in Many THEN Latest(Len(Of(q, f)), ByCreation(data[f])) ELSE data[f]]

Purged(c) ==
  LET q == client[c] IN
  /\ q.pc \in {"purging", "undoing"} /\ q.doomed = {} /\ q.hand = {}
  /\ Becomes(c, IF q.pc = "purging"
       THEN [q EXCEPT !.pc = IF q.op = "upload" THEN "cleaning" ELSE "over", !.end = "done",
                      !.answer = FilesResponse(q, IF library = "mongoose" THEN q.value ELSE document)]
       ELSE [q EXCEPT !.pc = IF q.op = "upload" THEN "cleaning" ELSE "over"])
  /\ UNCHANGED <<library, document, temp, disk, metas, unmoved>>

\* Mutant: only a request that succeeds cleans up.
CleanDone(c) ==
  /\ client[c].pc = "cleaning"
  /\ temp' = IF client[c].end = "done" THEN temp \ Items(client[c]) ELSE temp
  /\ Becomes(c, [client[c] EXCEPT !.pc = "over"])
  /\ UNCHANGED <<library, document, disk, metas, unmoved>>

\* removeTemporaryFiles, in the finally of the handler
Clean(c) ==
  /\ client[c].pc = "cleaning"
  /\ temp' = temp \ Items(client[c])
  /\ Becomes(c, [client[c] EXCEPT !.pc = "over"])
  /\ UNCHANGED <<library, document, disk, metas, unmoved>>

\* The files that an upload sends, and the names that an unlink asks for
Arrive(c, sendings, askings) ==
  \/ \E fields \in sendings : ReceiveFiles(c, fields)
  \/ \E fields \in askings :
       \E names \in {n \in [DOMAIN fields -> Named(document)] : IsInjective(n)} :
         /\ \A i \in DOMAIN fields : names[i] \in ToSet(document[fields[i]])
         /\ AskUnlink(c, [i \in DOMAIN fields |-> [field |-> fields[i], file |-> names[i]]])

UploadsStep(c) ==
  \/ RefuseId(c) \/ RefuseFiles(c) \/ FindForUpload(c) \/ MoveFromTemp(c) \/ MoveFromTempFails(c)
  \/ Persist(c)
  \/ FindForUnlink(c) \/ FindForUpdate(c)
  \/ Save(c) \/ SaveFails(c) \/ Erase(c) \/ Forget(c) \/ Purged(c) \/ Clean(c)

-----------------------------------------------------------------------------
Twice(names, name) == Cardinality({i \in DOMAIN names : names[i] = name}) > 1

(* An upload that is over has left nothing in the temporary directory, unless the pipe of the id has  *)
(* refused it (resource-controller.helper.ts:605), and its answer has the files that it sent, unless  *)
(* one of the field has no metadata (any more), or TypeORM has read what another request has written  *)
(* since.  The names that an unlink has deleted are not in the document, unless another wrote it after *)
(* the find of update, and not in the storage, unless another had taken them out of the document       *)
(* before; and neither, unless an upload to another field has doubled them (files.util.ts:221).        *)
FileAnswersHold ==
  \A c \in Client :
    LET q == client[c] IN
    /\ q.pc = "over" /\ q.op = "upload" => q.end = "no id" \/ Items(q) \cap temp = {}
    /\ q.end = "done" /\ q.op = "upload" =>
         \A f \in FileField :
           \/ q.answer[f] = Of(q, f)
           \/ ~(ToSet(q.value[f]) \subseteq ToSet(metas))
           \/ library = "typeorm" /\ q.crossed
    /\ q.end = "done" /\ q.op = "unlink" =>
         \A i \in DOMAIN q.items :
           LET item == q.items[i] IN
           \/ Twice(q.seen[item.field], item.file)
           \/ /\ item.file \in ToSet(document[item.field]) => q.crossed
              /\ item.file \in disk => item.file \notin ToSet(q.found[item.field])

\* What makes a request take a name out of a field
Takes(c, f, file) ==
  LET q == client[c] IN
  /\ q.pc = "saving" /\ client'[c].pc = "purging"
  /\ \/ q.op = "unlink" /\ file \in ToSet(Of(q, f))
     \/ q.op = "upload" /\ f \notin Many /\ Of(q, f) # <<>>
     \/ q.op = "unlink" /\ Of(q, f) # <<>> /\ file \notin ToSet(q.seen[f])
     \/ library = "typeorm" /\ q.crossed /\ file \notin ToSet(q.found[f])

(* A file leaves a field of the document because a request asks for that, or sends another for the   *)
(* one that the field has; or because the request had read the document before the file was there:    *)
(* an unlink at its first find (resource-controller.helper.ts:632), and with TypeORM any of them.     *)
FilesLeaveForAReason ==
  [][\A f \in FileField : \A file \in ToSet(document[f]) \ ToSet(document'[f]) :
       \E c \in Client : Takes(c, f, file)]_uploadsVars
=============================================================================
