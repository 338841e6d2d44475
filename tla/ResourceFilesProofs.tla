------------------------ MODULE ResourceFilesProofs -------------------------
(***************************************************************************)
(* Proofs about ResourceFiles, for any number of requests, documents and   *)
(* files, for one file or an array of them, with both libraries and with   *)
(* any of the faults.                                                      *)
(***************************************************************************)
EXTENDS ResourceFiles, SequenceTheorems, TLAPS

(***************************************************************************)
(* Types                                                                   *)
(***************************************************************************)
PC == {"idle", "storing", "saving", "saved", "removing", "removed", "undoing", "purging"}

Op == {"none", "create", "update", "upload", "delete"}

Uploads == Seq(Nat) \ {<<>>}

RequestState ==
  [pc : PC, op : Op, doc : {Null} \cup Doc, found : Value, stale : BOOLEAN, want : Value,
   calls : Uploads, hand : {Null} \cup File, stored : SUBSET File, earlier : SUBSET File,
   doomed : SUBSET File, made : SUBSET File, bare : SUBSET File]

Row == [state : {"new", "live", "gone"}, files : Value]

ResourceFilesTypeOK ==
  /\ orm \in Orms
  /\ rows \in [Doc -> Row]
  /\ disk \subseteq File /\ metas \subseteq File
  /\ req \in [Request -> RequestState]
  /\ orphaned \subseteq File /\ broken \subseteq File

(***************************************************************************)
(* What a request has in its hands at each step                            *)
(***************************************************************************)

\* A request that persists files has stored none when it sets the field to null.
NullStoresNothing(q) ==
  q.want = Null => /\ NoUploads(q.calls) /\ q.hand = Null
                   /\ q.stored = {} /\ q.earlier = {}

\* A create starts without files; what changes a document knows which.
KnowsItsDocument(q) ==
  /\ q.op \in {"create", "update", "upload"}
  /\ q.op = "create" => Names(q.found) = {} /\ Names(q.want) = {}
  /\ q.op # "create" => q.doc \in Doc

InOrder(q) ==
  /\ q.pc = "idle" => q = Idle
  /\ q.pc \in {"storing", "saving"} =>
       q.doomed = {} /\ KnowsItsDocument(q) /\ NullStoresNothing(q)
  /\ q.pc = "saved" => q.doomed = {} /\ q.doc \in Doc /\ NullStoresNothing(q)
  /\ q.pc \in {"removing", "removed"} =>
       q.doomed = {} /\ q.doc \in Doc /\ q.stored = {} /\ q.earlier = {}
  /\ q.pc = "storing" /\ q.hand # Null => Head(q.calls) > 0
  /\ q.pc \in {"saving", "saved", "removing", "removed"} => q.hand = Null
  /\ q.pc \in {"undoing", "purging"} => q.stored = {} /\ q.earlier = {}

\* Only a live document has files.
OnlyLiveHaveFiles == \A d \in Doc : ~Live(d) => rows[d].files = Null

Orderly == OnlyLiveHaveFiles /\ \A r \in Request : InOrder(req[r])

(***************************************************************************)
(* Files in the storage                                                    *)
(***************************************************************************)

\* Of the files in its hands, those that only the request will yet name or delete: what
\* it has saved, another request may have replaced since.
Held(q) ==
  CASE q.pc = "saved" -> FilesToDelete(q.found, NewValue(q))
    [] q.pc = "removed" -> Names(q.found)
    [] OTHER -> ({q.hand} \ {Null}) \cup q.stored \cup q.earlier \cup q.doomed

\* A file is in the hands of the request that deletes it while its metadata is left.
UnlinkedAreGone ==
  \A r \in Request : req[r].pc \in {"undoing", "purging"} => req[r].hand \notin disk

EveryFileIsHeld ==
  disk \subseteq Referenced \cup orphaned \cup UNION {Held(req[r]) : r \in Request}

AccountInv == ResourceFilesTypeOK /\ Orderly /\ UnlinkedAreGone /\ EveryFileIsHeld

(***************************************************************************)
(* Names in documents                                                      *)
(***************************************************************************)

\* The files that a request has stored, and no document names yet
Own(q) ==
  IF q.pc \in {"storing", "saving"} THEN ({q.hand} \ {Null}) \cup q.stored \cup q.earlier ELSE {}

\* The files that a request will delete
Condemned(q) ==
  CASE q.pc = "saved" -> FilesToDelete(q.found, NewValue(q))
    [] q.pc = "removed" -> Names(q.found)
    [] q.pc \in {"undoing", "purging"} -> ({q.hand} \ {Null}) \cup q.doomed
    [] OTHER -> {}

\* All of these but the names written without a file to last:
\* the files of a document are its own,
RowsAreApart ==
  \A d, e \in Doc : d # e => Names(rows[d].files) \cap Names(rows[e].files) \subseteq broken

\* what a request has read of its document, no other document names,
FoundIsOfItsDocument ==
  \A r \in Request, e \in Doc :
    e # req[r].doc => Names(req[r].found) \cap Names(rows[e].files) \subseteq broken

\* what a request has stored, no document names,
OwnIsNew ==
  \A r \in Request, d \in Doc : Own(req[r]) \cap Names(rows[d].files) \subseteq broken

\* and no other request has, has found or deletes,
OwnIsApart ==
  \A r, p \in Request : r # p =>
    Own(req[r]) \cap (Own(req[p]) \cup Names(req[p].found) \cup Condemned(req[p])) \subseteq broken

\* what a request will delete, no document names,
CondemnedAreUnnamed ==
  \A r \in Request, d \in Doc : Condemned(req[r]) \cap Names(rows[d].files) \subseteq broken

\* and what a request has stored is there, with its metadata once that is noted.
OwnIsThere ==
  \A r \in Request : req[r].pc \in {"storing", "saving"} =>
    /\ {req[r].hand} \ {Null} \subseteq disk \cup broken
    /\ req[r].stored \cup req[r].earlier \subseteq (disk \cap metas) \cup broken

NamesHold ==
  /\ RowsAreApart /\ FoundIsOfItsDocument
  /\ OwnIsNew /\ OwnIsApart /\ CondemnedAreUnnamed /\ OwnIsThere
  /\ MissingFilesAreExplained

NamesInv == ResourceFilesTypeOK /\ Orderly /\ NamesHold

(***************************************************************************)
(* Arrays that are never null                                              *)
(***************************************************************************)

\* The configuration of the field and the faults of the run ResourceFilesArray
ArrayAlone ==
  /\ IsArray /\ Default = {} /\ ~Nullable
  /\ "move" \notin Faults /\ "after" \notin Faults

LiveHaveArrays == \A d \in Doc : Live(d) => rows[d].files # Null

\* The field of a request that has not been told of another save is the field of the
\* document.
FoundIsCurrent(q) ==
  q.pc \in {"storing", "saving"} /\ q.op # "create" =>
    /\ q.found # Null /\ rows[q.doc].state # "new"
    /\ Live(q.doc) /\ ~q.stale => rows[q.doc].files = q.found

\* The names a save will keep are among those it has found.
KeepsFound(q) ==
  /\ q.pc \in {"storing", "saving"} => q.want # Null
  /\ q.pc = "storing" /\ q.op = "upload" => q.want \subseteq Names(q.found)
  /\ q.pc = "saving" /\ q.op # "create" => q.want \subseteq Names(q.found)

NothingBreaks ==
  broken = {} /\ LiveHaveArrays /\ \A r \in Request : FoundIsCurrent(req[r]) /\ KeepsFound(req[r])

(***************************************************************************)
(* Files of one document                                                   *)
(***************************************************************************)

\* One file, or an array that is never null: an update of an array that was null accepts
\* any names.
KnowsItsNames == IsArray => Default = {} /\ ~Nullable

\* The names that a request has found, and those it may save, once they are valid
Claimed(q) ==
  Names(q.found) \cup
    (IF q.pc = "saving" \/ (q.pc = "storing" /\ (q.op = "upload" \/ ~IsArray)) THEN Names(q.want) ELSE {})

\* An array is never null, and a request that changes one has found one.
ArraysStand ==
  IsArray =>
    /\ \A d \in Doc : Live(d) => rows[d].files # Null
    /\ \A r \in Request : req[r].pc \in {"storing", "saving"} =>
         req[r].want # Null /\ (req[r].op # "create" => req[r].found # Null)

\* What a request claims, no other document names,
ClaimsAreOfItsDocument ==
  \A r \in Request, e \in Doc : e # req[r].doc => Claimed(req[r]) \cap Names(rows[e].files) = {}

\* and no request for another document claims,
ClaimsAreApart ==
  \A r, p \in Request : req[r].doc # req[p].doc => Claimed(req[r]) \cap Claimed(req[p]) = {}

\* and what it has stored, no document names, and no other request has or claims.
StoredAreNew ==
  /\ \A r \in Request, d \in Doc : Own(req[r]) \cap Names(rows[d].files) = {}
  /\ \A r, p \in Request : r # p => Own(req[r]) \cap (Own(req[p]) \cup Claimed(req[p])) = {}

ApartInv ==
  /\ ArraysStand /\ ClaimsAreOfItsDocument /\ ClaimsAreApart /\ StoredAreNew
  /\ FilesBelongToOneDocument

(***************************************************************************)
(* Types and order                                                         *)
(***************************************************************************)

\* The names in a field are files.
LEMMA NamesAreFiles ==
  ASSUME NEW v \in Value
  PROVE  /\ Names(v) \subseteq File
         /\ v # Null => Names(v) = v
         /\ Names(Null) = {}
  BY FieldAssumption DEF Names, Value

\* The field of the model is a value of the field.
LEMMA NewValueIsValue ==
  ASSUME NEW q \in RequestState
  PROVE  /\ NewValue(q) \in Value
         /\ NewValue(q) = Null <=> q.want = Null
         /\ q.want # Null => NewValue(q) = q.want \cup q.stored \cup q.earlier
  BY FieldAssumption DEF NewValue, RequestState, Value

\* What an update deletes are files that it has found.
LEMMA DeletesFound ==
  ASSUME NEW current \in Value, NEW new \in Value
  PROVE  FilesToDelete(current, new) \subseteq Names(current)
  BY DEF FilesToDelete

\* The uploads that are left once one is stored, or a call returns.
LEMMA UploadsLeft ==
  ASSUME NEW uploads \in Uploads
  PROVE  /\ Head(uploads) \in Nat
         /\ NoUploads(uploads) => Head(uploads) = 0
         /\ Head(uploads) > 0 => OneLess(uploads) \in Uploads
         /\ Len(uploads) # 1 => Tail(uploads) \in Uploads
         /\ NoUploads(uploads) /\ Len(uploads) # 1 => NoUploads(Tail(uploads))
  <1>1. Head(uploads) \in Nat /\ Len(uploads) \in Nat \ {0} /\ Head(uploads) = uploads[1]
    BY DEF Uploads
  <1>2. Head(uploads) > 0 => OneLess(uploads) \in Uploads
    <2> SUFFICES ASSUME Head(uploads) > 0
                 PROVE  OneLess(uploads) \in Uploads
      OBVIOUS
    <2>1. <<Head(uploads) - 1>> \in Seq(Nat) /\ Tail(uploads) \in Seq(Nat)
      BY <1>1 DEF Uploads
    <2>2. OneLess(uploads) \in Seq(Nat) /\ Len(OneLess(uploads)) > 0
      BY <2>1 DEF OneLess
    <2>3. QED
      BY <2>2 DEF Uploads
  <1>3. Len(uploads) # 1 => Tail(uploads) \in Uploads
    <2> SUFFICES ASSUME Len(uploads) # 1
                 PROVE  Tail(uploads) \in Uploads
      OBVIOUS
    <2>1. Tail(uploads) \in Seq(Nat) /\ Len(Tail(uploads)) = Len(uploads) - 1
      BY HeadTailProperties DEF Uploads
    <2>2. Len(Tail(uploads)) # 0
      BY <1>1, <2>1
    <2>3. QED
      BY <2>1, <2>2, EmptySeq DEF Uploads
  <1>4. NoUploads(uploads) /\ Len(uploads) # 1 => NoUploads(Tail(uploads))
    BY <1>1 DEF Uploads, NoUploads
  <1>5. NoUploads(uploads) => Head(uploads) = 0
    BY <1>1 DEF Uploads, NoUploads
  <1>6. QED
    BY <1>1, <1>2, <1>3, <1>4, <1>5

\* What the requests send is among the uploads.
LEMMA CallsAreUploads == Calls \subseteq Uploads /\ <<0>> \in Uploads
  BY CallsAssumption DEF Uploads

\* A request that has not come yet is in order.
LEMMA IdleIsInOrder == Idle \in RequestState /\ InOrder(Idle)
  <1>1. <<0>> \in Uploads
    BY CallsAreUploads
  <1>2. Idle \in RequestState
    BY <1>1 DEF Idle, RequestState, PC, Op, Value
  <1>3. QED
    BY <1>2 DEF Idle, InOrder

\* A request that has only files left to delete
LEMMA CleaningIsInOrder ==
  ASSUME NEW q \in RequestState, NEW names \in SUBSET File
  PROVE  /\ Undoing(q, names) \in RequestState /\ InOrder(Undoing(q, names))
         /\ Purging(names) \in RequestState /\ InOrder(Purging(names))
  BY IdleIsInOrder DEF Undoing, Purging, Idle, RequestState, PC, InOrder

\* A step of one request leaves the others as they are.
LEMMA SetKeepsOrder ==
  ASSUME ResourceFilesTypeOK, Orderly, NEW r \in Request,
         NEW q \in RequestState, InOrder(q), Set(r, q)
  PROVE  /\ req' \in [Request -> RequestState]
         /\ \A p \in Request : InOrder(req'[p])
         /\ req'[r] = q
         /\ \A p \in Request \ {r} : req'[p] = req[p]
  BY DEF ResourceFilesTypeOK, Orderly, Set

\* What a new request holds.
Arrived(r, q) ==
  /\ Set(r, q) /\ InOrder(q) /\ req[r].pc = "idle"
  /\ q.pc = IF q.op = "delete" THEN "removing" ELSE "storing"
  /\ q.op \in {"create", "update", "upload", "delete"}
  /\ q.hand = Null /\ q.stored = {} /\ q.earlier = {} /\ q.doomed = {} /\ q.stale = FALSE
  /\ q.op = "create" => q.doc = Null /\ q.found = Null /\ (q.want = Null => Default = Null)
  /\ q.op # "create" => q.doc \in Doc /\ Live(q.doc) /\ q.found = rows[q.doc].files
  /\ q.op = "update" => (q.want = Null => Nullable) /\ (IsArray \/ Names(q.want) \subseteq Names(q.found))
  /\ q.op = "upload" => q.want # Null /\ q.want = IF IsArray THEN Names(q.found) ELSE {}
  /\ UNCHANGED <<rows, disk, metas, orphaned, broken>>

\* Every request arrives with what Begin gives it.
LEMMA RequestsArrive ==
  ASSUME ResourceFilesTypeOK, Orderly, NEW r \in Request, Arrive(r)
  PROVE  \E q \in RequestState : Arrived(r, q)
  <1> DEFINE Started(kind, d, value, uploads) ==
               [Idle EXCEPT !.pc = IF kind = "delete" THEN "removing" ELSE "storing",
                            !.op = kind, !.doc = d, !.want = value, !.calls = uploads,
                            !.found = IF kind = "create" THEN Null ELSE rows[d].files,
                            !.bare = IF kind = "create" \/ orm = "mongoose" THEN {}
                                     ELSE Names(rows[d].files) \ metas]
  <1>1. ASSUME NEW kind \in Op \ {"none"}, NEW d \in {Null} \cup Doc, kind # "create" => d \in Doc,
               NEW value \in Value, NEW uploads \in Calls
        PROVE  /\ Started(kind, d, value, uploads) \in RequestState
               /\ Begin(r, kind, d, value, uploads) =>
                    /\ Set(r, Started(kind, d, value, uploads)) /\ req[r].pc = "idle"
                    /\ UNCHANGED <<rows, disk, metas, orphaned, broken>>
    <2>1. kind # "create" => rows[d].files \in Value /\ Names(rows[d].files) \ metas \subseteq File
      BY <1>1, NamesAreFiles DEF ResourceFilesTypeOK, Row
    <2>2. Null \in Value
      BY DEF Value
    <2>3. Started(kind, d, value, uploads) \in RequestState
      <3>1. uploads \in Uploads /\ Started(kind, d, value, uploads).found \in Value
        BY <1>1, <2>1, <2>2, CallsAreUploads DEF Idle
      <3>2. Started(kind, d, value, uploads).bare \in SUBSET File
        BY <1>1, <2>1 DEF Idle
      <3>3. QED
        BY <1>1, <3>1, <3>2 DEF Idle, RequestState, PC, Op
    <2>4. QED
      BY <2>3 DEF Begin, Idle
  <1> HIDE DEF Started
  <1>2. CASE Create(r)
    <2> DEFINE value(uploads) == IF NoUploads(uploads) THEN Default ELSE {}
               q(uploads) == Started("create", Null, value(uploads), uploads)
    <2>1. PICK uploads \in Calls : Begin(r, "create", Null, value(uploads), uploads)
      BY <1>2 DEF Create
    <2>2. value(uploads) \in Value /\ Names(value(uploads)) = {}
      BY FieldAssumption DEF Value, Names
    <2>3. value(uploads) = Null => Default = Null /\ NoUploads(uploads)
      BY FieldAssumption
    <2>4. q(uploads) \in RequestState /\ Set(r, q(uploads)) /\ req[r].pc = "idle"
          /\ UNCHANGED <<rows, disk, metas, orphaned, broken>>
      BY <1>1, <2>1, <2>2 DEF Op
    <2> HIDE DEF value
    <2>5. Arrived(r, q(uploads))
      BY <2>2, <2>3, <2>4
      DEF Arrived, Started, Idle, InOrder, KnowsItsDocument, NullStoresNothing, Names
    <2>6. QED
      BY <2>4, <2>5
  <1>3. ASSUME NEW d \in Doc, Update(r, d)
        PROVE  \E q \in RequestState : Arrived(r, q)
    <2>1. PICK uploads \in Calls, value \in Value :
            /\ value = Null => NoUploads(uploads) /\ Nullable
            /\ IsArray \/ value \in {Null, {}, Names(rows[d].files)}
            /\ Begin(r, "update", d, value, uploads)
      BY <1>3 DEF Update
    <2> DEFINE q == Started("update", d, value, uploads)
    <2>2. q \in RequestState /\ Set(r, q) /\ req[r].pc = "idle"
          /\ UNCHANGED <<rows, disk, metas, orphaned, broken>>
      BY <1>1, <2>1 DEF Op
    <2>3. IsArray \/ Names(value) \subseteq Names(rows[d].files)
      BY <2>1, FieldAssumption DEF Names
    <2>4. Arrived(r, q)
      BY <1>3, <2>1, <2>2, <2>3
      DEF Arrived, Started, Idle, InOrder, KnowsItsDocument, NullStoresNothing, Update
    <2>5. QED
      BY <2>2, <2>4
  <1>4. ASSUME NEW d \in Doc, Upload(r, d)
        PROVE  \E q \in RequestState : Arrived(r, q)
    <2> DEFINE value == IF IsArray THEN Names(rows[d].files) ELSE {}
    <2>1. PICK uploads \in Calls : Begin(r, "upload", d, value, uploads)
      BY <1>4 DEF Upload
    <2>2. value \in SUBSET File
      BY NamesAreFiles DEF ResourceFilesTypeOK, Row
    <2>3. value \in Value /\ value # Null
      BY <2>2, FieldAssumption DEF Value
    <2> DEFINE q == Started("upload", d, value, uploads)
    <2>4. q \in RequestState /\ Set(r, q) /\ req[r].pc = "idle"
          /\ UNCHANGED <<rows, disk, metas, orphaned, broken>>
      BY <1>1, <2>1, <2>3 DEF Op
    <2>5. Arrived(r, q)
      BY <1>4, <2>3, <2>4
      DEF Arrived, Started, Idle, InOrder, KnowsItsDocument, NullStoresNothing, Upload
    <2>6. QED
      BY <2>4, <2>5
  <1>5. ASSUME NEW d \in Doc, Delete(r, d)
        PROVE  \E q \in RequestState : Arrived(r, q)
    <2> DEFINE q == Started("delete", d, Null, <<0>>)
    <2>1. Null \in Value /\ <<0>> \in Calls
      BY CallsAssumption DEF Value
    <2>2. q \in RequestState /\ Set(r, q) /\ req[r].pc = "idle"
          /\ UNCHANGED <<rows, disk, metas, orphaned, broken>>
      BY <1>1, <1>5, <2>1 DEF Op, Delete
    <2>3. Arrived(r, q)
      BY <1>5, <2>2 DEF Arrived, Started, Idle, InOrder, Delete
    <2>4. QED
      BY <2>2, <2>3
  <1>6. QED
    BY <1>2, <1>3, <1>4, <1>5 DEF Arrive

(***************************************************************************)
(* One step of a request                                                   *)
(***************************************************************************)

\* Most actions set what one request holds.
LEMMA OneRequestSteps ==
  ASSUME ResourceFilesTypeOK, Orderly, NEW r \in Request,
         \/ Arrive(r) \/ Store(r) \/ StoreFails(r) \/ MoveFails(r) \/ SaveMeta(r)
         \/ SaveMetaFails(r) \/ Reject(r) \/ Persisted(r) \/ Insert(r) \/ InsertRow(r)
         \/ SaveRow(r) \/ SaveFails(r) \/ Collect(r) \/ CollectFails(r) \/ Remove(r)
         \/ RemoveRow(r) \/ CollectRemoved(r) \/ DeleteFails(r) \/ CleanUp(r)
  PROVE  \E q \in RequestState : Set(r, q) /\ InOrder(q)
  <1> USE DEF ResourceFilesTypeOK
  <1>a. req[r] \in RequestState /\ InOrder(req[r]) /\ req[r].calls \in Uploads
    BY DEF Orderly, RequestState
  <1>b. Idle \in RequestState /\ InOrder(Idle)
    BY IdleIsInOrder
  <1>c. /\ Head(req[r].calls) \in Nat
        /\ NoUploads(req[r].calls) => Head(req[r].calls) = 0
        /\ Head(req[r].calls) > 0 => OneLess(req[r].calls) \in Uploads
    BY <1>a, UploadsLeft
  <1>1. CASE Arrive(r)
    BY <1>1, RequestsArrive DEF Arrived
  <1>2. CASE Store(r)
    <2>1. PICK f \in File : Set(r, [req[r] EXCEPT !.hand = f, !.made = @ \cup {f}])
      BY <1>2 DEF Store, Fresh
    <2>2. req[r].want # Null
      <3>. Head(req[r].calls) > 0 /\ req[r].pc = "storing"
        BY <1>2 DEF Store, Uploading
      <3>1. ~NoUploads(req[r].calls) /\ req[r].pc = "storing"
        BY <1>c
      <3>2. req[r].want # Null
        BY <1>a, <1>c, <3>1 DEF InOrder, NullStoresNothing
      <3>3. QED
        BY <3>2
    <2> DEFINE q == [req[r] EXCEPT !.hand = f, !.made = @ \cup {f}]
    <2>3. q \in RequestState
      BY <1>a DEF RequestState
    <2>4. InOrder(q)
      BY <1>a, <1>c, <1>2, <2>2 DEF Store, Uploading, InOrder, KnowsItsDocument, NullStoresNothing, RequestState
    <2>5. QED
      BY <2>1, <2>3, <2>4
  <1>3. CASE StoreFails(r) \/ SaveMetaFails(r) \/ Reject(r) \/ SaveFails(r) \/ CollectFails(r)
    <2>1. \E names \in SUBSET File : Set(r, Undoing(req[r], names))
      BY <1>3, <1>a
      DEF StoreFails, SaveMetaFails, Reject, SaveFails, CollectFails, PersistFails, Undo, RequestState
    <2>2. QED
      BY <2>1, <1>a, CleaningIsInOrder
  <1>4. CASE MoveFails(r)
    <2>1. PICK f \in File :
            Set(r, [req[r] EXCEPT !.want = @ \cup {f}, !.made = @ \cup {f}, !.calls = OneLess(@),
                                  !.bare = IF orm = "mongoose" THEN @ ELSE @ \cup {f}])
      BY <1>4 DEF MoveFails, Fresh
    <2> DEFINE q == [req[r] EXCEPT !.want = @ \cup {f}, !.made = @ \cup {f}, !.calls = OneLess(@),
                                  !.bare = IF orm = "mongoose" THEN @ ELSE @ \cup {f}]
    <2>2. req[r].want # Null /\ OneLess(req[r].calls) \in Uploads
      <3>. Head(req[r].calls) > 0 /\ req[r].pc = "storing"
        BY <1>4 DEF MoveFails, Uploading
      <3>1. ~NoUploads(req[r].calls) /\ req[r].pc = "storing"
        BY <1>c
      <3>2. req[r].want # Null /\ OneLess(req[r].calls) \in Uploads
        BY <1>a, <1>c, <3>1, <1>4 DEF MoveFails, Uploading, InOrder, NullStoresNothing
      <3>3. QED
        BY <3>2
    <2>3. req[r].want \cup {f} \in SUBSET File
      BY <1>a, <2>2 DEF RequestState, Value
    <2>4. req[r].want \cup {f} \in Value /\ req[r].want \cup {f} # Null
      BY <2>3, FieldAssumption DEF Value
    <2>5. q \in RequestState
      BY <1>a, <2>2, <2>4 DEF RequestState
    <2>6. InOrder(q)
      BY <1>a, <1>4, <2>2, <2>4
      DEF MoveFails, Uploading, InOrder, KnowsItsDocument, NullStoresNothing, RequestState
    <2>7. QED
      BY <2>1, <2>5, <2>6
  <1>5. CASE SaveMeta(r)
    <2> DEFINE q == [req[r] EXCEPT !.stored = @ \cup {req[r].hand}, !.hand = Null, !.calls = OneLess(@)]
    <2>1. req[r].want # Null
      BY <1>a, <1>5 DEF SaveMeta, InOrder, NullStoresNothing
    <2>2. OneLess(req[r].calls) \in Uploads
      BY <1>a, <1>c, <1>5 DEF SaveMeta, InOrder
    <2>3. q \in RequestState
      BY <1>a, <1>5, <2>2 DEF SaveMeta, RequestState
    <2>4. InOrder(q)
      BY <1>a, <1>5, <2>1 DEF SaveMeta, InOrder, KnowsItsDocument, NullStoresNothing, RequestState
    <2>5. QED
      BY <1>5, <2>3, <2>4 DEF SaveMeta
  <1>6. CASE Persisted(r)
    <2> DEFINE q == [req[r] EXCEPT !.pc = IF Len(req[r].calls) = 1 THEN "saving" ELSE "storing",
                                   !.calls = IF Len(@) = 1 THEN @ ELSE Tail(@),
                                   !.earlier = @ \cup req[r].stored, !.stored = {}]
    <2>1. q.calls \in Uploads /\ (NoUploads(req[r].calls) => NoUploads(q.calls))
      BY <1>a, UploadsLeft DEF RequestState
    <2>2. q \in RequestState
      BY <1>a, <2>1 DEF RequestState, PC
    <2>3. InOrder(q)
      BY <1>a, <1>6, <2>1 DEF Persisted, InOrder, KnowsItsDocument, NullStoresNothing, RequestState
    <2>4. QED
      BY <1>6, <2>2, <2>3 DEF Persisted
  <1>7. CASE Insert(r) \/ DeleteFails(r)
    BY <1>7, <1>b DEF Insert, DeleteFails
  <1>8. CASE InsertRow(r)
    <2>1. PICK d \in Doc : Set(r, [req[r] EXCEPT !.pc = "saved", !.doc = d])
      BY <1>8 DEF InsertRow
    <2> DEFINE q == [req[r] EXCEPT !.pc = "saved", !.doc = d]
    <2>2. q \in RequestState
      BY <1>a DEF RequestState, PC
    <2>3. InOrder(q)
      BY <1>a, <1>8 DEF InsertRow, InOrder, NullStoresNothing, RequestState
    <2>4. QED
      BY <2>1, <2>2, <2>3
  <1>9. CASE SaveRow(r)
    <2> DEFINE q == [req[r] EXCEPT !.pc = "saved"]
    <2>2. q \in RequestState
      BY <1>a DEF RequestState, PC
    <2>3. InOrder(q)
      BY <1>a, <1>9 DEF SaveRow, InOrder, KnowsItsDocument, NullStoresNothing, RequestState
    <2>4. QED
      BY <1>9, <2>2, <2>3 DEF SaveRow
  <1>10. CASE Collect(r) \/ RemoveRow(r) \/ CollectRemoved(r)
    <2>1. NewValue(req[r]) \in Value /\ req[r].found \in Value
      BY <1>a, NewValueIsValue DEF RequestState
    <2>2. /\ Names(req[r].found) \subseteq File
          /\ FilesToDelete(req[r].found, NewValue(req[r])) \subseteq Names(req[r].found)
      BY <2>1, NamesAreFiles, DeletesFound
    <2>3. \E names \in SUBSET File : Set(r, Purging(names))
      BY <1>10, <2>2 DEF Collect, RemoveRow, CollectRemoved
    <2>4. QED
      BY <2>3, <1>a, CleaningIsInOrder
  <1>11. CASE Remove(r)
    <2> DEFINE q == [req[r] EXCEPT !.pc = "removed"]
    <2>2. q \in RequestState
      BY <1>a DEF RequestState, PC
    <2>3. InOrder(q)
      BY <1>a, <1>11 DEF Remove, InOrder, RequestState
    <2>4. QED
      BY <1>11, <2>2, <2>3 DEF Remove
  <1>12. CASE Unlink(r)
    <2>1. PICK f \in req[r].doomed :
            \/ Set(r, [req[r] EXCEPT !.doomed = @ \ {f}, !.hand = f])
            \/ Set(r, [req[r] EXCEPT !.doomed = @ \ {f}])
      BY <1>12 DEF Unlink
    <2> DEFINE q == [req[r] EXCEPT !.doomed = @ \ {f}, !.hand = f]
               left == [req[r] EXCEPT !.doomed = @ \ {f}]
    <2>2. q \in RequestState /\ left \in RequestState
      BY <1>a DEF RequestState
    <2>3. InOrder(q) /\ InOrder(left)
      BY <1>a, <1>12 DEF Unlink, Deleting, InOrder, RequestState
    <2>4. QED
      BY <2>1, <2>2, <2>3
  <1>13. CASE ForgetMeta(r) \/ ForgetRow(r)
    <2> DEFINE q == [req[r] EXCEPT !.hand = Null]
    <2>1. Set(r, q) /\ req[r].pc \in {"undoing", "purging"}
      BY <1>13 DEF ForgetMeta, ForgetRow, Forgets
    <2>2. q \in RequestState
      BY <1>a DEF RequestState
    <2>3. InOrder(q)
      BY <1>a, <2>1 DEF InOrder, RequestState
    <2>4. QED
      BY <2>1, <2>2, <2>3
  <1>14. CASE Finish(r)
    BY <1>14, <1>b DEF Finish
  <1>15. QED
    BY <1>1, <1>2, <1>3, <1>4, <1>5, <1>6, <1>7, <1>8, <1>9, <1>10, <1>11, <1>12, <1>13, <1>14
    DEF CleanUp

\* A save tells the requests that have read the document, and leaves them as they are.
LEMMA SaveTells ==
  ASSUME ResourceFilesTypeOK, Orderly, NEW r \in Request, Save(r)
  PROVE  /\ req' \in [Request -> RequestState]
         /\ \A p \in Request : InOrder(req'[p])
         /\ req'[r] = [req[r] EXCEPT !.pc = "saved"]
         /\ \A p \in Request \ {r} :
              req'[p] = [req[p] EXCEPT !.stale = @ \/ (/\ IsArray /\ NewValue(req[r]) # Null
                                                       /\ req[p].doc = req[r].doc)]
  <1> DEFINE told(p) == [req[p] EXCEPT !.stale = @ \/ (/\ IsArray /\ NewValue(req[r]) # Null
                                                       /\ req[p].doc = req[r].doc)]
             q == [req[r] EXCEPT !.pc = "saved"]
  <1>1. req[r] \in RequestState /\ InOrder(req[r]) /\ req[r].pc = "saving"
        /\ req[r].op \in {"update", "upload"}
    BY DEF ResourceFilesTypeOK, Orderly, Save
  <1>2. req' = [p \in Request |-> IF p = r THEN q ELSE told(p)]
    BY DEF Save
  <1>3. q \in RequestState /\ InOrder(q)
    BY <1>1 DEF RequestState, PC, InOrder, KnowsItsDocument, NullStoresNothing
  <1>4. ASSUME NEW p \in Request
        PROVE  told(p) \in RequestState /\ InOrder(told(p))
    <2>1. req[p] \in RequestState /\ InOrder(req[p])
      BY DEF ResourceFilesTypeOK, Orderly
    <2>2. told(p) \in RequestState
      BY <2>1 DEF RequestState
    <2>3. req[p].pc = "idle" => told(p) = Idle
      <3> SUFFICES ASSUME req[p].pc = "idle"
                   PROVE  told(p) = Idle
        OBVIOUS
      <3>1. req[p] = Idle
        BY <2>1 DEF InOrder
      <3>2. req[p].doc = Null /\ req[r].doc # Null /\ req[p].stale = FALSE
        BY <3>1, <1>1, FieldAssumption DEF Idle, InOrder, KnowsItsDocument
      <3>3. told(p) = [req[p] EXCEPT !.stale = req[p].stale]
        BY <3>2
      <3>4. \A any \in RequestState : [any EXCEPT !.stale = any.stale] = any
        BY DEF RequestState
      <3>5. QED
        BY <2>1, <3>1, <3>3, <3>4
    <2>4. InOrder(told(p))
      BY <2>1, <2>2, <2>3 DEF RequestState, InOrder, KnowsItsDocument, NullStoresNothing
    <2>5. QED
      BY <2>2, <2>4
  <1> HIDE DEF told, q
  <1>5. QED
    BY <1>2, <1>3, <1>4 DEF told, q

\* The documents are changed by an insert, a save or a removal alone.
LEMMA RowsChange ==
  ASSUME ResourceFilesTypeOK, Orderly, NEW r \in Request,
         Arrive(r) \/ Persist(r) \/ Change(r) \/ CleanUp(r)
  PROVE  \/ UNCHANGED rows
         \/ /\ Insert(r) \/ InsertRow(r)
            /\ \E d \in Doc : /\ rows[d].state = "new"
                              /\ rows' = [rows EXCEPT ![d] = [state |-> "live", files |-> NewValue(req[r])]]
         \/ /\ Save(r) \/ SaveRow(r)
            /\ rows' = [rows EXCEPT ![req[r].doc] = [state |-> "live", files |-> NewValue(req[r])]]
         \/ /\ Remove(r) \/ RemoveRow(r)
            /\ rows' = [rows EXCEPT ![req[r].doc] = [state |-> "gone", files |-> Null]]
  <1>1. CASE Arrive(r)
    BY <1>1, RequestsArrive DEF Arrived
  <1>2. CASE Persist(r)
    BY <1>2 DEF Persist, Store, StoreFails, MoveFails, SaveMeta, SaveMetaFails, Reject, Persisted, PersistFails
  <1>3. CASE Change(r)
    BY <1>3 DEF Change, Insert, InsertRow, Inserts, Save, SaveRow, Write, SaveFails, Undo, Collect,
                CollectFails, Remove, RemoveRow, Removes, CollectRemoved, DeleteFails
  <1>4. CASE CleanUp(r)
    BY <1>4 DEF CleanUp, Unlink, ForgetMeta, ForgetRow, Forgets, Finish
  <1>5. QED
    BY <1>1, <1>2, <1>3, <1>4

\* Types and order are kept.
LEMMA OrderStep ==
  ASSUME ResourceFilesTypeOK, Orderly, [Next]_vars
  PROVE  ResourceFilesTypeOK' /\ Orderly'
  <1>1. CASE UNCHANGED vars
    BY <1>1 DEF vars, ResourceFilesTypeOK, Orderly, OnlyLiveHaveFiles, Live, InOrder,
                KnowsItsDocument, NullStoresNothing
  <1>2. CASE Crash /\ UNCHANGED orm
    <2>1. req' \in [Request -> RequestState] /\ \A r \in Request : InOrder(req'[r])
      BY <1>2, IdleIsInOrder DEF Crash
    <2>2. \A r \in Request : InHands(req[r]) \subseteq File
      <3> SUFFICES ASSUME NEW r \in Request
                   PROVE  InHands(req[r]) \subseteq File
        OBVIOUS
      <3>1. req[r] \in RequestState
        BY DEF ResourceFilesTypeOK
      <3>2. Names(req[r].found) \subseteq File
        BY <3>1, NamesAreFiles DEF RequestState
      <3>3. QED
        BY <3>1, <3>2 DEF InHands, RequestState
    <2>3. orphaned' \subseteq File
      BY <1>2, <2>2 DEF Crash, ResourceFilesTypeOK
    <2>4. QED
      BY <1>2, <2>1, <2>3 DEF Crash, ResourceFilesTypeOK, Orderly, OnlyLiveHaveFiles, Live
  <1>3. ASSUME NEW r \in Request, Arrive(r) \/ Persist(r) \/ Change(r) \/ CleanUp(r), UNCHANGED orm
        PROVE  ResourceFilesTypeOK' /\ Orderly'
    <2>1. req' \in [Request -> RequestState] /\ \A p \in Request : InOrder(req'[p])
      <3>1. CASE Save(r)
        BY <3>1, SaveTells
      <3>2. CASE ~Save(r)
        <4>1. \E q \in RequestState : Set(r, q) /\ InOrder(q)
          BY <1>3, <3>2, OneRequestSteps DEF Persist, Change
        <4>2. QED
          BY <4>1, SetKeepsOrder
      <3>3. QED
        BY <3>1, <3>2
    <2>2. req[r] \in RequestState /\ InOrder(req[r])
      BY DEF ResourceFilesTypeOK, Orderly
    <2>3. NewValue(req[r]) \in Value /\ Names(NewValue(req[r])) \subseteq File
          /\ Names(req[r].found) \subseteq File
      BY <2>2, NewValueIsValue, NamesAreFiles DEF RequestState
    <2>4. rows' \in [Doc -> Row] /\ OnlyLiveHaveFiles'
      <3>1. [state |-> "live", files |-> NewValue(req[r])] \in Row
            /\ [state |-> "gone", files |-> Null] \in Row
        BY <2>3 DEF Row, Value
      <3>2. QED
        BY <1>3, <3>1, RowsChange DEF ResourceFilesTypeOK, Orderly, OnlyLiveHaveFiles, Live
    <2>5. disk' \subseteq File /\ metas' \subseteq File /\ orphaned' \subseteq File /\ broken' \subseteq File
      <3> USE DEF ResourceFilesTypeOK
      <3>1. CASE Arrive(r)
        BY <3>1, RequestsArrive DEF Arrived
      <3>2. CASE Persist(r)
        BY <3>2, <2>2 DEF Persist, Store, StoreFails, MoveFails, SaveMeta, SaveMetaFails, Reject,
                          Persisted, PersistFails, Fresh, RequestState
      <3>3. CASE Change(r)
        <4>1. \A d \in Doc : Names(rows[d].files) \subseteq File
          BY NamesAreFiles DEF Row
        <4>2. Names(req[r].want) \subseteq File
          BY <2>2, NamesAreFiles DEF RequestState
        <4>3. CASE Save(r) \/ SaveRow(r)
          <5>1. req[r].doc \in Doc
            BY <2>2, <4>3 DEF Save, SaveRow, InOrder, KnowsItsDocument
          <5>2. QED
            BY <2>3, <4>1, <4>2, <4>3, <5>1 DEF Save, SaveRow, Write
        <4>4. CASE Remove(r) \/ RemoveRow(r)
          BY <2>2, <4>1, <4>4 DEF Remove, RemoveRow, Removes, InOrder
        <4>5. CASE ~(Save(r) \/ SaveRow(r) \/ Remove(r) \/ RemoveRow(r))
          BY <3>3, <4>5, <2>2, <2>3
          DEF Change, Insert, InsertRow, Inserts, SaveFails, Undo, Collect, CollectFails,
              CollectRemoved, DeleteFails, RequestState
        <4>6. QED
          BY <4>3, <4>4, <4>5
      <3>4. CASE CleanUp(r)
        BY <3>4 DEF CleanUp, Unlink, ForgetMeta, ForgetRow, Forgets, Finish
      <3>5. QED
        BY <1>3, <3>1, <3>2, <3>3, <3>4
    <2>6. QED
      BY <1>3, <2>1, <2>4, <2>5 DEF ResourceFilesTypeOK, Orderly
  <1>4. QED
    BY <1>1, <1>2, <1>3 DEF Next

\* In the beginning the types are right and all is in order.
LEMMA OrderInit == Init => ResourceFilesTypeOK /\ Orderly
  BY IdleIsInOrder DEF Init, ResourceFilesTypeOK, Orderly, OnlyLiveHaveFiles, Live, Row, Value

\* In every reachable state each variable has its type, and each request holds what it
\* may hold at its step.
THEOREM OrderInvariant == Spec => [](ResourceFilesTypeOK /\ Orderly)
  <1>1. ResourceFilesTypeOK /\ Orderly /\ [Next]_vars => (ResourceFilesTypeOK /\ Orderly)'
    BY OrderStep
  <1>2. QED
    BY OrderInit, <1>1, PTL DEF Spec

(***************************************************************************)
(* Files are accounted for                                                 *)
(***************************************************************************)

\* What a document names once one of them is written.
LEMMA ReferencedOnceWritten ==
  ASSUME rows \in [Doc -> Row], NEW d \in Doc, NEW state, NEW files,
         rows' = [rows EXCEPT ![d] = [state |-> state, files |-> files]]
  PROVE  /\ Names(files) \subseteq Referenced'
         /\ Referenced \subseteq Referenced' \cup Names(rows[d].files)
  <1>1. rows'[d].files = files /\ \A e \in Doc \ {d} : rows'[e].files = rows[e].files
    OBVIOUS
  <1>2. QED
    BY <1>1 DEF Referenced

\* What a request holds that has only files left to delete, or nothing.
LEMMA HeldWhileCleaning ==
  ASSUME NEW q, NEW names
  PROVE  /\ Held(Undoing(q, names)) = names /\ Held(Purging(names)) = names
         /\ Undoing(q, names).hand = Null /\ Purging(names).hand = Null
         /\ Held(Idle) = {}
  BY DEF Held, Undoing, Purging, Idle

\* What only the request will name or delete is in its hands.
LEMMA HeldIsInHands ==
  ASSUME NEW q \in RequestState
  PROVE  Held(q) \subseteq InHands(q)
  <1>1. FilesToDelete(q.found, NewValue(q)) \subseteq Names(q.found)
    BY NewValueIsValue, DeletesFound DEF RequestState
  <1>2. QED
    BY <1>1 DEF Held, InHands

\* A step of one request loses no file if what that request held, and what a document named,
\* is still held or named, or left behind.
LEMMA FilesStayHeld ==
  ASSUME EveryFileIsHeld, NEW r \in Request,
         \A p \in Request \ {r} : Held(req'[p]) = Held(req[p]),
         disk' \subseteq disk \cup Held(req'[r]),
         orphaned \subseteq orphaned',
         (Held(req[r]) \cup Referenced) \cap disk' \subseteq Held(req'[r]) \cup Referenced' \cup orphaned'
  PROVE  EveryFileIsHeld'
  <1> SUFFICES ASSUME NEW f \in disk'
               PROVE  f \in Referenced' \cup orphaned' \cup UNION {Held(req'[p]) : p \in Request}
    BY DEF EveryFileIsHeld, Held, FilesToDelete, NewValue, Names
  <1>1. CASE f \in Held(req'[r])
    BY <1>1
  <1>2. CASE f \in disk
    <2>1. f \in Referenced \cup orphaned \/ \E p \in Request : f \in Held(req[p])
      BY <1>2 DEF EveryFileIsHeld
    <2>2. CASE f \in Referenced \cup Held(req[r]) \cup orphaned
      BY <2>2
    <2>3. ASSUME NEW p \in Request \ {r}, f \in Held(req[p])
          PROVE  f \in Held(req'[p])
      BY <2>3
    <2>4. QED
      BY <2>1, <2>2, <2>3
  <1>3. QED
    BY <1>1, <1>2

\* Persisting files keeps them accounted for.
LEMMA AccountPersist ==
  ASSUME ResourceFilesTypeOK, Orderly, UnlinkedAreGone, EveryFileIsHeld,
         NEW r \in Request, Persist(r)
  PROVE  UnlinkedAreGone' /\ EveryFileIsHeld'
  <1>a. req[r] \in RequestState /\ InOrder(req[r]) /\ req \in [Request -> RequestState]
    BY DEF ResourceFilesTypeOK, Orderly
  <1>b. \E q : Set(r, q)
    BY DEF Persist, Store, StoreFails, MoveFails, SaveMeta, SaveMetaFails, Reject, Persisted, PersistFails
  <1>c. \A p \in Request \ {r} : req'[p] = req[p]
    BY <1>a, <1>b DEF Set
  <1>d. \A p \in Request \ {r} : Held(req'[p]) = Held(req[p])
    BY <1>c
  <1>e. Referenced' = Referenced
    <2>1. UNCHANGED rows
      BY DEF Persist, Store, StoreFails, MoveFails, SaveMeta, SaveMetaFails, Reject, Persisted, PersistFails
    <2>2. QED
      BY <2>1 DEF Referenced, Names
  <1>1. CASE Store(r)
    <2>1. PICK f \in Fresh : /\ disk' = disk \cup {f}
                             /\ Set(r, [req[r] EXCEPT !.hand = f, !.made = @ \cup {f}])
      BY <1>1 DEF Store
    <2>2. req'[r] = [req[r] EXCEPT !.hand = f, !.made = @ \cup {f}]
      BY <1>a, <2>1 DEF Set
    <2>3. \A p \in Request : f # req[p].hand \/ f = Null
      BY <2>1 DEF Fresh, Known, InHands
    <2>4. UnlinkedAreGone'
      <3>1. f # Null /\ req'[r].pc = "storing"
        BY <1>1, <1>a, <2>1, <2>2, FieldAssumption DEF Fresh, Store, Uploading, RequestState
      <3>2. QED
        BY <1>c, <2>1, <2>3, <3>1 DEF UnlinkedAreGone
    <2>5. Held(req'[r]) = Held(req[r]) \cup {f}
      <3>1. f # Null
        BY <2>1, FieldAssumption DEF Fresh
      <3>2. QED
        BY <1>1, <1>a, <2>2, <3>1 DEF Held, Store, Uploading, RequestState
    <2>6. EveryFileIsHeld'
      BY <1>1, <1>d, <1>e, <2>1, <2>5, FilesStayHeld DEF Store
    <2>7. QED
      BY <2>4, <2>6
  <1>2. CASE StoreFails(r) \/ SaveMetaFails(r) \/ Reject(r)
    <2>1. \E left : /\ PersistFails(r, left)
                    /\ {req[r].hand} \ {Null} \subseteq left
                    /\ req[r].pc = "storing"
      BY <1>2 DEF StoreFails, SaveMetaFails, Reject, Uploading
    <2>2. req'[r] = Undoing(req[r], req[r].stored)
      BY <2>1, <1>a DEF PersistFails, Set
    <2>3. Held(req'[r]) = req[r].stored /\ req'[r].hand = Null
      BY <2>2, HeldWhileCleaning
    <2>4. UnlinkedAreGone'
      BY <1>a, <1>c, <2>1, <2>3, FieldAssumption DEF UnlinkedAreGone, PersistFails, ResourceFilesTypeOK
    <2>5. Held(req[r]) \subseteq req[r].stored \cup orphaned'
      BY <2>1, <1>a DEF Held, PersistFails, InOrder
    <2>6. EveryFileIsHeld'
      BY <1>d, <1>e, <2>1, <2>3, <2>5, FilesStayHeld DEF PersistFails
    <2>7. QED
      BY <2>4, <2>6
  <1>3. CASE MoveFails(r) \/ SaveMeta(r) \/ Persisted(r)
    <2>1. Held(req'[r]) = Held(req[r]) /\ req'[r].pc \in {"storing", "saving"}
      <3>1. CASE MoveFails(r)
        BY <3>1, <1>a DEF MoveFails, Uploading, Set, Held, RequestState
      <3>2. CASE SaveMeta(r)
        BY <3>2, <1>a DEF SaveMeta, Set, Held, RequestState
      <3>3. CASE Persisted(r)
        BY <3>3, <1>a DEF Persisted, Set, Held, RequestState
      <3>4. QED
        BY <1>3, <3>1, <3>2, <3>3
    <2>2. UNCHANGED <<disk, orphaned>>
      BY <1>3 DEF MoveFails, SaveMeta, Persisted
    <2>3. UnlinkedAreGone'
      BY <1>c, <2>1, <2>2 DEF UnlinkedAreGone
    <2>4. EveryFileIsHeld'
      BY <1>d, <1>e, <2>1, <2>2, FilesStayHeld
    <2>5. QED
      BY <2>3, <2>4
  <1>4. QED
    BY <1>1, <1>2, <1>3 DEF Persist

\* A change of the document keeps them accounted for.
LEMMA AccountChange ==
  ASSUME ResourceFilesTypeOK, Orderly, UnlinkedAreGone, EveryFileIsHeld,
         NEW r \in Request, Change(r)
  PROVE  UnlinkedAreGone' /\ EveryFileIsHeld'
  <1> DEFINE q == req[r]
             new == NewValue(q)
  <1>a. q \in RequestState /\ InOrder(q) /\ req \in [Request -> RequestState] /\ rows \in [Doc -> Row]
    BY DEF ResourceFilesTypeOK, Orderly
  <1>b. \A p \in Request \ {r} : Held(req'[p]) = Held(req[p])
                                 /\ req'[p].pc = req[p].pc /\ req'[p].hand = req[p].hand
    <2>1. CASE Save(r)
      <3> SUFFICES ASSUME NEW p \in Request \ {r}
                   PROVE  /\ Held(req'[p]) = Held(req[p])
                          /\ req'[p].pc = req[p].pc /\ req'[p].hand = req[p].hand
        OBVIOUS
      <3>1. PICK b : req'[p] = [req[p] EXCEPT !.stale = b]
        BY <2>1, SaveTells
      <3>2. QED
        BY <3>1, <1>a DEF Held, NewValue, RequestState
    <2>2. CASE ~Save(r)
      <3>1. \E any : Set(r, any)
        BY <2>2 DEF Change, Insert, InsertRow, SaveRow, SaveFails, Undo, Collect, CollectFails,
                    Remove, RemoveRow, CollectRemoved, DeleteFails
      <3>2. QED
        BY <1>a, <3>1 DEF Set
    <2>3. QED
      BY <2>1, <2>2
  <1>c. UNCHANGED disk /\ orphaned \subseteq orphaned'
    BY DEF Change, Insert, InsertRow, Inserts, Save, SaveRow, Write, SaveFails, Undo, Collect,
           CollectFails, Remove, RemoveRow, Removes, CollectRemoved, DeleteFails
  <1>d. UNCHANGED rows => Referenced' = Referenced
    BY DEF Referenced, Names
  <1>e. q.want = Null => q.stored = {} /\ q.earlier = {}
    BY <1>a DEF Change, Insert, InsertRow, Save, SaveRow, SaveFails, Collect, CollectFails, Remove,
                RemoveRow, CollectRemoved, DeleteFails, InOrder, NullStoresNothing
  <1>f. q.stored \cup q.earlier \subseteq Names(new)
    BY <1>a, <1>e, NewValueIsValue, NamesAreFiles
  <1>1. ASSUME q.pc = "saving"
        PROVE  Held(q) = q.stored \cup q.earlier
    BY <1>1, <1>a DEF Held, InOrder
  <1>2. ASSUME q.pc = "saved"
        PROVE  Held(q) = FilesToDelete(q.found, new) /\ Held(q) \subseteq Names(q.found)
    BY <1>2, <1>a, NewValueIsValue, DeletesFound DEF Held, RequestState
  <1>3. ASSUME q.pc = "removing"
        PROVE  Held(q) = {}
    BY <1>3, <1>a DEF Held, InOrder
  <1>4. ASSUME q.pc = "removed"
        PROVE  Held(q) = Names(q.found)
    BY <1>4 DEF Held
  <1>5. /\ req'[r].pc \in {"undoing", "purging"} => req'[r].hand = Null
        /\ (Held(q) \cup Referenced) \cap disk' \subseteq Held(req'[r]) \cup Referenced' \cup orphaned'
    <2>1. CASE Insert(r) \/ InsertRow(r)
      <3>1. PICK d \in Doc : /\ rows[d].state = "new"
                             /\ rows' = [rows EXCEPT ![d] = [state |-> "live", files |-> new]]
        BY <2>1 DEF Insert, InsertRow, Inserts
      <3>2. Names(rows[d].files) = {}
        BY <3>1 DEF Orderly, OnlyLiveHaveFiles, Live, Names
      <3>3. Names(new) \cup Referenced \subseteq Referenced'
        BY <1>a, <3>1, <3>2, ReferencedOnceWritten
      <3>4. req'[r].pc \in {"idle", "saved"}
        <4>1. req'[r] = Idle \/ \E e \in Doc : req'[r] = [q EXCEPT !.pc = "saved", !.doc = e]
          BY <1>a, <2>1 DEF Insert, InsertRow, Set
        <4>2. Idle.pc = "idle"
          BY DEF Idle
        <4>3. QED
          BY <1>a, <4>1, <4>2 DEF RequestState
      <3>5. QED
        BY <1>1, <1>f, <2>1, <3>3, <3>4 DEF Insert, InsertRow
    <2>2. CASE Save(r) \/ SaveRow(r)
      <3>1. req'[r] = [q EXCEPT !.pc = "saved"] /\ q.doc \in Doc /\ q.pc = "saving"
        BY <1>a, <2>2, SaveTells DEF Save, SaveRow, Set, InOrder, KnowsItsDocument
      <3>2. Names(new) \subseteq Referenced' /\ Referenced \subseteq Referenced' \cup Names(rows[q.doc].files)
        BY <1>a, <2>2, <3>1, ReferencedOnceWritten DEF Save, SaveRow, Write
      <3>3. Held(req'[r]) = FilesToDelete(q.found, new) /\ req'[r].pc = "saved"
        BY <1>a, <3>1 DEF Held, NewValue, RequestState
      <3>4. Names(rows[q.doc].files) \subseteq Held(req'[r]) \cup Names(new) \cup orphaned'
        BY <2>2, <3>3 DEF Save, SaveRow, Write, FilesToDelete
      <3>5. QED
        BY <1>1, <1>f, <3>1, <3>2, <3>3, <3>4
    <2>3. CASE SaveFails(r)
      <3>1. req'[r] = Undoing(q, q.stored \cup q.earlier) /\ UNCHANGED rows /\ q.pc = "saving"
        BY <1>a, <2>3 DEF SaveFails, Undo, Set
      <3>2. Held(req'[r]) = q.stored \cup q.earlier /\ req'[r].hand = Null
        BY <3>1, HeldWhileCleaning
      <3>3. QED
        BY <1>1, <1>d, <3>1, <3>2
    <2>4. CASE Collect(r)
      <3>1. req'[r] = Purging(FilesToDelete(q.found, new)) /\ UNCHANGED rows /\ q.pc = "saved"
        BY <1>a, <2>4 DEF Collect, Set
      <3>2. Held(req'[r]) = Held(q) /\ req'[r].hand = Null
        BY <1>2, <3>1, HeldWhileCleaning
      <3>3. QED
        BY <1>d, <3>1, <3>2
    <2>5. CASE CollectFails(r)
      <3>1. req'[r] = Undoing(q, q.stored \cup q.earlier) /\ UNCHANGED rows /\ q.pc = "saved"
            /\ orphaned' = orphaned \cup Names(q.found)
        BY <1>a, <2>5 DEF CollectFails, Undo, Set
      <3>2. req'[r].hand = Null
        BY <3>1 DEF Undoing, Idle
      <3>3. QED
        BY <1>d, <1>2, <3>1, <3>2
    <2>6. CASE Remove(r) \/ RemoveRow(r)
      <3>1. q.doc \in Doc /\ q.pc = "removing"
        BY <1>a, <2>6 DEF Remove, RemoveRow, InOrder
      <3>2. Referenced \subseteq Referenced' \cup Names(rows[q.doc].files)
        BY <1>a, <2>6, <3>1, ReferencedOnceWritten DEF Remove, RemoveRow, Removes
      <3>3. Names(rows[q.doc].files) \subseteq Names(q.found) \cup orphaned'
        BY <2>6 DEF Remove, RemoveRow, Removes
      <3>4. CASE Remove(r)
        <4>1. req'[r] = [q EXCEPT !.pc = "removed"]
          BY <1>a, <3>4 DEF Remove, Set
        <4>2. Held(req'[r]) = Names(q.found) /\ req'[r].pc = "removed"
          BY <1>a, <4>1 DEF Held, RequestState
        <4>3. QED
          BY <1>3, <3>1, <3>2, <3>3, <4>2
      <3>5. CASE RemoveRow(r)
        <4>1. req'[r] = Purging(Names(q.found))
          BY <1>a, <3>5 DEF RemoveRow, Set
        <4>2. Held(req'[r]) = Names(q.found) /\ req'[r].hand = Null
          BY <4>1, HeldWhileCleaning
        <4>3. QED
          BY <1>3, <3>1, <3>2, <3>3, <4>2
      <3>6. QED
        BY <2>6, <3>4, <3>5
    <2>7. CASE CollectRemoved(r)
      <3>1. req'[r] = Purging(Names(q.found)) /\ UNCHANGED rows /\ q.pc = "removed"
        BY <1>a, <2>7 DEF CollectRemoved, Set
      <3>2. Held(req'[r]) = Held(q) /\ req'[r].hand = Null
        BY <1>4, <3>1, HeldWhileCleaning
      <3>3. QED
        BY <1>d, <3>1, <3>2
    <2>8. CASE DeleteFails(r)
      <3>1. req'[r] = Idle /\ UNCHANGED rows
        BY <1>a, <2>8 DEF DeleteFails, Set
      <3>2. Held(q) \subseteq orphaned'
        BY <1>3, <1>4, <2>8 DEF DeleteFails
      <3>3. QED
        BY <1>d, <3>1, <3>2 DEF Idle
    <2>9. QED
      BY <2>1, <2>2, <2>3, <2>4, <2>5, <2>6, <2>7, <2>8 DEF Change
  <1>6. UnlinkedAreGone'
    <2>1. Null \notin disk
      BY FieldAssumption DEF ResourceFilesTypeOK
    <2>2. QED
      BY <1>b, <1>c, <1>5, <2>1 DEF UnlinkedAreGone
  <1>7. EveryFileIsHeld'
    BY <1>b, <1>c, <1>5, FilesStayHeld
  <1>8. QED
    BY <1>6, <1>7

\* Deleting files keeps them accounted for.
LEMMA AccountCleanUp ==
  ASSUME ResourceFilesTypeOK, Orderly, UnlinkedAreGone, EveryFileIsHeld,
         NEW r \in Request, CleanUp(r)
  PROVE  UnlinkedAreGone' /\ EveryFileIsHeld'
  <1>a. req[r] \in RequestState /\ InOrder(req[r]) /\ req \in [Request -> RequestState] /\ Null \notin disk
    BY FieldAssumption DEF ResourceFilesTypeOK, Orderly
  <1>b. (\E q : Set(r, q)) /\ UNCHANGED rows /\ disk' \subseteq disk /\ orphaned \subseteq orphaned'
    BY DEF CleanUp, Unlink, ForgetMeta, ForgetRow, Forgets, Finish
  <1>c. \A p \in Request \ {r} : req'[p] = req[p]
    BY <1>a, <1>b DEF Set
  <1>d. Referenced' = Referenced /\ \A p \in Request \ {r} : Held(req'[p]) = Held(req[p])
    BY <1>b, <1>c DEF Referenced, Names
  <1>e. req[r].pc \in {"undoing", "purging"}
    BY DEF CleanUp, Unlink, ForgetMeta, ForgetRow, Forgets, Finish, Deleting
  <1>f. Held(req[r]) = ({req[r].hand} \ {Null}) \cup req[r].doomed
    BY <1>a, <1>e DEF Held, InOrder
  <1>1. /\ req'[r].pc \in {"undoing", "purging"} => req'[r].hand \notin disk'
        /\ Held(req[r]) \cap disk' \subseteq Held(req'[r]) \cup orphaned'
    <2>1. CASE Unlink(r)
      <3>1. PICK f \in req[r].doomed :
              \/ /\ disk' = disk \ {f}
                 /\ Set(r, [req[r] EXCEPT !.doomed = @ \ {f}, !.hand = f])
              \/ /\ Set(r, [req[r] EXCEPT !.doomed = @ \ {f}])
                 /\ f \notin disk' \/ f \in orphaned'
        BY <2>1 DEF Unlink
      <3>2. req[r].hand = Null
        BY <2>1 DEF Unlink, Deleting
      <3>3. CASE disk' = disk \ {f} /\ Set(r, [req[r] EXCEPT !.doomed = @ \ {f}, !.hand = f])
        <4>1. req'[r] = [req[r] EXCEPT !.doomed = @ \ {f}, !.hand = f]
          BY <1>a, <3>3 DEF Set
        <4>2. req'[r].hand = f /\ req[r].doomed \ {f} \subseteq Held(req'[r])
          BY <1>a, <1>e, <4>1 DEF Held, RequestState
        <4>3. QED
          BY <1>f, <3>2, <3>3, <4>2
      <3>4. CASE Set(r, [req[r] EXCEPT !.doomed = @ \ {f}]) /\ (f \notin disk' \/ f \in orphaned')
        <4>1. req'[r] = [req[r] EXCEPT !.doomed = @ \ {f}]
          BY <1>a, <3>4 DEF Set
        <4>2. req'[r].hand = Null /\ req[r].doomed \ {f} \subseteq Held(req'[r])
          BY <1>a, <1>e, <3>2, <4>1 DEF Held, RequestState
        <4>3. QED
          BY <1>a, <1>b, <1>f, <3>2, <3>4, <4>2
      <3>5. QED
        BY <3>1, <3>3, <3>4
    <2>2. CASE ForgetMeta(r) \/ ForgetRow(r)
      <3>1. req'[r] = [req[r] EXCEPT !.hand = Null]
        BY <1>a, <2>2 DEF ForgetMeta, ForgetRow, Forgets, Set
      <3>2. req'[r].hand = Null /\ req[r].doomed \subseteq Held(req'[r])
        BY <1>a, <1>e, <3>1 DEF Held, RequestState
      <3>3. req[r].hand \notin disk
        BY <1>e DEF UnlinkedAreGone
      <3>4. QED
        BY <1>a, <1>b, <1>f, <3>2, <3>3
    <2>3. CASE Finish(r)
      <3>1. req'[r] = Idle /\ req[r].hand = Null /\ req[r].doomed = {}
        BY <1>a, <2>3 DEF Finish, Deleting, Set
      <3>2. QED
        BY <1>f, <3>1 DEF Idle
    <2>4. QED
      BY <2>1, <2>2, <2>3 DEF CleanUp
  <1>2. UnlinkedAreGone'
    BY <1>b, <1>c, <1>1 DEF UnlinkedAreGone
  <1>3. EveryFileIsHeld'
    BY <1>b, <1>d, <1>1, FilesStayHeld
  <1>4. QED
    BY <1>2, <1>3

\* Every step keeps the account of the files.
LEMMA AccountStep ==
  ASSUME AccountInv, [Next]_vars
  PROVE  UnlinkedAreGone' /\ EveryFileIsHeld'
  <1> USE DEF AccountInv
  <1>1. CASE UNCHANGED vars
    BY <1>1 DEF vars, UnlinkedAreGone, EveryFileIsHeld, Referenced, Held, FilesToDelete, NewValue, Names
  <1>2. CASE Crash
    <2>1. \A r \in Request : req'[r] = Idle
      BY <1>2 DEF Crash
    <2>2. UnlinkedAreGone'
      BY <2>1 DEF UnlinkedAreGone, Idle
    <2>3. \A r \in Request : Held(req[r]) \subseteq InHands(req[r])
      BY HeldIsInHands DEF ResourceFilesTypeOK
    <2>4. Referenced' = Referenced /\ disk' = disk
      BY <1>2 DEF Crash, Referenced, Names
    <2>5. orphaned' = orphaned \cup UNION {InHands(req[r]) : r \in Request}
      BY <1>2 DEF Crash
    <2>6. \A f \in disk : f \in Referenced \cup orphaned'
      BY <2>3, <2>5 DEF EveryFileIsHeld
    <2>7. EveryFileIsHeld'
      BY <2>4, <2>6 DEF EveryFileIsHeld
    <2>8. QED
      BY <2>2, <2>7
  <1>3. ASSUME NEW r \in Request, Arrive(r)
        PROVE  UnlinkedAreGone' /\ EveryFileIsHeld'
    <2>1. PICK q \in RequestState : Arrived(r, q)
      BY <1>3, RequestsArrive
    <2>2. req'[r] = q /\ \A p \in Request \ {r} : req'[p] = req[p]
      BY <2>1 DEF Arrived, Set, ResourceFilesTypeOK
    <2>3. Held(req[r]) = {} /\ UNCHANGED <<disk, orphaned>> /\ Referenced' = Referenced
      BY <2>1, HeldWhileCleaning DEF Arrived, Orderly, InOrder, Referenced, Names
    <2>4. req'[r].pc \notin {"undoing", "purging"}
      BY <2>1, <2>2 DEF Arrived
    <2>5. UnlinkedAreGone'
      BY <2>2, <2>3, <2>4 DEF UnlinkedAreGone
    <2>6. EveryFileIsHeld'
      BY <2>2, <2>3, FilesStayHeld
    <2>7. QED
      BY <2>5, <2>6
  <1>4. QED
    BY <1>1, <1>2, <1>3, AccountPersist, AccountChange, AccountCleanUp DEF Next

\* Files in the storage are named, held by a live request, or left behind at one of the
\* places that leave files, with either library and whatever fails.
THEOREM FilesAccountedFor == Spec => []FilesAreAccountedFor
  <1>1. Init => AccountInv
    BY OrderInit DEF Init, AccountInv, UnlinkedAreGone, EveryFileIsHeld
  <1>2. AccountInv /\ [Next]_vars => AccountInv'
    BY OrderStep, AccountStep DEF AccountInv
  <1>3. AccountInv => FilesAreAccountedFor
    <2>1. AccountInv => \A r \in Request : Held(req[r]) \subseteq InHands(req[r])
      BY HeldIsInHands DEF AccountInv, ResourceFilesTypeOK
    <2>2. QED
      BY <2>1 DEF AccountInv, EveryFileIsHeld, FilesAreAccountedFor
  <1>4. QED
    BY <1>1, <1>2, <1>3, PTL DEF Spec

(***************************************************************************)
(* Missing files are explained                                             *)
(***************************************************************************)

\* The hands of a request but for stale
Alike(q, other) ==
  /\ other.pc = q.pc /\ other.op = q.op /\ other.doc = q.doc
  /\ other.found = q.found /\ other.want = q.want
  /\ other.hand = q.hand /\ other.stored = q.stored /\ other.earlier = q.earlier
  /\ Own(other) = Own(q) /\ Condemned(other) = Condemned(q)

\* What a step of one request may do: it writes one document, to which it adds what it has
\* stored and then no longer has, it takes new files, it deletes from the storage what it
\* was to delete, and it will only delete what it had found or stored.
MaySafelyStep(r, d, added, new) ==
  LET q == req[r]
      next == req'[r]
  IN
  /\ broken \subseteq broken'
  /\ \A p \in Request \ {r} : Alike(req[p], req'[p])
  /\ \A e \in Doc \ {d} : Names(rows'[e].files) \subseteq Names(rows[e].files)
  /\ d \in Doc => Names(rows'[d].files) \subseteq Names(rows[d].files) \cup added \cup broken'
  /\ added \subseteq Own(q) \cap ((disk \cap metas) \cup broken)
  /\ added = {} \/ Own(next) = {}
  /\ Own(next) \subseteq Own(q) \cup new
  /\ \A e \in Doc : new \cap Names(rows'[e].files) = {}
  /\ \A p \in Request \ {r} : new \cap (Own(req[p]) \cup Names(req[p].found) \cup Condemned(req[p])) = {}
  /\ Names(next.found) \subseteq Names(q.found) \cup Referenced
  /\ Condemned(next) \subseteq Condemned(q) \cup Names(q.found) \cup Own(q) \cup broken'
  /\ disk \ disk' \subseteq Condemned(q) /\ metas \ metas' \subseteq Condemned(q)

\* What then is left to show is about the request and its own document.
LEMMA NamesStayExplained ==
  ASSUME NamesInv, NEW r \in Request, NEW d, NEW added, NEW new, MaySafelyStep(r, d, added, new),
         \A e \in Doc : /\ e # req'[r].doc => Names(req'[r].found) \cap Names(rows'[e].files) \subseteq broken'
                        /\ Condemned(req'[r]) \cap Names(rows'[e].files) \subseteq broken',
         req'[r].pc \in {"storing", "saving"} =>
           /\ {req'[r].hand} \ {Null} \subseteq disk' \cup broken'
           /\ req'[r].stored \cup req'[r].earlier \subseteq (disk' \cap metas') \cup broken'
  PROVE  NamesHold'
  <1> USE DEF NamesInv, NamesHold
  <1>a. \A p \in Request, e \in Doc : Own(req[p]) \cap Names(rows[e].files) \subseteq broken
    BY DEF OwnIsNew
  <1>b. \A p \in Request \ {r} : Own(req[r]) \cap (Own(req[p]) \cup Names(req[p].found) \cup Condemned(req[p])) \subseteq broken
    BY DEF OwnIsApart
  <1>c. \A e \in Doc : Names(rows'[e].files) \subseteq Names(rows[e].files) \cup (IF e = d THEN added ELSE {}) \cup broken'
    BY DEF MaySafelyStep
  <1>d. added \subseteq Own(req[r])
    BY DEF MaySafelyStep
  <1>1. RowsAreApart'
    <2> SUFFICES ASSUME NEW e \in Doc, NEW g \in Doc, e # g,
                        NEW f \in Names(rows'[e].files) \cap Names(rows'[g].files)
                 PROVE  f \in broken'
      BY DEF RowsAreApart, Names
    <2>1. f \in Names(rows[e].files) \cap Names(rows[g].files) => f \in broken
      BY DEF RowsAreApart
    <2>2. QED
      BY <1>a, <1>c, <1>d, <2>1 DEF MaySafelyStep
  <1>2. FoundIsOfItsDocument'
    <2> SUFFICES ASSUME NEW p \in Request, NEW e \in Doc, e # req'[p].doc,
                        NEW f \in Names(req'[p].found) \cap Names(rows'[e].files)
                 PROVE  f \in broken'
      BY DEF FoundIsOfItsDocument, Names
    <2>1. CASE p = r
      BY <2>1
    <2>2. CASE p # r
      <3>1. e # req[p].doc /\ f \in Names(req[p].found)
        BY <2>2 DEF MaySafelyStep, Alike
      <3>2. f \in Names(rows[e].files) => f \in broken
        BY <3>1 DEF FoundIsOfItsDocument
      <3>3. f \in Own(req[r]) => f \in broken
        BY <1>b, <2>2, <3>1
      <3>4. QED
        BY <1>c, <1>d, <3>2, <3>3 DEF MaySafelyStep
    <2>3. QED
      BY <2>1, <2>2
  <1>3. OwnIsNew'
    <2> SUFFICES ASSUME NEW p \in Request, NEW e \in Doc,
                        NEW f \in Own(req'[p]) \cap Names(rows'[e].files)
                 PROVE  f \in broken'
      BY DEF OwnIsNew, Own, Names
    <2>1. CASE p = r
      BY <1>a, <1>c, <2>1 DEF MaySafelyStep
    <2>2. CASE p # r
      <3>1. f \in Own(req[p])
        BY <2>2 DEF MaySafelyStep, Alike
      <3>2. f \in Own(req[r]) => f \in broken
        BY <1>b, <2>2, <3>1
      <3>3. QED
        BY <1>a, <1>c, <1>d, <3>1, <3>2 DEF MaySafelyStep
    <2>3. QED
      BY <2>1, <2>2
  <1>4. OwnIsApart'
    <2> SUFFICES ASSUME NEW p \in Request, NEW o \in Request, p # o,
                        NEW f \in Own(req'[p]),
                        f \in Own(req'[o]) \cup Names(req'[o].found) \cup Condemned(req'[o])
                 PROVE  f \in broken'
      BY DEF OwnIsApart, Own, Names, Condemned, FilesToDelete, NewValue
    <2>1. CASE p = r
      <3>1. f \in Own(req[r]) \cup new
        BY <2>1 DEF MaySafelyStep
      <3>2. f \in Own(req[o]) \cup Names(req[o].found) \cup Condemned(req[o])
        BY <2>1 DEF MaySafelyStep, Alike
      <3>3. QED
        BY <1>b, <2>1, <3>1, <3>2 DEF MaySafelyStep
    <2>2. CASE o = r
      <3>1. f \in Own(req[p])
        BY <2>2 DEF MaySafelyStep, Alike
      <3>2. f \notin new
        BY <2>2, <3>1 DEF MaySafelyStep
      <3>3. f \in Own(req[r]) \cup Names(req[r].found) \cup Condemned(req[r]) \cup Referenced \cup broken'
        BY <2>2, <3>2 DEF MaySafelyStep
      <3>4. f \in Referenced => f \in broken
        BY <1>a, <3>1 DEF Referenced
      <3>5. f \in Own(req[r]) \cup Names(req[r].found) \cup Condemned(req[r]) => f \in broken
        BY <2>2, <3>1 DEF OwnIsApart
      <3>6. QED
        BY <3>3, <3>4, <3>5 DEF MaySafelyStep
    <2>3. CASE p # r /\ o # r
      <3>1. f \in Own(req[p]) /\ f \in Own(req[o]) \cup Names(req[o].found) \cup Condemned(req[o])
        BY <2>3 DEF MaySafelyStep, Alike
      <3>2. f \in broken
        BY <3>1 DEF OwnIsApart
      <3>3. QED
        BY <3>2 DEF MaySafelyStep
    <2>4. QED
      BY <2>1, <2>2, <2>3
  <1>5. CondemnedAreUnnamed'
    <2> SUFFICES ASSUME NEW p \in Request, NEW e \in Doc,
                        NEW f \in Condemned(req'[p]) \cap Names(rows'[e].files)
                 PROVE  f \in broken'
      BY DEF CondemnedAreUnnamed, Names, Condemned, FilesToDelete, NewValue
    <2>1. CASE p = r
      BY <2>1
    <2>2. CASE p # r
      <3>1. f \in Condemned(req[p])
        BY <2>2 DEF MaySafelyStep, Alike
      <3>2. f \in Names(rows[e].files) => f \in broken
        BY <3>1 DEF CondemnedAreUnnamed
      <3>3. f \in Own(req[r]) => f \in broken
        BY <1>b, <2>2, <3>1
      <3>4. QED
        BY <1>c, <1>d, <3>2, <3>3 DEF MaySafelyStep
    <2>3. QED
      BY <2>1, <2>2
  <1>6. OwnIsThere'
    <2> SUFFICES ASSUME NEW p \in Request, req'[p].pc \in {"storing", "saving"}
                 PROVE  /\ {req'[p].hand} \ {Null} \subseteq disk' \cup broken'
                        /\ req'[p].stored \cup req'[p].earlier \subseteq (disk' \cap metas') \cup broken'
      BY DEF OwnIsThere
    <2>1. CASE p = r
      BY <2>1
    <2>2. CASE p # r
      <3>1. /\ req[p].pc \in {"storing", "saving"}
            /\ req'[p].hand = req[p].hand /\ req'[p].stored = req[p].stored /\ req'[p].earlier = req[p].earlier
        BY <2>2 DEF MaySafelyStep, Alike
      <3>2. /\ {req[p].hand} \ {Null} \subseteq disk \cup broken
            /\ req[p].stored \cup req[p].earlier \subseteq (disk \cap metas) \cup broken
        BY <3>1 DEF OwnIsThere
      <3>3. ({req[p].hand} \ {Null}) \cup req[p].stored \cup req[p].earlier = Own(req[p])
        BY <3>1 DEF Own
      <3>4. Own(req[p]) \cap Condemned(req[r]) \subseteq broken
        BY <2>2 DEF OwnIsApart
      <3>5. QED
        BY <3>1, <3>2, <3>3, <3>4 DEF MaySafelyStep
    <2>3. QED
      BY <2>1, <2>2
  <1>7. MissingFilesAreExplained'
    <2> SUFFICES ASSUME NEW e \in Doc, NEW f \in Names(rows'[e].files), f \notin broken'
                 PROVE  f \in disk' /\ f \in metas'
      BY DEF MissingFilesAreExplained, Names
    <2>1. f \in disk /\ f \in metas
      <3>1. f \in Names(rows[e].files) \cup added
        BY <1>c
      <3>2. f \notin broken
        BY DEF MaySafelyStep
      <3>3. QED
        BY <3>1, <3>2 DEF MissingFilesAreExplained, MaySafelyStep
    <2>2. f \notin Condemned(req[r])
      <3>1. CASE f \in Names(rows[e].files)
        BY <3>1 DEF CondemnedAreUnnamed, MaySafelyStep
      <3>2. CASE f \in added
        BY <1>d, <3>2 DEF Own, Condemned
      <3>3. QED
        BY <1>c, <3>1, <3>2
    <2>3. QED
      BY <2>1, <2>2 DEF MaySafelyStep
  <1>8. QED
    BY <1>1, <1>2, <1>3, <1>4, <1>5, <1>6, <1>7 DEF NamesHold

\* The others are as they were.
LEMMA OthersAreAlike ==
  ASSUME ResourceFilesTypeOK, Orderly, NEW r \in Request,
         Save(r) \/ \E q : Set(r, q)
  PROVE  \A p \in Request \ {r} : Alike(req[p], req'[p])
  <1> SUFFICES ASSUME NEW p \in Request \ {r}
               PROVE  Alike(req[p], req'[p])
    OBVIOUS
  <1>1. CASE Save(r)
    <2>1. PICK b : req'[p] = [req[p] EXCEPT !.stale = b]
      BY <1>1, SaveTells
    <2>2. req[p] \in RequestState
      BY DEF ResourceFilesTypeOK
    <2>3. QED
      BY <2>1, <2>2 DEF Alike, Own, Condemned, NewValue, RequestState
  <1>2. CASE \E q : Set(r, q)
    <2>1. req'[p] = req[p]
      BY <1>2 DEF Set, ResourceFilesTypeOK
    <2>2. QED
      BY <2>1 DEF Alike
  <1>3. QED
    BY <1>1, <1>2

\* What a request has that has only files left to delete, or nothing.
LEMMA CleaningHands ==
  ASSUME NEW q, NEW names
  PROVE  /\ Own(Undoing(q, names)) = {} /\ Own(Purging(names)) = {} /\ Own(Idle) = {}
         /\ Condemned(Undoing(q, names)) = names /\ Condemned(Purging(names)) = names
         /\ Condemned(Idle) = {}
         /\ Names(Undoing(q, names).found) = {} /\ Names(Purging(names).found) = {}
         /\ Names(Idle.found) = {}
         /\ Undoing(q, names).pc = "undoing" /\ Purging(names).pc = "purging" /\ Idle.pc = "idle"
  BY DEF Own, Condemned, Undoing, Purging, Idle, Names

\* A request that gives up, or finishes, will only delete what it would, or has stored.
LEMMA NamesGiveUp ==
  ASSUME NamesInv, NEW r \in Request, NEW q, Set(r, q),
         Own(q) = {}, Names(q.found) = {}, q.pc \notin {"storing", "saving"},
         Condemned(q) \subseteq Condemned(req[r]) \cup Own(req[r]) \cup broken',
         UNCHANGED <<rows, disk, metas>>, broken \subseteq broken'
  PROVE  NamesHold'
  <1>1. req'[r] = q /\ \A p \in Request \ {r} : Alike(req[p], req'[p])
    BY OthersAreAlike DEF NamesInv, ResourceFilesTypeOK, Set
  <1>2. MaySafelyStep(r, Null, {}, {})
    BY <1>1 DEF MaySafelyStep
  <1>3. \A e \in Doc : Condemned(q) \cap Names(rows[e].files) \subseteq broken'
    BY DEF NamesInv, NamesHold, CondemnedAreUnnamed, OwnIsNew
  <1>4. QED
    BY <1>1, <1>2, <1>3, NamesStayExplained

\* Arrive leaves every name accounted for.
LEMMA NamesArrive ==
  ASSUME NamesInv, NEW r \in Request, Arrive(r)
  PROVE  NamesHold'
  <1>1. PICK q \in RequestState : Arrived(r, q)
    BY RequestsArrive DEF NamesInv
  <1>2. req'[r] = q /\ \A p \in Request \ {r} : Alike(req[p], req'[p])
    BY <1>1, OthersAreAlike DEF NamesInv, ResourceFilesTypeOK, Arrived, Set
  <1>3. Own(q) = {} /\ Condemned(q) = {}
    BY <1>1 DEF Arrived, Own, Condemned
  <1>4. Names(q.found) = {} \/ (q.doc \in Doc /\ Names(q.found) = Names(rows[q.doc].files))
    BY <1>1 DEF Arrived, Names
  <1>5. UNCHANGED <<rows, disk, metas, broken>>
    BY <1>1 DEF Arrived
  <1>6. Names(q.found) \subseteq Referenced
    BY <1>4 DEF Referenced
  <1>7. MaySafelyStep(r, Null, {}, {})
    BY <1>2, <1>3, <1>5, <1>6 DEF MaySafelyStep
  <1>8. \A e \in Doc : e # q.doc => Names(q.found) \cap Names(rows[e].files) \subseteq broken
    BY <1>4 DEF NamesInv, NamesHold, RowsAreApart
  <1>9. q.hand = Null /\ q.stored = {} /\ q.earlier = {}
    BY <1>1 DEF Arrived
  <1>10. QED
    BY <1>2, <1>3, <1>5, <1>7, <1>8, <1>9, NamesStayExplained

\* The steps of persistFiles leave every name accounted for.
LEMMA NamesPersist ==
  ASSUME NamesInv, NEW r \in Request, Persist(r)
  PROVE  NamesHold'
  <1> DEFINE q == req[r]
  <1>a. q \in RequestState /\ InOrder(q) /\ req \in [Request -> RequestState]
    BY DEF NamesInv, ResourceFilesTypeOK, Orderly
  <1>b. /\ \E any : Set(r, any)
        /\ UNCHANGED rows /\ disk \subseteq disk' /\ metas \subseteq metas' /\ broken \subseteq broken'
    BY DEF Persist, Store, StoreFails, MoveFails, SaveMeta, SaveMetaFails, Reject, Persisted, PersistFails
  <1>c. \A p \in Request \ {r} : Alike(req[p], req'[p])
    BY <1>b, OthersAreAlike DEF NamesInv
  <1>d. q.pc = "storing"
    BY DEF Persist, Store, StoreFails, MoveFails, SaveMeta, SaveMetaFails, Reject, Persisted, Uploading
  <1>e. Own(q) = ({q.hand} \ {Null}) \cup q.stored \cup q.earlier /\ Condemned(q) = {}
    BY <1>d DEF Own, Condemned
  <1>f. /\ {q.hand} \ {Null} \subseteq disk \cup broken
        /\ q.stored \cup q.earlier \subseteq (disk \cap metas) \cup broken
    BY <1>d DEF NamesInv, NamesHold, OwnIsThere
  <1>g. \A e \in Doc : e # q.doc => Names(q.found) \cap Names(rows[e].files) \subseteq broken
    BY DEF NamesInv, NamesHold, FoundIsOfItsDocument
  <1>1. CASE StoreFails(r) \/ SaveMetaFails(r) \/ Reject(r)
    <2>1. Set(r, Undoing(q, q.stored)) /\ UNCHANGED <<rows, disk, metas, broken>>
      BY <1>1 DEF StoreFails, SaveMetaFails, Reject, PersistFails
    <2> DEFINE u == Undoing(q, q.stored)
    <2>2. Own(u) = {} /\ Names(u.found) = {} /\ Condemned(u) = q.stored /\ u.pc = "undoing"
      BY CleaningHands
    <2> HIDE DEF u
    <2>3. Condemned(u) \subseteq Own(q)
      BY <1>e, <2>2
    <2>4. Set(r, u)
      BY <2>1 DEF u
    <2>5. QED
      BY <2>1, <2>2, <2>3, <2>4, NamesGiveUp
  <1>2. ASSUME NEW new, req'[r].pc \in {"storing", "saving"},
               req'[r].found = q.found, req'[r].doc = q.doc,
               Own(req'[r]) \subseteq Own(q) \cup new,
               new \subseteq Fresh,
               {req'[r].hand} \ {Null} \subseteq disk' \cup broken',
               req'[r].stored \cup req'[r].earlier \subseteq (disk' \cap metas') \cup broken'
        PROVE  NamesHold'
    <2>1. Condemned(req'[r]) = {}
      BY <1>2 DEF Condemned
    <2>2. \A e \in Doc : new \cap Names(rows'[e].files) = {}
      BY <1>2, <1>b DEF Fresh, Known, Referenced
    <2>3. \A p \in Request : new \cap (Own(req[p]) \cup Names(req[p].found) \cup Condemned(req[p])) = {}
      <3> SUFFICES ASSUME NEW p \in Request
                   PROVE  new \cap (Own(req[p]) \cup Names(req[p].found) \cup Condemned(req[p])) = {}
        OBVIOUS
      <3>1. new \cap (InHands(req[p]) \cup Names(req[p].found)) = {}
        BY <1>2 DEF Fresh, Known
      <3>2. req[p] \in RequestState
        BY <1>a
      <3>3. FilesToDelete(req[p].found, NewValue(req[p])) \subseteq Names(req[p].found)
        BY <3>2, NewValueIsValue, DeletesFound DEF RequestState
      <3>4. Own(req[p]) \cup Condemned(req[p]) \subseteq InHands(req[p]) \cup Names(req[p].found)
        BY <3>3 DEF Own, Condemned, InHands
      <3>5. QED
        BY <3>1, <3>4
    <2>4. MaySafelyStep(r, Null, {}, new)
      BY <1>2, <1>b, <1>c, <2>1, <2>2, <2>3 DEF MaySafelyStep
    <2>5. QED
      BY <1>2, <1>b, <1>g, <2>1, <2>4, NamesStayExplained
  <1>3. CASE Store(r)
    <2>1. PICK f \in Fresh : /\ disk' = disk \cup {f} /\ UNCHANGED <<metas, broken>>
                             /\ Set(r, [q EXCEPT !.hand = f, !.made = @ \cup {f}])
      BY <1>3 DEF Store
    <2>2. req'[r] = [q EXCEPT !.hand = f, !.made = @ \cup {f}]
      BY <1>a, <2>1 DEF Set
    <2>3. Own(req'[r]) \subseteq Own(q) \cup {f}
      BY <1>a, <1>d, <2>2 DEF Own, RequestState
    <2>4. /\ req'[r].pc = "storing" /\ req'[r].found = q.found /\ req'[r].doc = q.doc
          /\ req'[r].hand = f /\ req'[r].stored = q.stored /\ req'[r].earlier = q.earlier
      BY <1>a, <1>d, <2>2 DEF RequestState
    <2>5. QED
      BY <1>2, <1>f, <2>1, <2>3, <2>4
  <1>4. CASE MoveFails(r)
    <2>1. PICK f \in Fresh :
            /\ Set(r, [q EXCEPT !.want = @ \cup {f}, !.made = @ \cup {f}, !.calls = OneLess(@),
                                !.bare = IF orm = "mongoose" THEN @ ELSE @ \cup {f}])
            /\ UNCHANGED <<disk, metas>>
      BY <1>4 DEF MoveFails
    <2>2. req'[r] = [q EXCEPT !.want = @ \cup {f}, !.made = @ \cup {f}, !.calls = OneLess(@),
                              !.bare = IF orm = "mongoose" THEN @ ELSE @ \cup {f}]
      BY <1>a, <2>1 DEF Set
    <2>3. /\ req'[r].pc = "storing" /\ req'[r].found = q.found /\ req'[r].doc = q.doc
          /\ req'[r].hand = q.hand /\ req'[r].stored = q.stored /\ req'[r].earlier = q.earlier
      BY <1>a, <1>d, <2>2 DEF RequestState
    <2>4. Own(req'[r]) = Own(q)
      BY <1>d, <2>3 DEF Own
    <2>5. QED
      BY <1>2, <1>b, <1>f, <2>1, <2>3, <2>4
  <1>5. CASE SaveMeta(r)
    <2>1. /\ metas' = metas \cup {q.hand} /\ UNCHANGED <<disk, broken>> /\ q.hand # Null
          /\ req'[r] = [q EXCEPT !.stored = @ \cup {q.hand}, !.hand = Null, !.calls = OneLess(@)]
      BY <1>a, <1>5 DEF SaveMeta, Set
    <2>2. /\ req'[r].pc = "storing" /\ req'[r].found = q.found /\ req'[r].doc = q.doc
          /\ req'[r].hand = Null /\ req'[r].stored = q.stored \cup {q.hand}
          /\ req'[r].earlier = q.earlier
      BY <1>a, <1>d, <2>1 DEF RequestState
    <2>3. Own(req'[r]) = Own(q)
      BY <1>d, <1>e, <2>1, <2>2 DEF Own
    <2>4. req'[r].stored \cup req'[r].earlier \subseteq (disk' \cap metas') \cup broken'
      BY <1>f, <2>1, <2>2
    <2>5. QED
      BY <1>2, <2>2, <2>3, <2>4
  <1>6. CASE Persisted(r)
    <2>1. /\ req'[r].pc \in {"storing", "saving"} /\ req'[r].found = q.found /\ req'[r].doc = q.doc
          /\ req'[r].hand = Null /\ req'[r].stored = {} /\ req'[r].earlier = q.earlier \cup q.stored
      BY <1>a, <1>6 DEF Persisted, Set, RequestState
    <2>2. Own(req'[r]) \subseteq Own(q)
      BY <1>e, <2>1 DEF Own
    <2>3. UNCHANGED <<disk, metas, broken>>
      BY <1>6 DEF Persisted
    <2>4. QED
      BY <1>2, <1>f, <2>1, <2>2, <2>3
  <1>7. QED
    BY <1>1, <1>3, <1>4, <1>5, <1>6 DEF Persist

\* The steps that change a document leave every name accounted for.
LEMMA NamesChange ==
  ASSUME NamesInv, NEW r \in Request, Change(r)
  PROVE  NamesHold'
  <1> DEFINE q == req[r]
             new == NewValue(q)
  <1>a. q \in RequestState /\ InOrder(q) /\ req \in [Request -> RequestState] /\ rows \in [Doc -> Row]
    BY DEF NamesInv, ResourceFilesTypeOK, Orderly
  <1>b. \A p \in Request \ {r} : Alike(req[p], req'[p])
    <2>1. Save(r) \/ \E any : Set(r, any)
      BY DEF Change, Insert, InsertRow, SaveRow, SaveFails, Undo, Collect, CollectFails,
             Remove, RemoveRow, CollectRemoved, DeleteFails
    <2>2. QED
      BY <2>1, OthersAreAlike DEF NamesInv
  <1>c. UNCHANGED <<disk, metas>> /\ broken \subseteq broken'
    BY DEF Change, Insert, InsertRow, Inserts, Save, SaveRow, Write, SaveFails, Undo, Collect,
           CollectFails, Remove, RemoveRow, Removes, CollectRemoved, DeleteFails
  <1>d. \A e \in Doc : e # q.doc => Names(q.found) \cap Names(rows[e].files) \subseteq broken
    BY DEF NamesInv, NamesHold, FoundIsOfItsDocument
  <1>e. ASSUME q.pc = "saving"
        PROVE  /\ Own(q) = q.stored \cup q.earlier
               /\ Own(q) \subseteq (disk \cap metas) \cup broken
               /\ Condemned(q) = {}
               /\ Names(new) = Names(q.want) \cup Own(q)
    <2>1. Own(q) = q.stored \cup q.earlier /\ Condemned(q) = {}
      BY <1>a, <1>e DEF Own, Condemned, InOrder
    <2>2. Own(q) \subseteq (disk \cap metas) \cup broken
      BY <1>e, <2>1 DEF NamesInv, NamesHold, OwnIsThere
    <2>3. Names(new) = Names(q.want) \cup Own(q)
      <3>1. CASE q.want = Null
        BY <1>a, <1>e, <2>1, <3>1 DEF InOrder, NullStoresNothing, NewValue, Names
      <3>2. CASE q.want # Null
        BY <1>a, <2>1, <3>2, NewValueIsValue, NamesAreFiles DEF RequestState
      <3>3. QED
        BY <3>1, <3>2
    <2>4. QED
      BY <2>1, <2>2, <2>3
  <1>1. CASE Insert(r) \/ InsertRow(r)
    <2>1. q.pc = "saving" /\ q.op = "create" /\ Names(q.want) = {} /\ Names(q.found) = {}
      BY <1>a, <1>1 DEF Insert, InsertRow, InOrder, KnowsItsDocument
    <2>2. PICK d \in Doc :
            /\ rows' = [rows EXCEPT ![d] = [state |-> "live", files |-> new]]
            /\ Set(r, Idle) \/ Set(r, [q EXCEPT !.pc = "saved", !.doc = d])
      BY <1>1 DEF Insert, InsertRow, Inserts
    <2>3. rows'[d].files = new /\ \A e \in Doc \ {d} : rows'[e] = rows[e]
      BY <1>a, <2>2
    <2>4. Own(req'[r]) = {} /\ Names(req'[r].found) = {} /\ Condemned(req'[r]) = {}
          /\ req'[r].pc \notin {"storing", "saving"}
      <3>1. CASE Set(r, Idle)
        <4>1. req'[r] = Idle
          BY <1>a, <3>1 DEF Set
        <4>2. QED
          BY <4>1, CleaningHands
      <3>2. CASE Set(r, [q EXCEPT !.pc = "saved", !.doc = d])
        <4>1. req'[r] = [q EXCEPT !.pc = "saved", !.doc = d]
          BY <1>a, <3>2 DEF Set
        <4>2. req'[r].pc = "saved" /\ req'[r].found = q.found
          BY <1>a, <4>1 DEF RequestState
        <4>3. QED
          BY <2>1, <4>2 DEF Own, Condemned, FilesToDelete
      <3>3. QED
        BY <2>2, <3>1, <3>2
    <2>5. MaySafelyStep(r, d, Own(q), {})
      BY <1>b, <1>c, <1>e, <2>1, <2>3, <2>4 DEF MaySafelyStep
    <2>6. QED
      BY <2>4, <2>5, NamesStayExplained
  <1>2. CASE Save(r) \/ SaveRow(r)
    <2> DEFINE d == q.doc
    <2>1. q.pc = "saving" /\ d \in Doc
      BY <1>a, <1>2 DEF Save, SaveRow, InOrder, KnowsItsDocument
    <2>2. /\ rows' = [rows EXCEPT ![d] = [state |-> "live", files |-> new]]
          /\ broken' = broken \cup (Names(q.want) \ Names(rows[d].files))
      BY <1>2 DEF Save, SaveRow, Write
    <2>3. rows'[d].files = new /\ \A e \in Doc \ {d} : rows'[e] = rows[e]
      BY <1>a, <2>1, <2>2
    <2>4. req'[r] = [q EXCEPT !.pc = "saved"]
      BY <1>2, <1>a, SaveTells DEF NamesInv, NamesHold, SaveRow, Set
    <2>5. req'[r].pc = "saved" /\ req'[r].found = q.found /\ req'[r].doc = d
      BY <1>a, <2>4 DEF RequestState
    <2>6. Own(req'[r]) = {} /\ Condemned(req'[r]) = FilesToDelete(q.found, new)
      BY <1>a, <2>4 DEF Own, Condemned, NewValue, RequestState
    <2>7. FilesToDelete(q.found, new) \subseteq Names(q.found)
      BY <1>a, NewValueIsValue, DeletesFound DEF RequestState
    <2>8. Names(new) \subseteq Names(rows[d].files) \cup Own(q) \cup broken'
      BY <1>e, <2>1, <2>2
    <2>9. MaySafelyStep(r, d, Own(q), {})
      BY <1>b, <1>c, <1>e, <2>1, <2>3, <2>5, <2>6, <2>7, <2>8 DEF MaySafelyStep
    <2>10. \A e \in Doc : e # d => Names(q.found) \cap Names(rows'[e].files) \subseteq broken'
      BY <1>c, <1>d, <2>3
    <2>11. FilesToDelete(q.found, new) \cap Names(new) = {}
      BY DEF FilesToDelete
    <2>12. \A e \in Doc : FilesToDelete(q.found, new) \cap Names(rows'[e].files) \subseteq broken'
      BY <2>3, <2>7, <2>10, <2>11
    <2>13. QED
      BY <2>5, <2>6, <2>9, <2>10, <2>12, NamesStayExplained
  <1>3. CASE Remove(r) \/ RemoveRow(r)
    <2> DEFINE d == q.doc
    <2>1. q.pc = "removing" /\ d \in Doc
      BY <1>a, <1>3 DEF Remove, RemoveRow, InOrder
    <2>2. rows' = [rows EXCEPT ![d] = [state |-> "gone", files |-> Null]] /\ broken' = broken
      BY <1>3 DEF Remove, RemoveRow, Removes
    <2>3. Names(rows'[d].files) = {} /\ \A e \in Doc \ {d} : rows'[e] = rows[e]
      BY <1>a, <2>1, <2>2 DEF Names
    <2>4. /\ Own(req'[r]) = {} /\ req'[r].pc \notin {"storing", "saving"}
          /\ Condemned(req'[r]) \subseteq Names(q.found)
          /\ Names(req'[r].found) = {} \/ (req'[r].found = q.found /\ req'[r].doc = d)
      <3>1. CASE Remove(r)
        <4>1. req'[r] = [q EXCEPT !.pc = "removed"]
          BY <1>a, <3>1 DEF Remove, Set
        <4>2. req'[r].pc = "removed" /\ req'[r].found = q.found /\ req'[r].doc = d
          BY <1>a, <4>1 DEF RequestState
        <4>3. QED
          BY <4>2 DEF Own, Condemned
      <3>2. CASE RemoveRow(r)
        <4>1. req'[r] = Purging(Names(q.found))
          BY <1>a, <3>2 DEF RemoveRow, Set
        <4>2. QED
          BY <4>1, CleaningHands
      <3>3. QED
        BY <1>3, <3>1, <3>2
    <2>5. MaySafelyStep(r, d, {}, {})
      BY <1>b, <1>c, <2>1, <2>2, <2>3, <2>4 DEF MaySafelyStep
    <2>6. \A e \in Doc : Names(q.found) \cap Names(rows'[e].files) \subseteq broken'
      BY <1>c, <1>d, <2>3
    <2>7. QED
      BY <2>4, <2>5, <2>6, NamesStayExplained
  <1>4. CASE SaveFails(r) \/ CollectFails(r)
    <2> DEFINE u == Undoing(q, q.stored \cup q.earlier)
    <2>1. Set(r, u) /\ UNCHANGED rows
      BY <1>4 DEF SaveFails, CollectFails, Undo
    <2>2. Own(u) = {} /\ Names(u.found) = {} /\ Condemned(u) = q.stored \cup q.earlier /\ u.pc = "undoing"
      BY CleaningHands
    <2> HIDE DEF u
    <2>3. CASE SaveFails(r)
      <3>1. Condemned(u) \subseteq Own(q)
        BY <1>e, <2>2, <2>3 DEF SaveFails
      <3>2. QED
        BY <1>c, <2>1, <2>2, <3>1, NamesGiveUp
    <2>4. CASE CollectFails(r)
      <3>1. Condemned(u) \subseteq broken'
        BY <2>2, <2>4 DEF CollectFails
      <3>2. QED
        BY <1>c, <2>1, <2>2, <3>1, NamesGiveUp
    <2>5. QED
      BY <1>4, <2>3, <2>4
  <1>5. CASE Collect(r) \/ CollectRemoved(r)
    <2>1. PICK names : /\ Set(r, Purging(names)) /\ UNCHANGED <<rows, broken>>
                       /\ names = Condemned(q)
      BY <1>5 DEF Collect, CollectRemoved, Condemned
    <2>2. Own(Purging(names)) = {} /\ Names(Purging(names).found) = {}
          /\ Condemned(Purging(names)) = names /\ Purging(names).pc = "purging"
      BY CleaningHands
    <2>3. QED
      BY <1>c, <2>1, <2>2, NamesGiveUp
  <1>6. CASE DeleteFails(r)
    <2>1. Set(r, Idle) /\ UNCHANGED <<rows, broken>>
      BY <1>6 DEF DeleteFails
    <2>2. QED
      BY <1>c, <2>1, CleaningHands, NamesGiveUp
  <1>7. QED
    BY <1>1, <1>2, <1>3, <1>4, <1>5, <1>6 DEF Change

\* The steps that delete files leave every name accounted for.
LEMMA NamesCleanUp ==
  ASSUME NamesInv, NEW r \in Request, CleanUp(r)
  PROVE  NamesHold'
  <1> DEFINE q == req[r]
  <1>a. q \in RequestState /\ InOrder(q) /\ req \in [Request -> RequestState]
    BY DEF NamesInv, ResourceFilesTypeOK, Orderly
  <1>b. /\ \E any : Set(r, any)
        /\ UNCHANGED <<rows, broken>> /\ q.pc \in {"undoing", "purging"}
    BY DEF CleanUp, Unlink, ForgetMeta, ForgetRow, Forgets, Finish, Deleting
  <1>c. \A p \in Request \ {r} : Alike(req[p], req'[p])
    BY <1>b, OthersAreAlike DEF NamesInv
  <1>d. Condemned(q) = ({q.hand} \ {Null}) \cup q.doomed
    BY <1>b DEF Condemned
  <1>1. CASE Unlink(r) \/ ForgetMeta(r) \/ ForgetRow(r)
    <2>1. /\ disk \ disk' \subseteq Condemned(q) /\ metas \ metas' \subseteq Condemned(q)
          /\ \/ \E f \in q.doomed : req'[r] = [q EXCEPT !.doomed = @ \ {f}, !.hand = f]
             \/ \E f \in q.doomed : req'[r] = [q EXCEPT !.doomed = @ \ {f}]
             \/ req'[r] = [q EXCEPT !.hand = Null]
      <3>1. CASE Unlink(r)
        BY <1>a, <1>d, <3>1 DEF Unlink, Set
      <3>2. CASE ForgetMeta(r) \/ ForgetRow(r)
        BY <1>a, <1>d, <3>2 DEF ForgetMeta, ForgetRow, Forgets, Set
      <3>3. QED
        BY <1>1, <3>1, <3>2
    <2>2. /\ req'[r].pc = q.pc /\ req'[r].found = q.found /\ req'[r].doc = q.doc
          /\ ({req'[r].hand} \ {Null}) \cup req'[r].doomed \subseteq Condemned(q)
      BY <1>a, <1>d, <2>1 DEF RequestState
    <2>3. Own(req'[r]) = {} /\ Condemned(req'[r]) \subseteq Condemned(q)
      BY <1>b, <2>2 DEF Own, Condemned
    <2>4. MaySafelyStep(r, Null, {}, {})
      BY <1>b, <1>c, <2>1, <2>2, <2>3 DEF MaySafelyStep
    <2>5. \A e \in Doc : /\ e # req'[r].doc => Names(req'[r].found) \cap Names(rows'[e].files) \subseteq broken'
                         /\ Condemned(req'[r]) \cap Names(rows'[e].files) \subseteq broken'
      BY <1>b, <2>2, <2>3 DEF NamesInv, NamesHold, FoundIsOfItsDocument, CondemnedAreUnnamed
    <2>6. QED
      BY <1>b, <2>2, <2>4, <2>5, NamesStayExplained
  <1>2. CASE Finish(r)
    <2>1. Set(r, Idle) /\ UNCHANGED <<rows, disk, metas, broken>>
      BY <1>2 DEF Finish
    <2>2. QED
      BY <2>1, CleaningHands, NamesGiveUp
  <1>3. QED
    BY <1>1, <1>2 DEF CleanUp

\* Every step leaves every name accounted for.
LEMMA NamesStep ==
  ASSUME NamesInv, [Next]_vars
  PROVE  NamesHold'
  <1>1. CASE UNCHANGED vars
    BY <1>1 DEF vars, NamesInv, NamesHold, RowsAreApart, FoundIsOfItsDocument, OwnIsNew, OwnIsApart,
                CondemnedAreUnnamed, OwnIsThere, MissingFilesAreExplained, Own, Condemned, Names,
                FilesToDelete, NewValue
  <1>2. CASE Crash
    <2>1. (\A r \in Request : req'[r] = Idle) /\ UNCHANGED <<rows, disk, metas, broken>>
      BY <1>2 DEF Crash
    <2>2. Own(Idle) = {} /\ Condemned(Idle) = {} /\ Names(Idle.found) = {} /\ Idle.pc = "idle"
      BY CleaningHands
    <2>3. \A r \in Request : /\ Own(req'[r]) = {} /\ Condemned(req'[r]) = {} /\ Names(req'[r].found) = {}
                             /\ req'[r].pc = "idle"
      BY <2>1, <2>2
    <2>4. RowsAreApart' /\ MissingFilesAreExplained'
      BY <2>1 DEF NamesInv, NamesHold, RowsAreApart, MissingFilesAreExplained, Names
    <2>5. FoundIsOfItsDocument' /\ OwnIsThere'
      BY <2>3 DEF FoundIsOfItsDocument, OwnIsThere, Names
    <2>6. OwnIsNew' /\ OwnIsApart'
      BY <2>3 DEF OwnIsNew, OwnIsApart, Own, Names, Condemned, FilesToDelete, NewValue
    <2>7. CondemnedAreUnnamed'
      BY <2>3 DEF CondemnedAreUnnamed, Names, Condemned, FilesToDelete, NewValue
    <2>8. QED
      BY <2>4, <2>5, <2>6, <2>7 DEF NamesHold
  <1>3. QED
    BY <1>1, <1>2, NamesArrive, NamesPersist, NamesChange, NamesCleanUp DEF Next

\* In the beginning nothing has a name.
LEMMA NamesInit == Init => NamesInv
  <1> SUFFICES ASSUME Init
               PROVE  NamesInv
    OBVIOUS
  <1>1. \A r \in Request : req[r] = Idle
    BY DEF Init
  <1>2. Own(Idle) = {} /\ Condemned(Idle) = {} /\ Names(Idle.found) = {} /\ Idle.pc = "idle"
    BY CleaningHands
  <1>3. \A d \in Doc : Names(rows[d].files) = {}
    BY DEF Init, Names
  <1>4. QED
    BY <1>1, <1>2, <1>3, OrderInit
    DEF NamesInv, NamesHold, RowsAreApart, FoundIsOfItsDocument, OwnIsNew, OwnIsApart, CondemnedAreUnnamed,
        OwnIsThere, MissingFilesAreExplained

\* Every name is accounted for in every reachable state.
LEMMA NamesInvariant == Spec => []NamesInv
  <1>1. NamesInv /\ [Next]_vars => NamesInv'
    BY OrderStep, NamesStep DEF NamesInv
  <1>2. QED
    BY NamesInit, <1>1, PTL DEF Spec

\* A document names a file that is not there, or has no metadata, only where the code
\* writes a name without a file to last, with either library and whatever fails.
THEOREM MissingFilesExplained == Spec => []MissingFilesAreExplained
  <1>1. NamesInv => MissingFilesAreExplained
    BY DEF NamesInv, NamesHold
  <1>2. QED
    BY NamesInvariant, <1>1, PTL

(***************************************************************************)
(* Arrays that are never null                                              *)
(***************************************************************************)

\* A step of one request that writes no document, and no name without a file.
LEMMA NothingBreaksAside ==
  ASSUME NothingBreaks, ResourceFilesTypeOK, Orderly, NEW r \in Request, NEW q, Set(r, q),
         UNCHANGED <<rows, broken>>, FoundIsCurrent(q), KeepsFound(q)
  PROVE  NothingBreaks'
  <1>1. \A p \in Request : req'[p] = IF p = r THEN q ELSE req[p]
    BY DEF ResourceFilesTypeOK, Set
  <1>2. \A p \in Request : FoundIsCurrent(req'[p]) /\ KeepsFound(req'[p])
    BY <1>1 DEF NothingBreaks
  <1>3. QED
    BY <1>2 DEF NothingBreaks, LiveHaveArrays, FoundIsCurrent, KeepsFound, Live, Names

\* In an array that is never null, no step breaks a name.
LEMMA NothingBreaksStep ==
  ASSUME ArrayAlone, ResourceFilesTypeOK, Orderly, NothingBreaks, [Next]_vars
  PROVE  NothingBreaks'
  <1>1. CASE UNCHANGED vars
    BY <1>1 DEF vars, NothingBreaks, LiveHaveArrays, FoundIsCurrent, KeepsFound, Live, Names
  <1>2. CASE Crash
    <2>1. \A r \in Request : req'[r].pc = "idle"
      BY <1>2, CleaningHands DEF Crash
    <2>2. \A r \in Request : FoundIsCurrent(req[r])' /\ KeepsFound(req[r])'
      BY <2>1 DEF FoundIsCurrent, KeepsFound
    <2>3. UNCHANGED <<rows, broken>>
      BY <1>2 DEF Crash
    <2>4. QED
      BY <2>2, <2>3 DEF NothingBreaks, LiveHaveArrays, Live
  <1>3. ASSUME NEW r \in Request, Arrive(r) \/ Persist(r) \/ Change(r) \/ CleanUp(r)
        PROVE  NothingBreaks'
    <2> DEFINE q == req[r]
               new == NewValue(q)
    <2>a. q \in RequestState /\ InOrder(q) /\ FoundIsCurrent(q) /\ KeepsFound(q)
          /\ req \in [Request -> RequestState] /\ rows \in [Doc -> Row]
      BY DEF ResourceFilesTypeOK, Orderly, NothingBreaks
    <2>b. orm = "mongoose" /\ IsArray
      BY OrmsAssumption DEF ArrayAlone, ResourceFilesTypeOK
    <2>1. ASSUME NEW next, Set(r, next), UNCHANGED <<rows, broken>>,
                 next.pc \notin {"storing", "saving"}
          PROVE  NothingBreaks'
      BY <2>1, NothingBreaksAside DEF FoundIsCurrent, KeepsFound
    <2>2. ASSUME NEW next, Set(r, next), UNCHANGED <<rows, broken>>,
                 q.pc = "storing", next.pc \in {"storing", "saving"}, next.op = q.op, next.doc = q.doc,
                 next.found = q.found, next.want = q.want, next.stale = q.stale,
                 next.pc = "saving" => NamesValid(q)
          PROVE  NothingBreaks'
      <3>1. FoundIsCurrent(next)
        BY <2>2, <2>a DEF FoundIsCurrent
      <3>2. KeepsFound(next)
        <4>1. next.want # Null /\ (q.op = "upload" => q.want \subseteq Names(q.found))
          BY <2>2, <2>a DEF KeepsFound
        <4>2. next.pc = "saving" /\ q.op = "update" => q.want \subseteq Names(q.found)
          BY <2>2, <2>a, <2>b, <4>1 DEF NamesValid, FoundIsCurrent, Names
        <4>3. q.op \in {"create", "update", "upload"}
          BY <2>2, <2>a DEF InOrder, KnowsItsDocument
        <4>4. QED
          BY <2>2, <4>1, <4>2, <4>3 DEF KeepsFound
      <3>3. QED
        BY <2>2, <3>1, <3>2, NothingBreaksAside
    <2>3. CASE Arrive(r)
      <3>1. PICK next \in RequestState : Arrived(r, next)
        BY <2>3, RequestsArrive
      <3>2. Set(r, next) /\ UNCHANGED <<rows, broken>>
        BY <3>1 DEF Arrived
      <3>3. FoundIsCurrent(next)
        BY <3>1 DEF Arrived, FoundIsCurrent, NothingBreaks, LiveHaveArrays, Live
      <3>4. KeepsFound(next)
        <4>1. next.op \in {"create", "update", "upload"} => next.want # Null
          BY <3>1, FieldAssumption DEF Arrived, ArrayAlone
        <4>2. next.pc \in {"storing", "saving"} => next.pc = "storing" /\ next.op # "delete"
          BY <3>1 DEF Arrived
        <4>3. next.op = "upload" => next.want = Names(next.found)
          BY <2>b, <3>1 DEF Arrived
        <4>4. next.op \in {"create", "update", "upload", "delete"}
          BY <3>1 DEF Arrived
        <4>5. QED
          BY <4>1, <4>2, <4>3, <4>4 DEF KeepsFound
      <3>5. QED
        BY <3>2, <3>3, <3>4, NothingBreaksAside
    <2>4. CASE Persist(r)
      <3>1. CASE Store(r)
        <4>1. PICK f : Set(r, [q EXCEPT !.hand = f, !.made = @ \cup {f}])
          BY <3>1 DEF Store
        <4> DEFINE next == [q EXCEPT !.hand = f, !.made = @ \cup {f}]
        <4>2. /\ q.pc = "storing" /\ next.pc = q.pc /\ next.op = q.op /\ next.doc = q.doc
              /\ next.found = q.found /\ next.want = q.want /\ next.stale = q.stale
              /\ UNCHANGED <<rows, broken>>
          BY <2>a, <3>1 DEF Store, Uploading, RequestState
        <4> HIDE DEF next
        <4>3. Set(r, next)
          BY <4>1 DEF next
        <4>4. QED
          BY <2>2, <4>2, <4>3
      <3>2. CASE StoreFails(r) \/ SaveMetaFails(r) \/ Reject(r)
        <4>1. Set(r, Undoing(q, q.stored)) /\ UNCHANGED <<rows, broken>>
          BY <3>2 DEF StoreFails, SaveMetaFails, Reject, PersistFails
        <4>2. QED
          BY <2>1, <4>1, CleaningHands
      <3>3. ~MoveFails(r)
        BY DEF MoveFails, ArrayAlone
      <3>4. CASE SaveMeta(r)
        <4> DEFINE next == [q EXCEPT !.stored = @ \cup {q.hand}, !.hand = Null, !.calls = OneLess(@)]
        <4>1. /\ q.pc = "storing" /\ next.pc = q.pc /\ next.op = q.op /\ next.doc = q.doc
              /\ next.found = q.found /\ next.want = q.want /\ next.stale = q.stale
              /\ Set(r, next) /\ UNCHANGED <<rows, broken>>
          BY <2>a, <3>4 DEF SaveMeta, RequestState
        <4> HIDE DEF next
        <4>2. QED
          BY <2>2, <4>1
      <3>5. CASE Persisted(r)
        <4> DEFINE next == [q EXCEPT !.pc = IF Len(q.calls) = 1 THEN "saving" ELSE "storing",
                                     !.calls = IF Len(@) = 1 THEN @ ELSE Tail(@),
                                     !.earlier = @ \cup q.stored, !.stored = {}]
        <4>1. /\ q.pc = "storing" /\ next.pc \in {"storing", "saving"} /\ next.op = q.op
              /\ next.doc = q.doc /\ next.found = q.found /\ next.want = q.want /\ next.stale = q.stale
              /\ Set(r, next) /\ UNCHANGED <<rows, broken>> /\ NamesValid(q)
          BY <2>a, <3>5 DEF Persisted, RequestState
        <4> HIDE DEF next
        <4>2. QED
          BY <2>2, <4>1
      <3>6. QED
        BY <2>4, <3>1, <3>2, <3>3, <3>4, <3>5 DEF Persist
    <2>5. CASE Insert(r)
      <3>1. PICK d \in Doc : /\ rows[d].state = "new"
                             /\ rows' = [rows EXCEPT ![d] = [state |-> "live", files |-> new]]
        BY <2>5 DEF Insert, Inserts
      <3>2. new # Null
        BY <2>5, <2>a, NewValueIsValue DEF Insert, KeepsFound
      <3>3. LiveHaveArrays'
        BY <2>a, <3>1, <3>2 DEF NothingBreaks, LiveHaveArrays, Live
      <3>4. \A p \in Request : FoundIsCurrent(req[p])' /\ KeepsFound(req[p])'
        <4> SUFFICES ASSUME NEW p \in Request
                     PROVE  FoundIsCurrent(req[p])' /\ KeepsFound(req[p])'
          OBVIOUS
        <4>1. CASE p = r
          BY <2>5, <2>a, <4>1 DEF Insert, Set, Idle, FoundIsCurrent, KeepsFound
        <4>2. CASE p # r
          <5>1. req'[p] = req[p]
            BY <2>5, <2>a, <4>2 DEF Insert, Set
          <5>2. FoundIsCurrent(req[p]) /\ KeepsFound(req[p]) /\ InOrder(req[p])
            BY DEF NothingBreaks, Orderly
          <5>3. FoundIsCurrent(req[p])'
            BY <2>a, <3>1, <5>1, <5>2 DEF FoundIsCurrent, Live, InOrder, KnowsItsDocument
          <5>4. QED
            BY <5>1, <5>2, <5>3 DEF KeepsFound, Names
        <4>3. QED
          BY <4>1, <4>2
      <3>5. broken' = {}
        BY <2>5 DEF Insert, Inserts, NothingBreaks
      <3>6. QED
        BY <3>3, <3>4, <3>5 DEF NothingBreaks
    <2>6. CASE Save(r)
      <3> DEFINE d == q.doc
      <3>1. q.pc = "saving" /\ d \in Doc /\ MaySave(q) /\ q.op # "create"
        BY <2>6, <2>a DEF Save, InOrder, KnowsItsDocument
      <3>2. /\ rows' = [rows EXCEPT ![d] = [state |-> "live", files |-> new]]
            /\ broken' = broken \cup (Names(q.want) \ Names(rows[d].files))
        BY <2>6 DEF Save, Write
      <3>3. new # Null /\ q.want # Null
        BY <2>a, <3>1, NewValueIsValue DEF KeepsFound
      <3>4. rows[d].files = q.found
        BY <2>a, <2>b, <3>1, <3>3 DEF MaySave, FoundIsCurrent
      <3>5. Names(q.want) \subseteq Names(rows[d].files)
        BY <2>a, <3>1, <3>3, <3>4 DEF KeepsFound, Names
      <3>6. broken' = {}
        BY <3>2, <3>5 DEF NothingBreaks
      <3>7. LiveHaveArrays'
        BY <2>a, <3>1, <3>2, <3>3 DEF NothingBreaks, LiveHaveArrays, Live
      <3>8. ASSUME NEW p \in Request
            PROVE  FoundIsCurrent(req[p])' /\ KeepsFound(req[p])'
        <4>1. CASE p = r
          <5>1. req'[p].pc = "saved"
            BY <2>6, <2>a, <4>1, SaveTells DEF RequestState
          <5>2. QED
            BY <5>1 DEF FoundIsCurrent, KeepsFound
        <4>2. CASE p # r
          <5>1. req'[p] = [req[p] EXCEPT !.stale = @ \/ (/\ IsArray /\ new # Null
                                                         /\ req[p].doc = q.doc)]
            BY <2>6, <4>2, SaveTells
          <5>2. req[p] \in RequestState /\ FoundIsCurrent(req[p]) /\ KeepsFound(req[p]) /\ InOrder(req[p])
            BY DEF NothingBreaks, Orderly, ResourceFilesTypeOK
          <5>3. /\ req'[p].pc = req[p].pc /\ req'[p].op = req[p].op /\ req'[p].doc = req[p].doc
                /\ req'[p].found = req[p].found /\ req'[p].want = req[p].want
                /\ req'[p].stale = (req[p].stale \/ req[p].doc = d)
            BY <2>b, <3>3, <5>1, <5>2 DEF RequestState
          <5>4. FoundIsCurrent(req[p])'
            BY <2>a, <3>1, <3>2, <5>2, <5>3 DEF FoundIsCurrent, Live, InOrder, KnowsItsDocument
          <5>5. QED
            BY <5>2, <5>3, <5>4 DEF KeepsFound, Names
        <4>3. QED
          BY <4>1, <4>2
      <3>9. QED
        BY <3>6, <3>7, <3>8 DEF NothingBreaks
    <2>7. CASE SaveFails(r)
      <3>1. Set(r, Undoing(q, q.stored \cup q.earlier)) /\ UNCHANGED <<rows, broken>>
        BY <2>7 DEF SaveFails, Undo
      <3>2. QED
        BY <2>1, <3>1, CleaningHands
    <2>8. ~InsertRow(r) /\ ~SaveRow(r) /\ ~CollectFails(r) /\ ~RemoveRow(r)
      BY <2>b DEF InsertRow, SaveRow, CollectFails, FindsMetadata, RemoveRow, ArrayAlone
    <2>9. CASE Collect(r) \/ CollectRemoved(r)
      <3>1. PICK names : Set(r, Purging(names)) /\ UNCHANGED <<rows, broken>>
        BY <2>9 DEF Collect, CollectRemoved
      <3>2. QED
        BY <2>1, <3>1, CleaningHands
    <2>10. CASE Remove(r)
      <3>1. q.pc = "removing" /\ q.doc \in Doc
        BY <2>10, <2>a DEF Remove, InOrder
      <3>2. rows' = [rows EXCEPT ![q.doc] = [state |-> "gone", files |-> Null]] /\ broken' = broken
        BY <2>10 DEF Remove, Removes
      <3>3. req'[r].pc = "removed" /\ \A p \in Request \ {r} : req'[p] = req[p]
        BY <2>10, <2>a DEF Remove, Set, RequestState
      <3>4. LiveHaveArrays'
        BY <2>a, <3>1, <3>2 DEF NothingBreaks, LiveHaveArrays, Live
      <3>5. ASSUME NEW p \in Request
            PROVE  FoundIsCurrent(req[p])' /\ KeepsFound(req[p])'
        <4>1. CASE p = r
          BY <3>3, <4>1 DEF FoundIsCurrent, KeepsFound
        <4>2. CASE p # r
          <5>1. req'[p] = req[p]
            BY <3>3, <4>2
          <5>2. FoundIsCurrent(req[p]) /\ KeepsFound(req[p]) /\ InOrder(req[p])
            BY DEF NothingBreaks, Orderly
          <5>3. FoundIsCurrent(req[p])'
            BY <2>a, <3>1, <3>2, <5>1, <5>2 DEF FoundIsCurrent, Live, InOrder, KnowsItsDocument
          <5>4. QED
            BY <5>1, <5>2, <5>3 DEF KeepsFound, Names
        <4>3. QED
          BY <4>1, <4>2
      <3>6. QED
        BY <3>2, <3>4, <3>5 DEF NothingBreaks
    <2>11. CASE DeleteFails(r) \/ Finish(r)
      <3>1. Set(r, Idle) /\ UNCHANGED <<rows, broken>>
        BY <2>11 DEF DeleteFails, Finish
      <3>2. QED
        BY <2>1, <3>1, CleaningHands
    <2>12. CASE Unlink(r) \/ ForgetMeta(r) \/ ForgetRow(r)
      <3>1. PICK next : Set(r, next) /\ next.pc = q.pc
        <4>1. CASE Unlink(r)
          <5>1. PICK f : \/ Set(r, [q EXCEPT !.doomed = @ \ {f}, !.hand = f])
                         \/ Set(r, [q EXCEPT !.doomed = @ \ {f}])
            BY <4>1 DEF Unlink
          <5>2. /\ [q EXCEPT !.doomed = @ \ {f}, !.hand = f].pc = q.pc
                /\ [q EXCEPT !.doomed = @ \ {f}].pc = q.pc
            BY <2>a DEF RequestState
          <5>3. QED
            BY <5>1, <5>2
        <4>2. CASE ForgetMeta(r) \/ ForgetRow(r)
          <5>1. Set(r, [q EXCEPT !.hand = Null])
            BY <4>2 DEF ForgetMeta, ForgetRow, Forgets
          <5>2. [q EXCEPT !.hand = Null].pc = q.pc
            BY <2>a DEF RequestState
          <5>3. QED
            BY <5>1, <5>2
        <4>3. QED
          BY <2>12, <4>1, <4>2
      <3>2. UNCHANGED <<rows, broken>> /\ q.pc \in {"undoing", "purging"}
        BY <2>12 DEF Unlink, Deleting, ForgetMeta, ForgetRow, Forgets
      <3>3. QED
        BY <2>1, <3>1, <3>2
    <2>13. QED
      BY <1>3, <2>3, <2>4, <2>5, <2>6, <2>7, <2>8, <2>9, <2>10, <2>11, <2>12 DEF Change, CleanUp
  <1>4. QED
    BY <1>1, <1>2, <1>3 DEF Next

\* In a field of an array that is never null, and while nothing fails after a save, no name
\* is ever written without a file to last.
LEMMA NothingBreaksInvariant == ArrayAlone => (Spec => []NothingBreaks)
  <1> SUFFICES ASSUME ArrayAlone
               PROVE  Spec => []NothingBreaks
    OBVIOUS
  <1>1. Init => NothingBreaks
    BY DEF Init, NothingBreaks, LiveHaveArrays, Live, FoundIsCurrent, KeepsFound, Idle
  <1>2. ResourceFilesTypeOK /\ Orderly /\ NothingBreaks /\ [Next]_vars => NothingBreaks'
    BY NothingBreaksStep
  <1>3. QED
    BY <1>1, <1>2, OrderInvariant, PTL DEF Spec

\* There a file that a document names is in the storage with its metadata, whatever
\* requests overlap, however they fail before the save, and wherever the process dies.
THEOREM NamedFilesAreThere == ArrayAlone => (Spec => []NamesHaveFiles)
  <1> SUFFICES ASSUME ArrayAlone
               PROVE  Spec => []NamesHaveFiles
    OBVIOUS
  <1>1. NamesInv /\ NothingBreaks => NamesHaveFiles
    BY DEF NamesInv, NamesHold, MissingFilesAreExplained, NothingBreaks, NamesHaveFiles
  <1>2. QED
    BY <1>1, NamesInvariant, NothingBreaksInvariant, PTL

(***************************************************************************)
(* Files of one document                                                   *)
(***************************************************************************)

\* What a step of one request may do: it writes its own document, or a new one, with names
\* it claims and with what it has stored; and it claims no more but the names of the
\* document that it reads, and new ones.
MayStepApart(r, d, added, new) ==
  LET q == req[r]
      next == req'[r]
  IN
  /\ \A p \in Request \ {r} : Alike(req[p], req'[p])
  /\ \A e \in Doc \ {d} : rows'[e] = rows[e]
  /\ d \in Doc => Names(rows'[d].files) \subseteq Names(rows[d].files) \cup Claimed(q) \cup added
  /\ d = q.doc \/ Claimed(q) = {}
  /\ added \subseteq Own(q) /\ (UNCHANGED rows \/ Own(next) = {})
  /\ Own(next) \subseteq Own(q) \cup new
  /\ \/ Claimed(next) = {}
     \/ next.doc = q.doc /\ Claimed(next) \subseteq Claimed(q) \cup new
     \/ next.doc \in Doc /\ Claimed(next) \subseteq Names(rows[next.doc].files) /\ UNCHANGED rows
  /\ \A e \in Doc : new \cap Names(rows'[e].files) = {}
  /\ \A p \in Request \ {r} : new \cap (Own(req[p]) \cup Claimed(req[p])) = {}
  /\ IsArray /\ next.pc \in {"storing", "saving"} =>
       next.want # Null /\ (next.op # "create" => next.found # Null)
  /\ IsArray /\ d \in Doc /\ rows'[d].state = "live" => rows'[d].files # Null

\* A step that moves names as MayStepApart says keeps the documents apart.
LEMMA FilesStayApart ==
  ASSUME ApartInv, NEW r \in Request, NEW d, NEW added, NEW new, MayStepApart(r, d, added, new)
  PROVE  ApartInv'
  <1> USE DEF ApartInv
  <1>a. \A p \in Request \ {r} : /\ req'[p].pc = req[p].pc /\ req'[p].op = req[p].op /\ req'[p].doc = req[p].doc
                                 /\ req'[p].found = req[p].found /\ req'[p].want = req[p].want
                                 /\ Own(req'[p]) = Own(req[p]) /\ Claimed(req'[p]) = Claimed(req[p])
    BY DEF MayStepApart, Alike, Claimed
  <1>b. \A e \in Doc : Names(rows'[e].files) \subseteq
                         Names(rows[e].files) \cup (IF e = d THEN Claimed(req[r]) \cup added ELSE {})
    BY DEF MayStepApart
  <1>c. added \subseteq Own(req[r])
    BY DEF MayStepApart
  <1>1. ArraysStand'
    BY <1>a DEF ArraysStand, MayStepApart, Live
  <1>2. FilesBelongToOneDocument'
    <2> SUFFICES ASSUME NEW e \in Doc, NEW g \in Doc, e # g,
                        NEW f \in Names(rows'[e].files) \cap Names(rows'[g].files)
                 PROVE  FALSE
      BY DEF FilesBelongToOneDocument, Names
    <2>1. ~(f \in Names(rows[e].files) \cap Names(rows[g].files))
      BY DEF FilesBelongToOneDocument
    <2>2. f \notin Own(req[r]) \/ ~(f \in Names(rows[e].files) \cup Names(rows[g].files))
      BY DEF StoredAreNew
    <2>3. ASSUME NEW o \in Doc, o # d, f \in Claimed(req[r])
          PROVE  f \notin Names(rows[o].files)
      BY <2>3 DEF ClaimsAreOfItsDocument, MayStepApart
    <2>4. QED
      BY <1>b, <1>c, <2>1, <2>2, <2>3
  <1>3. ClaimsAreOfItsDocument'
    <2> SUFFICES ASSUME NEW p \in Request, NEW e \in Doc, e # req'[p].doc,
                        NEW f \in Claimed(req'[p]) \cap Names(rows'[e].files)
                 PROVE  FALSE
      BY DEF ClaimsAreOfItsDocument, Claimed, Names
    <2>1. CASE p = r
      <3>1. CASE Claimed(req'[r]) = {}
        BY <2>1, <3>1
      <3>2. CASE req'[r].doc = req[r].doc /\ Claimed(req'[r]) \subseteq Claimed(req[r]) \cup new
        <4>1. f \in Claimed(req[r])
          BY <2>1, <3>2 DEF MayStepApart
        <4>2. e # d
          BY <2>1, <3>2, <4>1 DEF MayStepApart
        <4>3. QED
          BY <1>b, <2>1, <3>2, <4>1, <4>2 DEF ClaimsAreOfItsDocument
      <3>3. CASE /\ req'[r].doc \in Doc /\ UNCHANGED rows
                 /\ Claimed(req'[r]) \subseteq Names(rows[req'[r].doc].files)
        BY <2>1, <3>3 DEF FilesBelongToOneDocument
      <3>4. QED
        BY <3>1, <3>2, <3>3 DEF MayStepApart
    <2>2. CASE p # r
      <3>1. e # req[p].doc /\ f \in Claimed(req[p])
        BY <1>a, <2>2
      <3>2. f \notin Names(rows[e].files)
        BY <3>1 DEF ClaimsAreOfItsDocument
      <3>3. f \notin Own(req[r])
        BY <2>2, <3>1 DEF StoredAreNew
      <3>4. f \in Claimed(req[r]) => e # d
        BY <3>1 DEF ClaimsAreApart, MayStepApart
      <3>5. QED
        BY <1>b, <1>c, <3>2, <3>3, <3>4
    <2>3. QED
      BY <2>1, <2>2
  <1>4. ClaimsAreApart'
    <2>1. ASSUME NEW p \in Request \ {r}, req'[r].doc # req[p].doc,
                 NEW f \in Claimed(req'[r]) \cap Claimed(req[p])
          PROVE  FALSE
      <3>1. CASE Claimed(req'[r]) = {}
        BY <2>1, <3>1
      <3>2. CASE req'[r].doc = req[r].doc /\ Claimed(req'[r]) \subseteq Claimed(req[r]) \cup new
        BY <2>1, <3>2 DEF ClaimsAreApart, MayStepApart
      <3>3. CASE /\ req'[r].doc \in Doc /\ UNCHANGED rows
                 /\ Claimed(req'[r]) \subseteq Names(rows[req'[r].doc].files)
        BY <2>1, <3>3 DEF ClaimsAreOfItsDocument
      <3>4. QED
        BY <3>1, <3>2, <3>3 DEF MayStepApart
    <2> SUFFICES ASSUME NEW p \in Request, NEW o \in Request, req'[p].doc # req'[o].doc,
                        NEW f \in Claimed(req'[p]) \cap Claimed(req'[o])
                 PROVE  FALSE
      BY DEF ClaimsAreApart, Claimed, Names
    <2>2. CASE p = r
      BY <1>a, <2>1, <2>2
    <2>3. CASE o = r
      BY <1>a, <2>1, <2>3
    <2>4. CASE p # r /\ o # r
      BY <1>a, <2>4 DEF ClaimsAreApart
    <2>5. QED
      BY <2>2, <2>3, <2>4
  <1>5. StoredAreNew'
    <2>1. ASSUME NEW p \in Request, NEW e \in Doc, NEW f \in Own(req'[p]) \cap Names(rows'[e].files)
          PROVE  FALSE
      <3>1. CASE p = r
        <4>1. f \in Own(req[r]) /\ f \in Names(rows[e].files)
          BY <2>1, <3>1 DEF MayStepApart
        <4>2. QED
          BY <4>1 DEF StoredAreNew
      <3>2. CASE p # r
        <4>1. f \in Own(req[p])
          BY <1>a, <2>1, <3>2
        <4>2. f \notin Names(rows[e].files) /\ f \notin Claimed(req[r]) /\ f \notin Own(req[r])
          BY <3>2, <4>1 DEF StoredAreNew
        <4>3. QED
          BY <1>b, <1>c, <2>1, <4>2
      <3>3. QED
        BY <3>1, <3>2
    <2>2. ASSUME NEW p \in Request, NEW o \in Request, p # o,
                 NEW f \in Own(req'[p]), f \in Own(req'[o]) \cup Claimed(req'[o])
          PROVE  FALSE
      <3>1. CASE p = r
        <4>1. f \in Own(req[r]) \cup new /\ f \in Own(req[o]) \cup Claimed(req[o])
          BY <1>a, <2>2, <3>1 DEF MayStepApart
        <4>2. QED
          BY <2>2, <3>1, <4>1 DEF StoredAreNew, MayStepApart
      <3>2. CASE o = r
        <4>1. f \in Own(req[p]) /\ f \notin new
          BY <1>a, <2>2, <3>2 DEF MayStepApart
        <4>2. f \in Own(req[r]) \cup Claimed(req[r]) \/ \E e \in Doc : f \in Names(rows[e].files)
          BY <2>2, <3>2, <4>1 DEF MayStepApart
        <4>3. QED
          BY <2>2, <3>2, <4>1, <4>2 DEF StoredAreNew
      <3>3. CASE p # r /\ o # r
        BY <1>a, <2>2, <3>3 DEF StoredAreNew
      <3>4. QED
        BY <3>1, <3>2, <3>3
    <2>3. QED
      BY <2>1, <2>2 DEF StoredAreNew, Own, Claimed, Names
  <1>6. QED
    BY <1>1, <1>2, <1>3, <1>4, <1>5

\* A step that writes no document, and takes no name.
LEMMA ApartAside ==
  ASSUME ResourceFilesTypeOK, Orderly, ApartInv, NEW r \in Request, NEW next, Set(r, next), UNCHANGED rows,
         Own(next) \subseteq Own(req[r]),
         Claimed(next) = {} \/ (next.doc = req[r].doc /\ Claimed(next) \subseteq Claimed(req[r])),
         IsArray /\ next.pc \in {"storing", "saving"} =>
           next.want # Null /\ (next.op # "create" => next.found # Null)
  PROVE  ApartInv'
  <1>1. req'[r] = next /\ \A p \in Request \ {r} : Alike(req[p], req'[p])
    BY OthersAreAlike DEF ResourceFilesTypeOK, Set
  <1>2. req[r].doc \in Doc /\ rows'[req[r].doc].state = "live" /\ IsArray => rows'[req[r].doc].files # Null
    BY DEF ApartInv, ArraysStand, Live
  <1>3. MayStepApart(r, req[r].doc, {}, {})
    BY <1>1, <1>2 DEF MayStepApart
  <1>4. QED
    BY <1>3, FilesStayApart

\* A request that is over, or has only files left to delete, claims nothing.
LEMMA CleaningClaims ==
  ASSUME NEW q, NEW names
  PROVE  Claimed(Undoing(q, names)) = {} /\ Claimed(Purging(names)) = {} /\ Claimed(Idle) = {}
  BY DEF Claimed, Undoing, Purging, Idle, Names

\* A request that turns to deleting files, or ends, keeps the documents apart.
LEMMA ApartCleaning ==
  ASSUME ResourceFilesTypeOK, Orderly, ApartInv, NEW r \in Request, NEW names, UNCHANGED rows,
         Set(r, Undoing(req[r], names)) \/ Set(r, Purging(names)) \/ Set(r, Idle)
  PROVE  ApartInv'
  BY ApartAside, CleaningHands, CleaningClaims

\* Arrive keeps the documents apart.
LEMMA ApartArrive ==
  ASSUME KnowsItsNames, ResourceFilesTypeOK, Orderly, ApartInv, NEW r \in Request, Arrive(r)
  PROVE  ApartInv'
  <1>1. PICK next \in RequestState : Arrived(r, next)
    BY RequestsArrive
  <1>2. req'[r] = next /\ \A p \in Request \ {r} : Alike(req[p], req'[p])
    BY <1>1, OthersAreAlike DEF ResourceFilesTypeOK, Arrived, Set
  <1>3. Own(next) = {} /\ UNCHANGED rows
    BY <1>1 DEF Arrived, Own
  <1>4. Claimed(req[r]) = {}
    BY <1>1, CleaningClaims DEF Arrived, Orderly, InOrder
  <1>5. next.op = "create" => Claimed(next) = {}
    BY <1>1 DEF Arrived, Claimed, InOrder, KnowsItsDocument, Names
  <1>6. next.op # "create" =>
          next.doc \in Doc /\ Claimed(next) \subseteq Names(rows[next.doc].files)
    <2> SUFFICES ASSUME next.op # "create"
                 PROVE  next.doc \in Doc /\ Claimed(next) \subseteq Names(rows[next.doc].files)
      OBVIOUS
    <2>1. next.doc \in Doc /\ next.found = rows[next.doc].files
      BY <1>1 DEF Arrived
    <2>2. CASE next.op = "upload"
      <3>1. Names(next.want) \subseteq Names(next.found)
        BY <1>1, <2>2, NamesAreFiles DEF Arrived, RequestState
      <3>2. QED
        BY <2>1, <3>1 DEF Claimed
    <2>3. CASE next.op = "update"
      BY <1>1, <2>1, <2>3 DEF Arrived, Claimed
    <2>4. CASE next.op = "delete"
      BY <1>1, <2>1, <2>4 DEF Arrived, Claimed
    <2>5. QED
      BY <1>1, <2>2, <2>3, <2>4 DEF Arrived
  <1>7. IsArray /\ next.pc \in {"storing", "saving"} =>
          next.want # Null /\ (next.op # "create" => next.found # Null)
    <2> SUFFICES ASSUME IsArray, next.pc \in {"storing", "saving"}
                 PROVE  next.want # Null /\ (next.op # "create" => next.found # Null)
      OBVIOUS
    <2>1. next.op \in {"create", "update", "upload"}
      BY <1>1 DEF Arrived
    <2>2. next.want # Null
      BY <1>1, <2>1, FieldAssumption DEF Arrived, KnowsItsNames
    <2>3. next.op # "create" => next.found # Null
      BY <1>1 DEF Arrived, ApartInv, ArraysStand, Live
    <2>4. QED
      BY <2>2, <2>3
  <1>8. MayStepApart(r, Null, {}, {})
    BY <1>2, <1>3, <1>4, <1>5, <1>6, <1>7, FieldAssumption DEF MayStepApart
  <1>9. QED
    BY <1>8, FilesStayApart

\* The steps of persistFiles keep the documents apart.
LEMMA ApartPersist ==
  ASSUME ResourceFilesTypeOK, Orderly, ApartInv, NEW r \in Request, Persist(r)
  PROVE  ApartInv'
  <1> DEFINE q == req[r]
  <1>a. q \in RequestState /\ req \in [Request -> RequestState]
    BY DEF ResourceFilesTypeOK
  <1>b. q.pc = "storing" /\ UNCHANGED rows /\ \E any : Set(r, any)
    BY DEF Persist, Store, StoreFails, MoveFails, SaveMeta, SaveMetaFails, Reject, Persisted, PersistFails, Uploading
  <1>c. \A p \in Request \ {r} : Alike(req[p], req'[p])
    BY <1>b, OthersAreAlike
  <1>d. IsArray => q.want # Null /\ (q.op # "create" => q.found # Null)
    BY <1>b DEF ApartInv, ArraysStand
  <1>e. Own(q) = ({q.hand} \ {Null}) \cup q.stored \cup q.earlier
    BY <1>b DEF Own
  <1>f. ASSUME NEW f \in Fresh
        PROVE  /\ \A e \in Doc : f \notin Names(rows[e].files)
               /\ \A p \in Request : f \notin Own(req[p]) \cup Claimed(req[p])
    BY <1>f DEF Fresh, Known, Referenced, InHands, Own, Claimed
  <1>1. CASE StoreFails(r) \/ SaveMetaFails(r) \/ Reject(r)
    BY <1>1, <1>b, ApartCleaning DEF StoreFails, SaveMetaFails, Reject, PersistFails
  <1>2. CASE Store(r)
    <2>1. PICK f \in Fresh : Set(r, [q EXCEPT !.hand = f, !.made = @ \cup {f}])
      BY <1>2 DEF Store
    <2>2. req'[r] = [q EXCEPT !.hand = f, !.made = @ \cup {f}]
      BY <1>a, <2>1 DEF Set
    <2>3. /\ req'[r].pc = q.pc /\ req'[r].op = q.op /\ req'[r].doc = q.doc
          /\ req'[r].found = q.found /\ req'[r].want = q.want
          /\ req'[r].hand = f /\ req'[r].stored = q.stored /\ req'[r].earlier = q.earlier
      BY <1>a, <2>2 DEF RequestState
    <2>4. Claimed(req'[r]) = Claimed(q) /\ Own(req'[r]) \subseteq Own(q) \cup {f}
      BY <1>b, <1>e, <2>3 DEF Claimed, Own
    <2>5. q.doc \in Doc /\ rows'[q.doc].state = "live" /\ IsArray => rows'[q.doc].files # Null
      BY <1>b DEF ApartInv, ArraysStand, Live
    <2>6. MayStepApart(r, q.doc, {}, {f})
      BY <1>b, <1>c, <1>d, <1>f, <2>1, <2>3, <2>4, <2>5 DEF MayStepApart
    <2>7. QED
      BY <2>6, FilesStayApart
  <1>3. CASE MoveFails(r)
    <2>1. PICK f \in Fresh :
            Set(r, [q EXCEPT !.want = @ \cup {f}, !.made = @ \cup {f}, !.calls = OneLess(@),
                             !.bare = IF orm = "mongoose" THEN @ ELSE @ \cup {f}])
      BY <1>3 DEF MoveFails
    <2>2. req'[r] = [q EXCEPT !.want = @ \cup {f}, !.made = @ \cup {f}, !.calls = OneLess(@),
                              !.bare = IF orm = "mongoose" THEN @ ELSE @ \cup {f}]
      BY <1>a, <2>1 DEF Set
    <2>3. /\ req'[r].pc = q.pc /\ req'[r].op = q.op /\ req'[r].doc = q.doc
          /\ req'[r].found = q.found /\ req'[r].want = q.want \cup {f}
          /\ req'[r].hand = q.hand /\ req'[r].stored = q.stored /\ req'[r].earlier = q.earlier
      BY <1>a, <2>2 DEF RequestState
    <2>4. q.want # Null
      <3>1. q.calls \in Uploads /\ Head(q.calls) > 0
        BY <1>a, <1>3 DEF MoveFails, Uploading, RequestState
      <3>2. ~NoUploads(q.calls)
        BY <3>1, UploadsLeft
      <3>3. QED
        BY <1>b, <3>2 DEF Orderly, InOrder, NullStoresNothing
    <2>5. q.want \cup {f} \in SUBSET File
      BY <1>a, <2>1, <2>4 DEF RequestState, Value, Fresh
    <2>6. q.want \cup {f} # Null /\ Names(q.want \cup {f}) = Names(q.want) \cup {f}
      BY <2>4, <2>5, FieldAssumption DEF Names
    <2>7. Claimed(req'[r]) \subseteq Claimed(q) \cup {f}
      BY <1>b, <2>3, <2>6 DEF Claimed
    <2>8. Own(req'[r]) = Own(q)
      BY <2>3 DEF Own
    <2>9. q.doc \in Doc /\ rows'[q.doc].state = "live" /\ IsArray => rows'[q.doc].files # Null
      BY <1>b DEF ApartInv, ArraysStand, Live
    <2>10. MayStepApart(r, q.doc, {}, {f})
      BY <1>b, <1>c, <1>d, <1>f, <2>1, <2>3, <2>6, <2>7, <2>8, <2>9 DEF MayStepApart
    <2>11. QED
      BY <2>10, FilesStayApart
  <1>4. CASE SaveMeta(r)
    <2> DEFINE next == [q EXCEPT !.stored = @ \cup {q.hand}, !.hand = Null, !.calls = OneLess(@)]
    <2>1. Set(r, next) /\ q.hand # Null
      BY <1>4 DEF SaveMeta
    <2>2. /\ next.pc = q.pc /\ next.op = q.op /\ next.doc = q.doc
          /\ next.found = q.found /\ next.want = q.want
          /\ next.hand = Null /\ next.stored = q.stored \cup {q.hand} /\ next.earlier = q.earlier
      BY <1>a DEF RequestState
    <2> HIDE DEF next
    <2>3. Claimed(next) = Claimed(q) /\ Own(next) \subseteq Own(q)
      BY <1>b, <1>e, <2>1, <2>2 DEF Claimed, Own
    <2>4. QED
      BY <1>b, <1>d, <2>1, <2>2, <2>3, ApartAside
  <1>5. CASE Persisted(r)
    <2> DEFINE next == [q EXCEPT !.pc = IF Len(q.calls) = 1 THEN "saving" ELSE "storing",
                                 !.calls = IF Len(@) = 1 THEN @ ELSE Tail(@),
                                 !.earlier = @ \cup q.stored, !.stored = {}]
    <2>1. Set(r, next) /\ NamesValid(q)
      BY <1>5 DEF Persisted
    <2>2. /\ next.pc \in {"storing", "saving"} /\ next.op = q.op /\ next.doc = q.doc
          /\ next.found = q.found /\ next.want = q.want
          /\ next.hand = q.hand /\ next.stored = {} /\ next.earlier = q.earlier \cup q.stored
      BY <1>a DEF RequestState
    <2> HIDE DEF next
    <2>3. Own(next) \subseteq Own(q)
      BY <1>e, <2>2 DEF Own
    <2>4. Claimed(next) \subseteq Claimed(q)
      <3>1. CASE ~IsArray \/ q.op = "upload"
        BY <1>b, <2>2, <3>1 DEF Claimed
      <3>2. CASE IsArray /\ q.op = "update"
        <4>1. Names(q.want) \subseteq Names(q.found)
          BY <1>d, <2>1, <3>2 DEF NamesValid, Names
        <4>2. QED
          BY <2>2, <4>1 DEF Claimed
      <3>3. CASE q.op = "create"
        <4>1. Names(q.want) = {}
          BY <1>b, <3>3 DEF Orderly, InOrder, KnowsItsDocument
        <4>2. QED
          BY <2>2, <4>1 DEF Claimed
      <3>4. QED
        BY <1>b, <3>1, <3>2, <3>3 DEF Orderly, InOrder, KnowsItsDocument
    <2>5. QED
      BY <1>b, <1>d, <2>1, <2>2, <2>3, <2>4, ApartAside
  <1>6. QED
    BY <1>1, <1>2, <1>3, <1>4, <1>5 DEF Persist

\* The steps that change a document keep the documents apart.
LEMMA ApartChange ==
  ASSUME ResourceFilesTypeOK, Orderly, ApartInv, NEW r \in Request, Change(r)
  PROVE  ApartInv'
  <1> DEFINE q == req[r]
             new == NewValue(q)
  <1>a. q \in RequestState /\ InOrder(q) /\ req \in [Request -> RequestState] /\ rows \in [Doc -> Row]
    BY DEF ResourceFilesTypeOK, Orderly
  <1>b. \A p \in Request \ {r} : Alike(req[p], req'[p])
    <2>1. Save(r) \/ \E any : Set(r, any)
      BY DEF Change, Insert, InsertRow, SaveRow, SaveFails, Undo, Collect, CollectFails,
             Remove, RemoveRow, CollectRemoved, DeleteFails
    <2>2. QED
      BY <2>1, OthersAreAlike
  <1>c. ASSUME q.pc = "saving"
        PROVE  /\ Own(q) = q.stored \cup q.earlier
               /\ Names(new) = Names(q.want) \cup Own(q)
               /\ IsArray => new # Null
               /\ Claimed(q) = Names(q.found) \cup Names(q.want)
    <2>1. Own(q) = q.stored \cup q.earlier
      BY <1>a, <1>c DEF Own, InOrder
    <2>2. Names(new) = Names(q.want) \cup Own(q)
      <3>1. CASE q.want = Null
        BY <1>a, <1>c, <2>1, <3>1 DEF InOrder, NullStoresNothing, NewValue, Names
      <3>2. CASE q.want # Null
        BY <1>a, <2>1, <3>2, NewValueIsValue, NamesAreFiles DEF RequestState
      <3>3. QED
        BY <3>1, <3>2
    <2>3. IsArray => new # Null
      BY <1>a, <1>c, NewValueIsValue DEF ApartInv, ArraysStand
    <2>4. QED
      BY <1>c, <2>1, <2>2, <2>3 DEF Claimed
  <1>1. CASE Insert(r) \/ InsertRow(r)
    <2>1. q.pc = "saving" /\ Names(q.want) = {} /\ Names(q.found) = {}
      BY <1>a, <1>1 DEF Insert, InsertRow, InOrder, KnowsItsDocument
    <2>2. PICK d \in Doc :
            /\ rows' = [rows EXCEPT ![d] = [state |-> "live", files |-> new]]
            /\ Set(r, Idle) \/ Set(r, [q EXCEPT !.pc = "saved", !.doc = d])
      BY <1>1 DEF Insert, InsertRow, Inserts
    <2>3. rows'[d].files = new /\ \A e \in Doc \ {d} : rows'[e] = rows[e]
      BY <1>a, <2>2
    <2>4. Own(req'[r]) = {} /\ Claimed(req'[r]) = {} /\ req'[r].pc \notin {"storing", "saving"}
      <3>1. CASE Set(r, Idle)
        <4>1. req'[r] = Idle
          BY <1>a, <3>1 DEF Set
        <4>2. QED
          BY <4>1, CleaningHands, CleaningClaims
      <3>2. CASE Set(r, [q EXCEPT !.pc = "saved", !.doc = d])
        <4>1. req'[r] = [q EXCEPT !.pc = "saved", !.doc = d]
          BY <1>a, <3>2 DEF Set
        <4>2. req'[r].pc = "saved" /\ req'[r].found = q.found
          BY <1>a, <4>1 DEF RequestState
        <4>3. QED
          BY <2>1, <4>2 DEF Own, Claimed
      <3>3. QED
        BY <2>2, <3>1, <3>2
    <2>5. MayStepApart(r, d, Own(q), {})
      BY <1>b, <1>c, <2>1, <2>3, <2>4 DEF MayStepApart
    <2>6. QED
      BY <2>5, FilesStayApart
  <1>2. CASE Save(r) \/ SaveRow(r)
    <2> DEFINE d == q.doc
    <2>1. q.pc = "saving" /\ d \in Doc
      BY <1>a, <1>2 DEF Save, SaveRow, InOrder, KnowsItsDocument
    <2>2. rows' = [rows EXCEPT ![d] = [state |-> "live", files |-> new]]
      BY <1>2 DEF Save, SaveRow, Write
    <2>3. rows'[d].files = new /\ \A e \in Doc \ {d} : rows'[e] = rows[e]
      BY <1>a, <2>1, <2>2
    <2>4. req'[r] = [q EXCEPT !.pc = "saved"]
      BY <1>2, <1>a, SaveTells DEF SaveRow, Set
    <2>5. req'[r].pc = "saved" /\ req'[r].found = q.found /\ req'[r].doc = d
      BY <1>a, <2>4 DEF RequestState
    <2>6. Own(req'[r]) = {} /\ Claimed(req'[r]) = Names(q.found)
      BY <2>5 DEF Own, Claimed
    <2>7. MayStepApart(r, d, Own(q), {})
      BY <1>b, <1>c, <2>1, <2>3, <2>5, <2>6 DEF MayStepApart
    <2>8. QED
      BY <2>7, FilesStayApart
  <1>3. CASE Remove(r) \/ RemoveRow(r)
    <2> DEFINE d == q.doc
    <2>1. q.pc = "removing" /\ d \in Doc
      BY <1>a, <1>3 DEF Remove, RemoveRow, InOrder
    <2>2. rows' = [rows EXCEPT ![d] = [state |-> "gone", files |-> Null]]
      BY <1>3 DEF Remove, RemoveRow, Removes
    <2>3. Names(rows'[d].files) = {} /\ rows'[d].state = "gone" /\ \A e \in Doc \ {d} : rows'[e] = rows[e]
      BY <1>a, <2>1, <2>2 DEF Names
    <2>4. /\ Own(req'[r]) = {} /\ req'[r].pc \notin {"storing", "saving"}
          /\ Claimed(req'[r]) = {} \/ (Claimed(req'[r]) \subseteq Claimed(q) /\ req'[r].doc = d)
      <3>1. CASE Remove(r)
        <4>1. req'[r] = [q EXCEPT !.pc = "removed"]
          BY <1>a, <3>1 DEF Remove, Set
        <4>2. req'[r].pc = "removed" /\ req'[r].found = q.found /\ req'[r].doc = d
          BY <1>a, <4>1 DEF RequestState
        <4>3. QED
          BY <4>2 DEF Own, Claimed
      <3>2. CASE RemoveRow(r)
        <4>1. req'[r] = Purging(Names(q.found))
          BY <1>a, <3>2 DEF RemoveRow, Set
        <4>2. QED
          BY <4>1, CleaningHands, CleaningClaims
      <3>3. QED
        BY <1>3, <3>1, <3>2
    <2>5. MayStepApart(r, d, {}, {})
      BY <1>b, <2>1, <2>3, <2>4 DEF MayStepApart
    <2>6. QED
      BY <2>5, FilesStayApart
  <1>4. CASE SaveFails(r) \/ Collect(r) \/ CollectFails(r) \/ CollectRemoved(r) \/ DeleteFails(r)
    BY <1>4, ApartCleaning DEF SaveFails, Undo, Collect, CollectFails, CollectRemoved, DeleteFails
  <1>5. QED
    BY <1>1, <1>2, <1>3, <1>4 DEF Change

\* The steps that delete files keep the documents apart.
LEMMA ApartCleanUp ==
  ASSUME ResourceFilesTypeOK, Orderly, ApartInv, NEW r \in Request, CleanUp(r)
  PROVE  ApartInv'
  <1> DEFINE q == req[r]
  <1>a. q \in RequestState
    BY DEF ResourceFilesTypeOK
  <1>1. CASE Unlink(r) \/ ForgetMeta(r) \/ ForgetRow(r)
    <2>1. q.pc \in {"undoing", "purging"} /\ UNCHANGED rows
      BY <1>1 DEF Unlink, Deleting, ForgetMeta, ForgetRow, Forgets
    <2>2. \/ \E f : Set(r, [q EXCEPT !.doomed = @ \ {f}, !.hand = f])
          \/ \E f : Set(r, [q EXCEPT !.doomed = @ \ {f}])
          \/ Set(r, [q EXCEPT !.hand = Null])
      <3>1. CASE Unlink(r)
        BY <3>1 DEF Unlink
      <3>2. CASE ForgetMeta(r) \/ ForgetRow(r)
        BY <3>2 DEF ForgetMeta, ForgetRow, Forgets
      <3>3. QED
        BY <1>1, <3>1, <3>2
    <2>3. ASSUME NEW next, next.pc = q.pc, next.doc = q.doc, next.found = q.found, Set(r, next)
          PROVE  ApartInv'
      <3>1. Own(next) = {} /\ Claimed(next) = Claimed(q)
        BY <2>1, <2>3 DEF Own, Claimed
      <3>2. QED
        BY <2>1, <2>3, <3>1, ApartAside
    <2>4. ASSUME NEW f, NEW left
          PROVE  /\ [q EXCEPT !.doomed = left, !.hand = f].pc = q.pc
                 /\ [q EXCEPT !.doomed = left, !.hand = f].doc = q.doc
                 /\ [q EXCEPT !.doomed = left, !.hand = f].found = q.found
                 /\ [q EXCEPT !.doomed = left].pc = q.pc
                 /\ [q EXCEPT !.doomed = left].doc = q.doc
                 /\ [q EXCEPT !.doomed = left].found = q.found
                 /\ [q EXCEPT !.hand = Null].pc = q.pc
                 /\ [q EXCEPT !.hand = Null].doc = q.doc
                 /\ [q EXCEPT !.hand = Null].found = q.found
      BY <1>a DEF RequestState
    <2>5. QED
      BY <2>2, <2>3, <2>4
  <1>2. CASE Finish(r)
    BY <1>2, ApartCleaning DEF Finish
  <1>3. QED
    BY <1>1, <1>2 DEF CleanUp

\* Every step keeps the documents apart.
LEMMA ApartStep ==
  ASSUME KnowsItsNames, ResourceFilesTypeOK, Orderly, ApartInv, [Next]_vars
  PROVE  ApartInv'
  <1>1. CASE UNCHANGED vars
    BY <1>1 DEF vars, ApartInv, ArraysStand, ClaimsAreOfItsDocument, ClaimsAreApart, StoredAreNew,
                FilesBelongToOneDocument, Own, Claimed, Names, Live
  <1>2. CASE Crash
    <2>1. (\A r \in Request : req'[r] = Idle) /\ UNCHANGED rows
      BY <1>2 DEF Crash
    <2>2. Own(Idle) = {} /\ Claimed(Idle) = {} /\ Idle.pc = "idle"
      BY CleaningHands, CleaningClaims
    <2>3. \A r \in Request : Own(req'[r]) = {} /\ Claimed(req'[r]) = {} /\ req'[r].pc = "idle"
      BY <2>1, <2>2
    <2>4. ArraysStand' /\ FilesBelongToOneDocument'
      BY <2>1, <2>3 DEF ApartInv, ArraysStand, FilesBelongToOneDocument, Names, Live
    <2>5. ClaimsAreOfItsDocument' /\ ClaimsAreApart' /\ StoredAreNew'
      BY <2>3 DEF ClaimsAreOfItsDocument, ClaimsAreApart, StoredAreNew, Own, Claimed, Names
    <2>6. QED
      BY <2>4, <2>5 DEF ApartInv
  <1>3. QED
    BY <1>1, <1>2, ApartArrive, ApartPersist, ApartChange, ApartCleanUp DEF Next

\* No two documents ever name the same file, with either library and whatever fails, in a
\* field of one file, and in a field of an array that is never null.
THEOREM FilesOfOneDocument == KnowsItsNames => (Spec => []FilesBelongToOneDocument)
  <1> SUFFICES ASSUME KnowsItsNames
               PROVE  Spec => []FilesBelongToOneDocument
    OBVIOUS
  <1>1. Init => ApartInv
    <2> SUFFICES ASSUME Init
                 PROVE  ApartInv
      OBVIOUS
    <2>1. \A r \in Request : Own(req[r]) = {} /\ Claimed(req[r]) = {} /\ req[r].pc = "idle"
      BY CleaningHands, CleaningClaims DEF Init
    <2>2. \A d \in Doc : Names(rows[d].files) = {} /\ ~Live(d)
      BY DEF Init, Names, Live
    <2>3. QED
      BY <2>1, <2>2 DEF ApartInv, ArraysStand, ClaimsAreOfItsDocument, ClaimsAreApart, StoredAreNew,
                        FilesBelongToOneDocument
  <1>2. ResourceFilesTypeOK /\ Orderly /\ ApartInv /\ [Next]_vars => ApartInv'
    BY ApartStep
  <1>3. ApartInv => FilesBelongToOneDocument
    BY DEF ApartInv
  <1>4. QED
    BY <1>1, <1>2, <1>3, OrderInvariant, PTL DEF Spec
=============================================================================
