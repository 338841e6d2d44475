------------------------------ MODULE Cascades ------------------------------
(***************************************************************************)
(* The deletion of a document, with the documents and files that depend on *)
(* it: delete of MongooseResourceService and of TypeOrmResourceService     *)
(* (src/lib/resource/services).  Parents have children, those have         *)
(* grandchildren; each document refers to its owner and has one file, and  *)
(* a child refers to an other parent too.                                  *)
(*                                                                         *)
(* mongoose: the service itself finds what depends on the document, by the *)
(* virtual field of the owner's schema, and deletes or changes it one      *)
(* document at a time.  Nothing brings back what it has done: no operation *)
(* is part of the transaction that delete starts.                          *)
(* TypeORM: the foreign keys of the database do it, in one step; the       *)
(* service only collects the files, of what it had loaded before.          *)
(*                                                                         *)
(* Meanwhile another request may create a document or give it another      *)
(* owner, once.                                                            *)
(***************************************************************************)
EXTENDS FiniteSets, FiniteSetsExt

CONSTANTS Parent, Child, Grandchild, NoDoc

ASSUME CascadesAssumption ==
  /\ Parent \cap Child = {} /\ Parent \cap Grandchild = {} /\ Child \cap Grandchild = {}
  /\ NoDoc \notin Parent \cup Child \cup Grandchild
  /\ IsFiniteSet(Parent \cup Child \cup Grandchild)

VARIABLES
  setup,     \* what the application declares, and its library
  status,    \* fresh, alive or dead documents
  refs,      \* refs[field][d]: the documents the field of d refers to
  files,     \* documents whose file is in the storage
  deletion,  \* the request
  raced,     \* history: the document that another request has created or given to another owner
  lost       \* history: fields set to null that referred to a document which stays

cascadesVars == <<setup, status, refs, files, deletion, raced, lost>>

Doc == Parent \cup Child \cup Grandchild
Owners(d) == IF d \in Child THEN Parent ELSE Child
Field == {"owner", "other"}
OnDelete == {"cascade", "setNull", "none"}

\* children, grandchildren: onDelete of the virtual field or of the foreign key of their
\* owner; populated: the directions of that relation in which it is populated (from the
\* owner only, with mongoose); array: a child has an array of owners; hidden: the rules to
\* read leave out the file of the root, with which findResource finds it.
Setup ==
  [orm : {"mongoose", "typeorm"}, children : OnDelete, grandchildren : OnDelete,
   populated : SUBSET {"down", "up"}, array : BOOLEAN, hidden : BOOLEAN]

\* work: <<document, field>> that cascadeRelations has still to handle; doomed: filesToDelete.
NoDeletion == [pc |-> "idle", root |-> NoDoc, dependents |-> {}, work |-> {}, doomed |-> {}]

Alive == {d \in Doc : status[d] = "alive"}
How(d) == IF d \in Child THEN setup.children ELSE setup.grandchildren
Dependents(d) == {e \in Alive : d \in refs["owner"][e]}
Without(documents) == [d \in Doc |-> IF d \in documents THEN "dead" ELSE status[d]]

\* A document as it is before the first deletion
CascadesInit ==
  /\ setup = [orm |-> "mongoose", children |-> "none", grandchildren |-> "none",
              populated |-> {}, array |-> FALSE, hidden |-> FALSE]
  /\ status = [d \in Doc |-> "fresh"]
  /\ refs = [f \in Field |-> [d \in Doc |-> {}]]
  /\ files = {}
  /\ deletion = NoDeletion
  /\ raced = NoDoc
  /\ lost = {}

\* The documents there are, when a request comes that deletes root: every reference is to
\* one of them, and a child has an array of owners only if it is declared so.
Declare(documents, root, declared, owners, others) ==
  /\ deletion.pc = "idle"
  /\ declared.orm = "mongoose" => "up" \notin declared.populated
  /\ declared.orm = "typeorm" => ~declared.array
  /\ \A d \in Doc : /\ owners[d] \subseteq documents /\ others[d] \subseteq documents
                    /\ d \notin documents => owners[d] = {} /\ others[d] = {}
                    /\ Cardinality(owners[d]) > 1 => d \in Child /\ declared.array
  /\ setup' = declared
  /\ status' = [d \in Doc |-> IF d \in documents THEN "alive" ELSE "fresh"]
  /\ refs' = [f \in Field |-> IF f = "owner" THEN owners ELSE others]
  /\ files' = documents
  /\ deletion' = [NoDeletion EXCEPT !.pc = "found", !.root = root]
  /\ UNCHANGED <<raced, lost>>

-----------------------------------------------------------------------------
(* mongoose *)

RemoveRoot ==
  /\ setup.orm = "mongoose" /\ deletion.pc = "found"
  /\ status' = Without({deletion.root})
  /\ deletion' = [deletion EXCEPT !.pc = "removed"]
  /\ UNCHANGED <<setup, refs, files, raced, lost>>

\* populateModelDeep: the virtual field is there only if it is to be populated.
Populate ==
  /\ deletion.pc = "removed"
  /\ deletion' = [deletion EXCEPT !.pc = "populated",
                    !.dependents = IF "down" \in setup.populated THEN Dependents(deletion.root) ELSE {}]
  /\ UNCHANGED <<setup, status, refs, files, raced, lost>>

\* resourceFilesToDelete, which populates what it comes to, all fields of it
DoomedWith(d) ==
  LET cascaded(documents) == {e \in documents : How(e) = "cascade"}
      children == cascaded(deletion.dependents)
  IN (IF setup.hidden THEN {} ELSE {d}) \cup children \cup cascaded(UNION {Dependents(c) : c \in children})

\* Mutant: what depends on a dependent stays as it is.
WorkForChildren(dependents) ==
  UNION {CASE How(d) = "cascade" /\ d \in Child -> {<<d, "owner">>}
           [] How(d) = "setNull" /\ d \in Child -> {d} \X Field
           [] OTHER -> {} : d \in dependents}

\* The steps of cascadeRelations for the populated dependents of a document: setNull is
\* for every field of their model that refers to the model of the document.
WorkFor(dependents) ==
  UNION {CASE How(d) = "cascade" -> {<<d, "owner">>}
           [] How(d) = "setNull" -> {d} \X (IF d \in Child THEN Field ELSE {"owner"})
           [] How(d) = "none"    -> {} : d \in dependents}

Collect ==
  /\ deletion.pc = "populated"
  /\ deletion' = [deletion EXCEPT !.pc = "collected", !.doomed = DoomedWith(deletion.root),
                                  !.work = WorkFor(deletion.dependents), !.dependents = {}]
  /\ UNCHANGED <<setup, status, refs, files, raced, lost>>

\* Depth first: the grandchildren of a deleted child before the next child
NextWork == {w \in deletion.work : w[1] \in Grandchild \/ \A v \in deletion.work : v[1] \notin Grandchild}

\* deleteOne of a dependent, whose own dependents are then populated
CascadeDelete(w) ==
  /\ deletion.pc = "collected" /\ w \in NextWork /\ How(w[1]) = "cascade"
  /\ status' = Without({w[1]})
  /\ deletion' = [deletion EXCEPT !.work = (@ \ {w}) \cup WorkFor(Dependents(w[1]))]
  /\ UNCHANGED <<setup, refs, files, raced, lost>>

\* An array keeps all its elements, since the filter compares an ObjectId with a string.
Kept(w) == w[1] \in Child /\ setup.array /\ w[2] = "owner"

\* The field becomes null, whatever it refers to.
Nulled(w) == [refs EXCEPT ![w[2]][w[1]] = {}]

CascadeSetNull(w) ==
  /\ deletion.pc = "collected" /\ w \in NextWork /\ How(w[1]) = "setNull"
  /\ refs' = IF Kept(w) THEN refs ELSE Nulled(w)
  /\ lost' = IF Kept(w) \/ refs[w[2]][w[1]] \cap Alive = {} THEN lost ELSE lost \cup {w}
  /\ deletion' = [deletion EXCEPT !.work = @ \ {w}]
  /\ UNCHANGED <<setup, status, files, raced>>

Cascaded ==
  /\ deletion.pc = "collected" /\ deletion.work = {}
  /\ deletion' = [deletion EXCEPT !.pc = "unlinking"]
  /\ UNCHANGED <<setup, status, refs, files, raced, lost>>

-----------------------------------------------------------------------------
(* TypeORM *)

\* Mutant: only the document itself
LoadedAlone(d) == {d}

\* The documents that cascading foreign keys lead to from the document, through the
\* relations that findResource has loaded
Loaded(d) ==
  LET down(found) == IF "down" \in setup.populated
                       THEN {e \in UNION {Dependents(f) : f \in found} : How(e) = "cascade"} ELSE {}
      up(found) == IF "up" \in setup.populated
                     THEN UNION {refs["owner"][e] : e \in {f \in found : How(f) = "cascade"}} ELSE {}
      complete == {found \in SUBSET Doc : d \in found /\ down(found) \cup up(found) \subseteq found}
      all == {e \in Doc : \A found \in complete : e \in found}
  IN IF setup.hidden THEN down(all) \cup up(all) ELSE all

CollectLoaded ==
  /\ setup.orm = "typeorm" /\ deletion.pc = "found"
  /\ deletion' = [deletion EXCEPT !.pc = "loaded", !.doomed = Loaded(deletion.root)]
  /\ UNCHANGED <<setup, status, refs, files, raced, lost>>

\* Mutant: all foreign keys cascade.
DependentAll(d) == LET children == Dependents(d) IN {d} \cup children \cup UNION {Dependents(c) : c \in children}

\* What the database deletes with a document
Dependent(d) ==
  LET children == {c \in Dependents(d) : How(c) = "cascade"}
  IN {d} \cup children \cup {g \in UNION {Dependents(c) : c \in children} : How(g) = "cascade"}

\* A foreign key without an action refuses the deletion of what it refers to.
Refused(removed) == \E d \in Alive \ removed : How(d) = "none" /\ refs["owner"][d] \cap removed # {}

RemoveRow ==
  LET removed == Dependent(deletion.root) IN
  /\ deletion.pc = "loaded"
  /\ ~Refused(removed)
  /\ status' = Without(removed)
  /\ refs' = [f \in Field |-> [d \in Doc |-> IF d \in removed THEN refs[f][d] ELSE refs[f][d] \ removed]]
  /\ deletion' = [deletion EXCEPT !.pc = "unlinking"]
  /\ UNCHANGED <<setup, files, raced, lost>>

-----------------------------------------------------------------------------
(* Both *)

\* deleteFileArray
Unlink(d) ==
  /\ deletion.pc = "unlinking" /\ d \in deletion.doomed
  /\ files' = files \ {d}
  /\ deletion' = [deletion EXCEPT !.doomed = @ \ {d}]
  /\ UNCHANGED <<setup, status, refs, raced, lost>>

\* expireCache, and the reply
Deleted ==
  /\ deletion.pc = "unlinking" /\ deletion.doomed = {}
  /\ deletion' = [deletion EXCEPT !.pc = "done"]
  /\ UNCHANGED <<setup, status, refs, files, raced, lost>>

\* A step throws, or the process dies.
DeletionFails ==
  /\ deletion.pc \notin {"idle", "done", "failed"}
  /\ deletion' = [NoDeletion EXCEPT !.pc = "failed", !.root = deletion.root]
  /\ UNCHANGED <<setup, status, refs, files, raced, lost>>

Racing == raced = NoDoc /\ deletion.pc \notin {"idle", "done", "failed"}

\* Another request creates d.  mongoose does not ask whether its owner is there.
Insert(d, owner) ==
  /\ Racing /\ status[d] = "fresh"
  /\ status[owner] = "alive" \/ (setup.orm = "mongoose" /\ status[owner] = "dead")
  /\ status' = [status EXCEPT ![d] = "alive"]
  /\ refs' = [refs EXCEPT !["owner"][d] = {owner}]
  /\ files' = files \cup {d}
  /\ raced' = d
  /\ UNCHANGED <<setup, deletion, lost>>

\* Another request gives d to another owner.
Move(d, owner) ==
  /\ Racing /\ status[d] = "alive" /\ status[owner] = "alive" /\ refs["owner"][d] # {owner}
  /\ refs' = [refs EXCEPT !["owner"][d] = {owner}]
  /\ raced' = d
  /\ UNCHANGED <<setup, status, files, deletion, lost>>

DeleteNext ==
  \/ RemoveRoot \/ Populate \/ Collect \/ Cascaded
  \/ \E w \in deletion.work : CascadeDelete(w) \/ CascadeSetNull(w)
  \/ CollectLoaded \/ RemoveRow
  \/ \E d \in Doc : Unlink(d)
  \/ Deleted \/ DeletionFails
  \/ \E d \in Child \cup Grandchild : \E owner \in Owners(d) : Insert(d, owner) \/ Move(d, owner)

-----------------------------------------------------------------------------
\* What another request has changed in the meantime, and what that owns
Races(d) == raced # NoDoc /\ (d = raced \/ raced \in refs["owner"][d])

\* A deletion that succeeds leaves no reference to a deleted document, except with
\* mongoose: in a field that no virtual field stands for, in an array, where onDelete says
\* so or where the root did not populate its virtual field; or in a document that
\* another request has just written.  And a reference to a document that stays is lost only
\* as the second field of a child whose owner is deleted, or when another request has just
\* changed it (mongoose-resource.service.ts:640).
ReferencesFollowDeletions ==
  /\ deletion.pc = "done" =>
       \A d \in Alive, f \in Field : \A target \in refs[f][d] :
         \/ target \in Alive \/ Races(d)
         \/ /\ setup.orm = "mongoose"
            /\ \/ f = "other" \/ How(d) = "none" \/ (d \in Child /\ setup.array)
               \/ target = deletion.root /\ "down" \notin setup.populated
  /\ \A w \in lost : setup.orm = "mongoose" /\ (Races(w[1]) \/ (w[2] = "other" /\ setup.children = "setNull"))

\* A document that stays keeps its file: except the owners that a TypeORM resource has
\* populated along a cascading foreign key, and what these populate
\* (typeorm-resource.service.ts:1109).  The files of the deleted documents are gone when the
\* deletion has succeeded: except those of documents that the service had not populated but
\* the database has deleted, and that of the root when the rules to read hide it
\* (mongoose-resource.service.ts:460).
FilesFollowDeletions ==
  /\ \A d \in Alive \ files :
       \/ Races(d)
       \/ setup.orm = "typeorm" /\ "up" \in setup.populated /\ deletion.root \notin Parent
  /\ deletion.pc = "done" =>
       \A d \in files \ Alive :
         \/ Races(d)
         \/ setup.orm = "typeorm" /\ "down" \notin setup.populated /\ d # deletion.root
         \/ setup.hidden /\ d = deletion.root

\* A deletion takes with it only what is declared to depend on a document that it takes.
OnlyDependentsAreDeleted ==
  \A d \in Doc : status[d] = "dead" /\ d # deletion.root =>
    /\ How(d) = "cascade"
    /\ Races(d) \/ \E owner \in refs["owner"][d] : status[owner] = "dead"
=============================================================================
