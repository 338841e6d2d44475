--------------------------- MODULE CascadesProofs ---------------------------
(***************************************************************************)
(* What a deletion takes with it, loses and leaves behind (Cascades),      *)
(* proved for all documents, references and declarations.  The             *)
(* specification here is of one deletion, of which Requests takes the      *)
(* steps.  And what a change of a document, or such a deletion, expires of *)
(* the cache (Relations), proved for all relations between the models.     *)
(***************************************************************************)
EXTENDS Cascades, Relations, FiniteSetTheorems, TLAPS

\* Parents have no owner, children have parents, grandchildren have children.
OwnersOf(d) == IF d \in Parent THEN {} ELSE Owners(d)

Deletes ==
  \E documents \in SUBSET Doc, declared \in Setup, owners \in [Doc -> SUBSET Doc], others \in [Doc -> SUBSET Doc] :
    \E root \in documents :
      /\ \A d \in Doc : owners[d] \subseteq OwnersOf(d)
      /\ Declare(documents, root, declared, owners, others)

\* One deletion of any document, while another request creates or moves one
CascadesSpec == CascadesInit /\ [][Deletes \/ DeleteNext]_cascadesVars

DeletionPc == {"idle", "found", "removed", "populated", "collected", "loaded", "unlinking", "done", "failed"}

\* The types of the variables, where only fresh documents are not known to any
CascadesTypeOK ==
  /\ setup \in Setup
  /\ status \in [Doc -> {"fresh", "alive", "dead"}]
  /\ refs \in [Field -> [Doc -> SUBSET Doc]]
  /\ files \subseteq Doc
  /\ deletion \in [pc : DeletionPc, root : Doc \cup {NoDoc}, dependents : SUBSET Doc,
                   work : SUBSET (Doc \X Field), doomed : SUBSET Doc]
  /\ raced \in Doc \cup {NoDoc}
  /\ lost \subseteq Doc \X Field

Fresh == {d \in Doc : status[d] = "fresh"}
Dead == {d \in Doc : status[d] = "dead"}
Single(d) == ~(d \in Child /\ setup.array)

\* References go to the level above, one unless an array is declared, and nothing refers to
\* a document that is not there yet.
ReferencesInOrder ==
  /\ \A d \in Doc : refs["owner"][d] \subseteq OwnersOf(d)
  /\ \A d \in Doc : Single(d) => \A one, two \in refs["owner"][d] : one = two
  /\ \A d \in Doc, f \in Field : refs[f][d] \cap Fresh = {} /\ (d \in Fresh => refs[f][d] = {})
  /\ files \cap Fresh = {} /\ raced \notin Fresh

\* Which steps are whose, and what is dead at each of them
DeletionInOrder ==
  /\ deletion.pc \in {"removed", "populated", "collected"} => setup.orm = "mongoose"
  /\ deletion.pc = "loaded" => setup.orm = "typeorm"
  /\ setup.orm = "typeorm" => ~setup.array
  /\ deletion.pc # "idle" => deletion.root \in Doc
  /\ deletion.pc = "idle" => raced = NoDoc /\ Alive = {} /\ lost = {}
  /\ deletion.pc \in {"idle", "found", "loaded"} => Dead = {}
  /\ deletion.pc \in {"found", "loaded"} => deletion.root \in Alive
  /\ deletion.pc \in {"removed", "populated"} => Dead = {deletion.root}
  /\ deletion.pc = "collected" => deletion.root \in Dead
  /\ deletion.pc # "collected" => deletion.work = {}
  /\ deletion.pc # "populated" => deletion.dependents = {}
  /\ deletion.pc \notin {"collected", "loaded", "unlinking"} => deletion.doomed = {}

\* The documents that the steps of mongoose have still to come to
WorkInOrder ==
  /\ \A d \in deletion.dependents : d \in Child \cup Grandchild /\ (d = raced \/ deletion.root \in refs["owner"][d])
  /\ \A w \in deletion.work :
       /\ w[1] \in Child \cup Grandchild /\ How(w[1]) \in {"cascade", "setNull"}
       /\ w[2] = "other" => w[1] \in Child /\ How(w[1]) = "setNull"
       /\ How(w[1]) = "cascade" => w[1] = raced \/ refs["owner"][w[1]] \cap Dead # {}
       /\ w[2] = "owner" /\ Single(w[1]) => w[1] = raced \/ refs["owner"][w[1]] \cap Alive = {}

OnlyDependentsDie ==
  \A d \in Dead : d # deletion.root =>
    /\ How(d) = "cascade"
    /\ Races(d) \/ refs["owner"][d] \cap Dead # {}

\* A reference to a dead document is still worked on, or stays for good.
ReferencesWait ==
  /\ setup.orm = "typeorm" => \A d \in Alive, f \in Field : refs[f][d] \subseteq Alive
  /\ setup.orm = "mongoose" =>
       \A d \in Alive : \A target \in refs["owner"][d] \cap Dead :
         \/ Races(d) \/ How(d) = "none" \/ ~Single(d)
         \/ target = deletion.root /\ "down" \notin setup.populated
         \/ deletion.pc \in {"removed", "failed"}
         \/ deletion.pc = "populated" /\ d \in deletion.dependents
         \/ <<d, "owner">> \in deletion.work
  /\ \A w \in lost : setup.orm = "mongoose" /\ (w[1] = raced \/ (w[2] = "other" /\ setup.children = "setNull"))

\* A document whose file is to go is dead, or about to be.
DoomedDie ==
  /\ deletion.pc \in {"collected", "unlinking"} /\ setup.orm = "mongoose" =>
       \A d \in deletion.doomed :
         \/ d \in Dead \/ d = raced
         \/ /\ deletion.pc = "collected" /\ How(d) = "cascade"
            /\ \/ <<d, "owner">> \in deletion.work
               \/ \E c \in refs["owner"][d] : <<c, "owner">> \in deletion.work /\ How(c) = "cascade"
  /\ deletion.pc = "loaded" /\ ("up" \notin setup.populated \/ deletion.root \in Parent) =>
       \A d \in deletion.doomed : d \in Dependent(deletion.root) \/ (How(d) = "cascade" /\ Races(d))
  /\ deletion.pc = "unlinking" /\ setup.orm = "typeorm" /\ ("up" \notin setup.populated \/ deletion.root \in Parent) =>
       \A d \in deletion.doomed : d \in Dead \/ Races(d)
  /\ \A d \in Alive \ files :
       \/ deletion.pc \in {"unlinking", "done", "failed"} /\ Races(d)
       \/ /\ deletion.pc \in {"unlinking", "done", "failed"}
          /\ setup.orm = "typeorm" /\ "up" \in setup.populated /\ deletion.root \notin Parent

Excused(d) == setup.hidden /\ d = deletion.root

\* The file of a document that is dead, or about to be, is to go.
DeadAreDoomed ==
  /\ deletion.pc \in {"collected", "unlinking"} /\ setup.orm = "mongoose" =>
       /\ \A d \in Dead \cap files : d \in deletion.doomed \/ d = raced \/ Excused(d)
       /\ \A w \in deletion.work : How(w[1]) = "cascade" =>
            /\ w[1] \in deletion.doomed \/ w[1] = raced
            /\ \A e \in Dependents(w[1]) : How(e) = "cascade" => e \in deletion.doomed \/ e = raced
  /\ deletion.pc = "loaded" =>
       /\ deletion.root \in deletion.doomed \/ setup.hidden
       /\ "down" \in setup.populated =>
            \A d \in Dependent(deletion.root) : d \in deletion.doomed \/ Races(d) \/ Excused(d)
  /\ deletion.pc \in {"unlinking", "done"} /\ setup.orm = "typeorm" =>
       \A d \in Dead \cap files :
         \/ d \in deletion.doomed \/ Races(d) \/ Excused(d)
         \/ "down" \notin setup.populated /\ d # deletion.root
  /\ deletion.pc = "done" /\ setup.orm = "mongoose" =>
       \A d \in Dead \cap files : d = raced \/ Excused(d)

CascadesInv ==
  /\ CascadesTypeOK /\ ReferencesInOrder /\ DeletionInOrder /\ WorkInOrder
  /\ OnlyDependentsDie /\ ReferencesWait /\ DoomedDie /\ DeadAreDoomed

-----------------------------------------------------------------------------
(* Documents and their levels *)

\* A document is of one level, and fresh, alive or dead.
LEMMA Standings ==
  ASSUME CascadesTypeOK
  PROVE  /\ Alive \subseteq Doc /\ Dead \subseteq Doc /\ Fresh \subseteq Doc
         /\ Alive \cap Dead = {} /\ Alive \cap Fresh = {} /\ Dead \cap Fresh = {}
         /\ \A d \in Doc : d \in Alive \/ d \in Dead \/ d \in Fresh
         /\ NoDoc \notin Doc
         /\ \A d \in Doc : How(d) \in OnDelete
BY CascadesAssumption DEF CascadesTypeOK, Alive, Dead, Fresh, Doc, How, Setup

\* A reference of the owner field leads one level up.
LEMMA LevelsOfOwners ==
  ASSUME CascadesTypeOK, ReferencesInOrder
  PROVE  \A d \in Doc : \A c \in refs["owner"][d] :
           /\ c \in Doc /\ c # d /\ c \notin Grandchild /\ d \notin Parent
           /\ (c \in Parent /\ d \in Child) \/ (c \in Child /\ d \in Grandchild)
           /\ c \notin Fresh /\ d \notin Fresh
<1> SUFFICES ASSUME NEW d \in Doc, NEW c \in refs["owner"][d]
             PROVE  /\ c \in Doc /\ c # d /\ c \notin Grandchild /\ d \notin Parent
                    /\ (c \in Parent /\ d \in Child) \/ (c \in Child /\ d \in Grandchild)
                    /\ c \notin Fresh /\ d \notin Fresh
  OBVIOUS
<1>1. c \in OwnersOf(d)
  BY DEF ReferencesInOrder
<1>2. (c \in Parent /\ d \in Child) \/ (c \in Child /\ d \in Grandchild)
  BY <1>1 DEF OwnersOf, Owners, Doc
<1>3. c \notin Fresh /\ d \notin Fresh
  BY DEF ReferencesInOrder, Field
<1> QED BY <1>2, <1>3, CascadesAssumption DEF Doc

\* What depends on a document is alive, and one level below.
LEMMA LevelsOfDependents ==
  ASSUME CascadesTypeOK, ReferencesInOrder
  PROVE  \A c \in Doc : \A d \in Dependents(c) :
           /\ d \in Alive /\ d \in Doc /\ c \in refs["owner"][d] /\ d # c /\ d \in Child \cup Grandchild
           /\ (c \in Parent /\ d \in Child) \/ (c \in Child /\ d \in Grandchild)
BY LevelsOfOwners, Standings DEF Dependents

\* Documents that die
LEMMA DocumentsDie ==
  ASSUME CascadesTypeOK, NEW removed \in SUBSET Doc, removed \cap Fresh = {}, status' = Without(removed)
  PROVE  /\ status' \in [Doc -> {"fresh", "alive", "dead"}]
         /\ Alive' = Alive \ removed /\ Dead' = Dead \cup removed /\ Fresh' = Fresh
BY DEF CascadesTypeOK, Without, Alive, Dead, Fresh

\* What is said of the documents does not depend on the rest of the state.
LEMMA StandingsKept ==
  ASSUME UNCHANGED status PROVE Alive' = Alive /\ Dead' = Dead /\ Fresh' = Fresh
BY DEF Alive, Dead, Fresh

\* A field of the deletion changes.
LEMMA DeletionTyped ==
  ASSUME CascadesTypeOK
  PROVE  /\ deletion.pc \in DeletionPc /\ deletion.root \in Doc \cup {NoDoc}
         /\ deletion.dependents \subseteq Doc /\ deletion.work \subseteq Doc \X Field
         /\ deletion.doomed \subseteq Doc
         /\ \A w \in deletion.work : w = <<w[1], w[2]>> /\ w[1] \in Doc /\ w[2] \in Field
BY DEF CascadesTypeOK

-----------------------------------------------------------------------------
(* The request *)

\* The cascades begin with their invariant.
LEMMA CascadesStart == CascadesInit => CascadesInv
<1> SUFFICES ASSUME CascadesInit PROVE CascadesInv
  OBVIOUS
<1> USE DEF CascadesInit, NoDeletion
<1>1. CascadesTypeOK
  BY DEF CascadesTypeOK, Setup, OnDelete, DeletionPc, Field
<1>2. Alive = {} /\ Dead = {} /\ Fresh = Doc
  BY DEF Alive, Dead, Fresh
<1>3. ReferencesInOrder
  BY <1>2, CascadesAssumption DEF ReferencesInOrder, Field, Doc
<1>4. DeletionInOrder
  BY <1>2 DEF DeletionInOrder
<1>5. WorkInOrder /\ OnlyDependentsDie
  BY <1>2 DEF WorkInOrder, OnlyDependentsDie
<1>6. ReferencesWait
  BY <1>2 DEF ReferencesWait
<1>7. DoomedDie /\ DeadAreDoomed
  BY <1>2 DEF DoomedDie, DeadAreDoomed
<1> QED BY <1>1, <1>3, <1>4, <1>5, <1>6, <1>7 DEF CascadesInv

\* A request comes, and the documents are there.
LEMMA DeclareStep == ASSUME CascadesInv, Deletes PROVE CascadesInv'
<1>1. PICK documents \in SUBSET Doc, declared \in Setup, owners \in [Doc -> SUBSET Doc], others \in [Doc -> SUBSET Doc] :
        \E root \in documents :
          /\ \A d \in Doc : owners[d] \subseteq OwnersOf(d)
          /\ Declare(documents, root, declared, owners, others)
  BY DEF Deletes
<1>2. PICK root \in documents : /\ \A d \in Doc : owners[d] \subseteq OwnersOf(d)
                                /\ Declare(documents, root, declared, owners, others)
  BY <1>1
<1>3. raced = NoDoc /\ lost = {} /\ deletion.pc = "idle"
  BY <1>2 DEF Declare, CascadesInv, DeletionInOrder
<1>4. /\ setup' = declared /\ files' = documents /\ raced' = NoDoc /\ lost' = {}
      /\ status' = [d \in Doc |-> IF d \in documents THEN "alive" ELSE "fresh"]
      /\ refs' = [f \in Field |-> IF f = "owner" THEN owners ELSE others]
      /\ deletion' = [pc |-> "found", root |-> root, dependents |-> {}, work |-> {}, doomed |-> {}]
  BY <1>2, <1>3 DEF Declare, NoDeletion
<1>5. CascadesTypeOK'
  BY <1>4 DEF CascadesTypeOK, DeletionPc, Field
<1>6. Alive' = documents /\ Dead' = {} /\ Fresh' = Doc \ documents
  BY <1>4 DEF Alive, Dead, Fresh
<1>7. refs'["owner"] = owners /\ refs'["other"] = others
  BY <1>4 DEF Field
<1>8. \A d \in Doc : /\ owners[d] \subseteq documents /\ others[d] \subseteq documents
                     /\ d \notin documents => owners[d] = {} /\ others[d] = {}
                     /\ Cardinality(owners[d]) > 1 => d \in Child /\ declared.array
  BY <1>2 DEF Declare
<1>9. ReferencesInOrder'
  <2>1. ASSUME NEW d \in Doc, Single(d)', NEW one \in owners[d], NEW two \in owners[d] PROVE one = two
    <3>1. IsFiniteSet(owners[d])
      BY CascadesAssumption, FS_Subset DEF Doc
    <3>2. Cardinality(owners[d]) \in Nat /\ ~(Cardinality(owners[d]) > 1)
      BY <1>4, <1>8, <2>1, <3>1, FS_CardinalityType DEF Single
    <3>3. Cardinality({one, two}) <= Cardinality(owners[d])
      BY <3>1, FS_Subset
    <3>4. one # two => Cardinality({one, two}) = 2
      <4> SUFFICES ASSUME one # two PROVE Cardinality({one, two}) = 2
        OBVIOUS
      <4>1. IsFiniteSet({one}) /\ Cardinality({one}) = 1
        BY FS_Singleton
      <4>2. Cardinality({one} \cup {two}) = IF two \in {one} THEN Cardinality({one}) ELSE Cardinality({one}) + 1
        BY <4>1, FS_AddElement
      <4>3. {one, two} = {one} \cup {two} /\ two \notin {one}
        OBVIOUS
      <4> QED BY <4>1, <4>2, <4>3
    <3> QED BY <3>2, <3>3, <3>4
  <2>2. \A d \in Doc, f \in Field : refs'[f][d] \subseteq documents /\ (d \notin documents => refs'[f][d] = {})
    BY <1>7, <1>8 DEF Field
  <2>3. NoDoc \notin Doc
    BY CascadesAssumption DEF Doc
  <2> QED BY <1>2, <1>4, <1>6, <1>7, <2>1, <2>2, <2>3 DEF ReferencesInOrder
<1>10. DeletionInOrder'
  <2>1. /\ deletion'.pc = "found" /\ deletion'.root = root /\ deletion'.dependents = {} /\ deletion'.work = {}
        /\ deletion'.doomed = {}
    BY <1>4
  <2>2. setup'.orm = "typeorm" => ~setup'.array
    BY <1>2, <1>4 DEF Declare
  <2>3. root \in Alive' /\ root \in Doc
    BY <1>6
  <2> QED BY <1>6, <2>1, <2>2, <2>3 DEF DeletionInOrder
<1>11. WorkInOrder' /\ OnlyDependentsDie'
  BY <1>4, <1>6 DEF WorkInOrder, OnlyDependentsDie
<1>12. ReferencesWait'
  BY <1>4, <1>6, <1>7, <1>8 DEF ReferencesWait, Field
<1>13. DoomedDie' /\ DeadAreDoomed'
  BY <1>4, <1>6 DEF DoomedDie, DeadAreDoomed
<1> QED BY <1>5, <1>9, <1>10, <1>11, <1>12, <1>13 DEF CascadesInv

-----------------------------------------------------------------------------
(* mongoose *)

\* findOneAndDelete, or deleteOne: the document itself
LEMMA RemoveRootStep == ASSUME CascadesInv, RemoveRoot PROVE CascadesInv'
<1>1. /\ CascadesTypeOK /\ ReferencesInOrder /\ DeletionInOrder /\ WorkInOrder
      /\ OnlyDependentsDie /\ ReferencesWait /\ DoomedDie /\ DeadAreDoomed
  BY DEF CascadesInv
<1>2. /\ setup.orm = "mongoose" /\ deletion.pc = "found" /\ status' = Without({deletion.root})
      /\ deletion' = [deletion EXCEPT !.pc = "removed"]
      /\ UNCHANGED <<setup, refs, files, raced, lost>>
  BY DEF RemoveRoot
<1>3. /\ deletion.root \in Doc /\ deletion.root \in Alive /\ Dead = {}
      /\ deletion.dependents = {} /\ deletion.work = {} /\ deletion.doomed = {}
  BY <1>1, <1>2 DEF DeletionInOrder
<1>4. /\ Alive' = Alive \ {deletion.root} /\ Dead' = {deletion.root} /\ Fresh' = Fresh
      /\ status' \in [Doc -> {"fresh", "alive", "dead"}]
  BY <1>1, <1>2, <1>3, DocumentsDie, Standings
<1>5. /\ deletion'.pc = "removed" /\ deletion'.root = deletion.root /\ deletion'.dependents = {}
      /\ deletion'.work = {} /\ deletion'.doomed = {}
  BY <1>1, <1>2, <1>3 DEF CascadesTypeOK
<1>6. CascadesTypeOK'
  BY <1>1, <1>2, <1>4 DEF CascadesTypeOK, DeletionPc
<1>7. ReferencesInOrder'
  BY <1>1, <1>2, <1>4 DEF ReferencesInOrder, Single
<1>8. DeletionInOrder'
  BY <1>1, <1>2, <1>3, <1>4, <1>5 DEF DeletionInOrder
<1>9. WorkInOrder' /\ OnlyDependentsDie'
  BY <1>4, <1>5 DEF WorkInOrder, OnlyDependentsDie
<1>10. ReferencesWait'
  BY <1>1, <1>2, <1>5 DEF ReferencesWait
<1>11. DoomedDie' /\ DeadAreDoomed'
  BY <1>1, <1>2, <1>4, <1>5 DEF DoomedDie, DeadAreDoomed
<1> QED BY <1>6, <1>7, <1>8, <1>9, <1>10, <1>11 DEF CascadesInv

\* The virtual field shows the dependents.
LEMMA PopulateStep == ASSUME CascadesInv, Populate PROVE CascadesInv'
<1>1. /\ CascadesTypeOK /\ ReferencesInOrder /\ DeletionInOrder /\ WorkInOrder
      /\ OnlyDependentsDie /\ ReferencesWait /\ DoomedDie /\ DeadAreDoomed
  BY DEF CascadesInv
<1>2. /\ deletion.pc = "removed"
      /\ deletion' = [deletion EXCEPT !.pc = "populated",
                        !.dependents = IF "down" \in setup.populated THEN Dependents(deletion.root) ELSE {}]
      /\ UNCHANGED <<setup, status, refs, files, raced, lost>>
  BY DEF Populate
<1>3. /\ setup.orm = "mongoose" /\ deletion.root \in Doc /\ Dead = {deletion.root}
      /\ deletion.work = {} /\ deletion.doomed = {}
  BY <1>1, <1>2 DEF DeletionInOrder
<1>4. Alive' = Alive /\ Dead' = Dead /\ Fresh' = Fresh
  BY <1>2, StandingsKept
<1>5. PICK dependents : /\ dependents = IF "down" \in setup.populated THEN Dependents(deletion.root) ELSE {}
                        /\ deletion' = [deletion EXCEPT !.pc = "populated", !.dependents = dependents]
  BY <1>2
<1>6. dependents \subseteq Doc
  BY <1>1, <1>3, <1>5, LevelsOfDependents
<1>7. /\ deletion'.pc = "populated" /\ deletion'.root = deletion.root /\ deletion'.dependents = dependents
      /\ deletion'.work = {} /\ deletion'.doomed = {}
  BY <1>1, <1>3, <1>5 DEF CascadesTypeOK
<1>8. CascadesTypeOK'
  BY <1>1, <1>2, <1>5, <1>6 DEF CascadesTypeOK, DeletionPc
<1>9. ReferencesInOrder'
  BY <1>1, <1>2, <1>4 DEF ReferencesInOrder, Single
<1>10. DeletionInOrder'
  BY <1>1, <1>2, <1>3, <1>4, <1>7 DEF DeletionInOrder
<1>11. WorkInOrder'
  BY <1>1, <1>2, <1>3, <1>5, <1>7, LevelsOfDependents DEF WorkInOrder
<1>12. OnlyDependentsDie'
  BY <1>3, <1>4, <1>7 DEF OnlyDependentsDie
<1>13. ReferencesWait'
  <2>1. ASSUME NEW d \in Alive, NEW target \in refs["owner"][d] \cap Dead, "down" \in setup.populated
        PROVE  d \in dependents
    BY <1>3, <1>5, <2>1 DEF Dependents
  <2> QED BY <1>1, <1>2, <1>3, <1>4, <1>7, <2>1 DEF ReferencesWait
<1>14. DoomedDie' /\ DeadAreDoomed'
  BY <1>1, <1>2, <1>4, <1>7 DEF DoomedDie, DeadAreDoomed
<1> QED BY <1>8, <1>9, <1>10, <1>11, <1>12, <1>13, <1>14 DEF CascadesInv

\* The steps for dependents: the owner field of each, and other fields of children that lose their owner
LEMMA WorkForDependents ==
  ASSUME CascadesTypeOK, NEW dependents \in SUBSET Doc
  PROVE  /\ \A w \in WorkFor(dependents) :
              /\ w[1] \in dependents /\ w[2] \in Field /\ w = <<w[1], w[2]>>
              /\ How(w[1]) \in {"cascade", "setNull"}
              /\ w[2] = "other" => w[1] \in Child /\ How(w[1]) = "setNull"
         /\ \A d \in dependents : How(d) # "none" => <<d, "owner">> \in WorkFor(dependents)
         /\ WorkFor(dependents) \subseteq Doc \X Field
<1> DEFINE Steps(d) == CASE How(d) = "cascade" -> {<<d, "owner">>}
                         [] How(d) = "setNull" -> {d} \X (IF d \in Child THEN Field ELSE {"owner"})
                         [] How(d) = "none"    -> {}
<1>1. WorkFor(dependents) = UNION {Steps(d) : d \in dependents}
  BY DEF WorkFor
<1>2. ASSUME NEW d \in dependents
      PROVE  /\ How(d) \in {"cascade", "setNull", "none"}
             /\ How(d) = "cascade" => Steps(d) = {<<d, "owner">>}
             /\ How(d) = "setNull" => Steps(d) = {d} \X (IF d \in Child THEN Field ELSE {"owner"})
             /\ How(d) = "none" => Steps(d) = {}
  BY Standings DEF OnDelete
<1> HIDE DEF Steps
<1>3. ASSUME NEW d \in dependents, NEW w \in Steps(d)
      PROVE  /\ w[1] = d /\ w[2] \in Field /\ w = <<w[1], w[2]>> /\ How(d) \in {"cascade", "setNull"}
             /\ w[2] = "other" => d \in Child /\ How(d) = "setNull"
  <2>1. CASE How(d) = "cascade"
    BY <1>2, <1>3, <2>1 DEF Field
  <2>2. CASE How(d) = "setNull"
    BY <1>2, <1>3, <2>2 DEF Field
  <2> QED BY <1>2, <1>3, <2>1, <2>2
<1>4. ASSUME NEW d \in dependents, How(d) # "none" PROVE <<d, "owner">> \in Steps(d)
  BY <1>2, <1>4 DEF Field
<1>5. \A w \in WorkFor(dependents) :
        /\ w[1] \in dependents /\ w[2] \in Field /\ w = <<w[1], w[2]>>
        /\ How(w[1]) \in {"cascade", "setNull"}
        /\ w[2] = "other" => w[1] \in Child /\ How(w[1]) = "setNull"
  BY <1>1, <1>3
<1>6. \A d \in dependents : How(d) # "none" => <<d, "owner">> \in WorkFor(dependents)
  BY <1>1, <1>4
<1>7. ASSUME NEW w \in WorkFor(dependents) PROVE w \in Doc \X Field
  BY <1>5, <1>7
<1> QED BY <1>5, <1>6, <1>7

\* resourceFilesToDelete: the document, unless it is hidden, and two levels of what cascades
LEMMA DoomedWithDependents ==
  ASSUME CascadesTypeOK, ReferencesInOrder
  PROVE  /\ ~setup.hidden => deletion.root \in DoomedWith(deletion.root)
         /\ \A d \in deletion.dependents : How(d) = "cascade" =>
              /\ d \in DoomedWith(deletion.root)
              /\ \A e \in Dependents(d) : How(e) = "cascade" => e \in DoomedWith(deletion.root)
         /\ \A d \in DoomedWith(deletion.root) :
              \/ d = deletion.root
              \/ /\ How(d) = "cascade"
                 /\ d \in deletion.dependents
                    \/ \E c \in deletion.dependents : How(c) = "cascade" /\ d \in Dependents(c)
BY DEF DoomedWith

\* The steps of the cascade are known, and the files that it is about.
LEMMA CollectStep == ASSUME CascadesInv, Collect PROVE CascadesInv'
<1>1. /\ CascadesTypeOK /\ ReferencesInOrder /\ DeletionInOrder /\ WorkInOrder
      /\ OnlyDependentsDie /\ ReferencesWait /\ DoomedDie /\ DeadAreDoomed
  BY DEF CascadesInv
<1>2. /\ deletion.pc = "populated"
      /\ deletion' = [deletion EXCEPT !.pc = "collected", !.doomed = DoomedWith(deletion.root),
                                      !.work = WorkFor(deletion.dependents), !.dependents = {}]
      /\ UNCHANGED <<setup, status, refs, files, raced, lost>>
  BY DEF Collect
<1>3. /\ setup.orm = "mongoose" /\ deletion.root \in Doc /\ Dead = {deletion.root}
  BY <1>1, <1>2 DEF DeletionInOrder
<1>4. /\ Alive' = Alive /\ Dead' = Dead /\ Fresh' = Fresh
      /\ \A d : How(d)' = How(d) /\ Dependents(d)' = Dependents(d) /\ Races(d)' = Races(d) /\ Single(d)' = Single(d)
  BY <1>2, StandingsKept DEF How, Dependents, Races, Single
<1>5. PICK doomed, work : /\ doomed = DoomedWith(deletion.root) /\ work = WorkFor(deletion.dependents)
                          /\ deletion' = [deletion EXCEPT !.pc = "collected", !.doomed = doomed,
                                                          !.work = work, !.dependents = {}]
  BY <1>2
<1>6. /\ deletion.dependents \subseteq Doc
      /\ \A d \in deletion.dependents : d \in Child \cup Grandchild /\ (d = raced \/ deletion.root \in refs["owner"][d])
  BY <1>1 DEF WorkInOrder, CascadesTypeOK
<1>7. /\ \A w \in work :
           /\ w[1] \in deletion.dependents /\ w[2] \in Field /\ w = <<w[1], w[2]>>
           /\ How(w[1]) \in {"cascade", "setNull"}
           /\ w[2] = "other" => w[1] \in Child /\ How(w[1]) = "setNull"
      /\ \A d \in deletion.dependents : How(d) # "none" => <<d, "owner">> \in work
      /\ work \subseteq Doc \X Field
  BY <1>1, <1>5, <1>6, WorkForDependents
<1>8. /\ ~setup.hidden => deletion.root \in doomed
      /\ \A d \in deletion.dependents : How(d) = "cascade" =>
           /\ d \in doomed
           /\ \A e \in Dependents(d) : How(e) = "cascade" => e \in doomed
      /\ \A d \in doomed :
           \/ d = deletion.root
           \/ /\ How(d) = "cascade"
              /\ d \in deletion.dependents
                 \/ \E c \in deletion.dependents : How(c) = "cascade" /\ d \in Dependents(c)
  BY <1>1, <1>5, DoomedWithDependents
<1>9. /\ deletion'.pc = "collected" /\ deletion'.root = deletion.root /\ deletion'.dependents = {}
      /\ deletion'.work = work /\ deletion'.doomed = doomed
  BY <1>1, <1>5 DEF CascadesTypeOK
<1>10. CascadesTypeOK'
  <2>1. doomed \subseteq Doc
    BY <1>1, <1>3, <1>6, <1>8, LevelsOfDependents
  <2> QED BY <1>1, <1>2, <1>5, <1>7, <2>1 DEF CascadesTypeOK, DeletionPc
<1>11. ReferencesInOrder'
  BY <1>1, <1>2, <1>4 DEF ReferencesInOrder
<1>12. DeletionInOrder'
  BY <1>1, <1>2, <1>3, <1>4, <1>9 DEF DeletionInOrder
<1>13. WorkInOrder'
  <2>1. ASSUME NEW w \in work
        PROVE  /\ w[1] \in Child \cup Grandchild
               /\ How(w[1]) = "cascade" => w[1] = raced \/ refs["owner"][w[1]] \cap Dead # {}
               /\ w[2] = "owner" /\ Single(w[1]) => w[1] = raced \/ refs["owner"][w[1]] \cap Alive = {}
    <3>1. w[1] \in Doc /\ w[1] \in Child \cup Grandchild /\ (w[1] = raced \/ deletion.root \in refs["owner"][w[1]])
      BY <1>6, <1>7
    <3>2. CASE w[1] # raced
      <4>1. deletion.root \in refs["owner"][w[1]] /\ deletion.root \in Dead /\ deletion.root \notin Alive
        BY <1>1, <1>3, <3>1, <3>2, Standings
      <4>2. Single(w[1]) => refs["owner"][w[1]] \subseteq {deletion.root}
        BY <1>1, <3>1, <4>1 DEF ReferencesInOrder
      <4> QED BY <3>1, <4>1, <4>2
    <3> QED BY <3>1, <3>2
  <2> QED BY <1>2, <1>4, <1>7, <1>9, <2>1 DEF WorkInOrder
<1>14. OnlyDependentsDie'
  BY <1>3, <1>4, <1>9 DEF OnlyDependentsDie
<1>15. ReferencesWait'
  <2>1. ASSUME NEW d \in Alive, NEW target \in refs["owner"][d] \cap Dead
        PROVE  \/ Races(d) \/ How(d) = "none" \/ ~Single(d)
               \/ target = deletion.root /\ "down" \notin setup.populated
               \/ <<d, "owner">> \in work
    <3>1. d \in deletion.dependents => How(d) = "none" \/ <<d, "owner">> \in work
      BY <1>7
    <3>2. deletion.work = {}
      BY <1>1, <1>2 DEF DeletionInOrder
    <3> QED BY <1>1, <1>2, <1>3, <3>1, <3>2 DEF ReferencesWait
  <2> QED BY <1>1, <1>2, <1>3, <1>4, <1>9, <2>1 DEF ReferencesWait
<1>16. DoomedDie'
  <2>1. ASSUME NEW d \in doomed
        PROVE  \/ d \in Dead
               \/ /\ How(d) = "cascade"
                  /\ \/ <<d, "owner">> \in work
                     \/ \E c \in refs["owner"][d] : <<c, "owner">> \in work /\ How(c) = "cascade"
    <3>1. CASE d = deletion.root
      BY <1>3, <3>1
    <3>2. CASE How(d) = "cascade" /\ d \in deletion.dependents
      BY <1>7, <3>2
    <3>3. CASE How(d) = "cascade" /\ \E c \in deletion.dependents : How(c) = "cascade" /\ d \in Dependents(c)
      BY <1>7, <3>3 DEF Dependents
    <3> QED BY <1>8, <3>1, <3>2, <3>3
  <2>2. Alive \ files = {}
    BY <1>1, <1>2 DEF DoomedDie
  <2> QED BY <1>2, <1>3, <1>4, <1>9, <2>1, <2>2 DEF DoomedDie
<1>17. DeadAreDoomed'
  <2>1. \A d \in Dead : d \in doomed \/ Excused(d)
    BY <1>3, <1>8 DEF Excused
  <2>2. Excused(deletion.root)' = Excused(deletion.root) /\ \A d : Excused(d)' = Excused(d)
    BY <1>2, <1>9 DEF Excused
  <2>3. \A w \in work : How(w[1]) = "cascade" =>
          /\ w[1] \in doomed
          /\ \A e \in Dependents(w[1]) : How(e) = "cascade" => e \in doomed
    BY <1>7, <1>8
  <2> QED BY <1>2, <1>3, <1>4, <1>9, <2>1, <2>2, <2>3 DEF DeadAreDoomed
<1> QED BY <1>10, <1>11, <1>12, <1>13, <1>14, <1>15, <1>16, <1>17 DEF CascadesInv

\* deleteOne of a dependent, whose dependents are to follow
LEMMA CascadeDeleteStep ==
  ASSUME CascadesInv, NEW w \in deletion.work, CascadeDelete(w) PROVE CascadesInv'
<1>1. /\ CascadesTypeOK /\ ReferencesInOrder /\ DeletionInOrder /\ WorkInOrder
      /\ OnlyDependentsDie /\ ReferencesWait /\ DoomedDie /\ DeadAreDoomed
  BY DEF CascadesInv
<1> DEFINE gone == w[1]
<1>2. /\ deletion.pc = "collected" /\ How(gone) = "cascade" /\ status' = Without({gone})
      /\ deletion' = [deletion EXCEPT !.work = (deletion.work \ {w}) \cup WorkFor(Dependents(gone))]
      /\ UNCHANGED <<setup, refs, files, raced, lost>>
  BY DEF CascadeDelete
<1>3. /\ setup.orm = "mongoose" /\ deletion.root \in Doc /\ deletion.root \in Dead
  BY <1>1, <1>2 DEF DeletionInOrder
<1>4. /\ gone \in Doc /\ w = <<gone, "owner">> /\ gone \in Child \cup Grandchild /\ gone \notin Fresh
      /\ gone = raced \/ refs["owner"][gone] \cap Dead # {}
  <2>1. w = <<w[1], w[2]>> /\ w[1] \in Doc /\ w[2] \in Field
    BY <1>1, DeletionTyped
  <2>2. /\ gone \in Child \cup Grandchild /\ w[2] # "other"
        /\ gone = raced \/ refs["owner"][gone] \cap Dead # {}
    BY <1>1, <1>2 DEF WorkInOrder
  <2>3. gone \notin Fresh
    BY <1>1, <2>1, <2>2 DEF ReferencesInOrder, Field
  <2> QED BY <2>1, <2>2, <2>3 DEF Field
<1>5. /\ Alive' = Alive \ {gone} /\ Dead' = Dead \cup {gone} /\ Fresh' = Fresh
      /\ status' \in [Doc -> {"fresh", "alive", "dead"}]
  BY <1>1, <1>2, <1>4, DocumentsDie
<1>6. /\ \A d : How(d)' = How(d) /\ Races(d)' = Races(d) /\ Single(d)' = Single(d)
      /\ \A d : Dependents(d)' \subseteq Dependents(d)
  BY <1>2, <1>5 DEF How, Dependents, Races, Single
<1>7. PICK more : /\ more = WorkFor(Dependents(gone))
                  /\ deletion' = [deletion EXCEPT !.work = (deletion.work \ {w}) \cup more]
  BY <1>2
<1>8. Dependents(gone) \subseteq Alive /\ Dependents(gone) \subseteq Doc
      /\ \A d \in Dependents(gone) : gone \in refs["owner"][d] /\ d \in Grandchild /\ gone \in Child /\ Dependents(d) = {}
  <2>1. \A d \in Dependents(gone) : /\ d \in Alive /\ d \in Doc /\ gone \in refs["owner"][d]
                                    /\ d \in Grandchild /\ gone \in Child
    BY <1>1, <1>4, LevelsOfDependents, CascadesAssumption
  <2>2. \A d \in Dependents(gone) : Dependents(d) = {}
    BY <1>1, <2>1, LevelsOfDependents, CascadesAssumption
  <2> QED BY <2>1, <2>2
<1>9. /\ \A v \in more :
           /\ v[1] \in Dependents(gone) /\ v[2] \in Field /\ v = <<v[1], v[2]>>
           /\ How(v[1]) \in {"cascade", "setNull"}
           /\ v[2] = "other" => v[1] \in Child /\ How(v[1]) = "setNull"
      /\ \A d \in Dependents(gone) : How(d) # "none" => <<d, "owner">> \in more
      /\ more \subseteq Doc \X Field
  BY <1>1, <1>7, <1>8, WorkForDependents
<1>10. /\ deletion'.pc = "collected" /\ deletion'.root = deletion.root /\ deletion'.dependents = deletion.dependents
       /\ deletion'.work = (deletion.work \ {w}) \cup more /\ deletion'.doomed = deletion.doomed
  BY <1>1, <1>2, <1>7 DEF CascadesTypeOK
<1>11. CascadesTypeOK'
  BY <1>1, <1>2, <1>5, <1>7, <1>9 DEF CascadesTypeOK
<1>12. ReferencesInOrder'
  BY <1>1, <1>2, <1>5, <1>6 DEF ReferencesInOrder
<1>13. DeletionInOrder'
  BY <1>1, <1>2, <1>3, <1>5, <1>10 DEF DeletionInOrder
<1>14. WorkInOrder'
  <2>1. ASSUME NEW v \in more
        PROVE  /\ v[1] \in Child \cup Grandchild
               /\ refs["owner"][v[1]] \cap (Dead \cup {gone}) # {}
               /\ Single(v[1]) => refs["owner"][v[1]] \cap (Alive \ {gone}) = {}
    <3>1. v[1] \in Doc /\ v[1] \in Grandchild /\ gone \in refs["owner"][v[1]]
      BY <1>8, <1>9
    <3> QED BY <1>1, <3>1 DEF ReferencesInOrder
  <2>2. deletion.dependents = {}
    BY <1>1, <1>2 DEF DeletionInOrder
  <2>3. ASSUME NEW v \in deletion.work
        PROVE  /\ v[1] \in Child \cup Grandchild /\ How(v[1]) \in {"cascade", "setNull"}
               /\ v[2] = "other" => v[1] \in Child /\ How(v[1]) = "setNull"
               /\ How(v[1]) = "cascade" => v[1] = raced \/ refs["owner"][v[1]] \cap Dead' # {}
               /\ v[2] = "owner" /\ Single(v[1]) => v[1] = raced \/ refs["owner"][v[1]] \cap Alive' = {}
    BY <1>1, <1>5 DEF WorkInOrder
  <2>4. \A v \in deletion'.work :
          /\ v[1] \in Child \cup Grandchild /\ How(v[1]) \in {"cascade", "setNull"}
          /\ v[2] = "other" => v[1] \in Child /\ How(v[1]) = "setNull"
          /\ How(v[1]) = "cascade" => v[1] = raced \/ refs["owner"][v[1]] \cap Dead' # {}
          /\ v[2] = "owner" /\ Single(v[1]) => v[1] = raced \/ refs["owner"][v[1]] \cap Alive' = {}
    BY <1>5, <1>9, <1>10, <2>1, <2>3
  <2> QED BY <1>2, <1>6, <1>10, <2>2, <2>4 DEF WorkInOrder
<1>15. OnlyDependentsDie'
  <2>1. Races(gone) \/ refs["owner"][gone] \cap Dead # {}
    BY <1>1, <1>4, Standings DEF Races
  <2> QED BY <1>1, <1>2, <1>5, <1>6, <1>10, <2>1 DEF OnlyDependentsDie
<1>16. ReferencesWait'
  <2>1. ASSUME NEW d \in Alive', NEW target \in refs["owner"][d] \cap Dead'
        PROVE  \/ Races(d) \/ How(d) = "none" \/ ~Single(d)
               \/ target = deletion.root /\ "down" \notin setup.populated
               \/ <<d, "owner">> \in deletion'.work
    <3>1. CASE target = gone
      <4>1. d \in Dependents(gone)
        BY <1>5, <2>1, <3>1 DEF Dependents
      <4> QED BY <1>9, <1>10, <4>1
    <3>2. CASE target # gone
      <4>1. d \in Alive /\ target \in refs["owner"][d] \cap Dead /\ d # gone
        BY <1>5, <2>1, <3>2
      <4>2. \/ Races(d) \/ How(d) = "none" \/ ~Single(d)
            \/ target = deletion.root /\ "down" \notin setup.populated
            \/ <<d, "owner">> \in deletion.work
        BY <1>1, <1>2, <1>3, <4>1 DEF ReferencesWait
      <4>3. <<d, "owner">> # w
        BY <1>4, <4>1
      <4> QED BY <1>10, <4>2, <4>3
    <3> QED BY <3>1, <3>2
  <2>2. \A v \in lost : v[1] = raced \/ (v[2] = "other" /\ setup.children = "setNull")
    BY <1>1 DEF ReferencesWait
  <2> QED BY <1>2, <1>3, <1>6, <1>10, <2>1, <2>2 DEF ReferencesWait
<1>17. DoomedDie'
  <2>1. ASSUME NEW d \in deletion.doomed
        PROVE  \/ d \in Dead' \/ d = raced
               \/ /\ How(d) = "cascade"
                  /\ \/ <<d, "owner">> \in deletion'.work
                     \/ \E c \in refs["owner"][d] : <<c, "owner">> \in deletion'.work /\ How(c) = "cascade"
    <3>1. CASE d \in Dead' \/ d = raced
      BY <3>1
    <3>2. CASE d \notin Dead' /\ d # raced
      <4>1. d \notin Dead /\ d # gone /\ d \in Doc
        BY <1>1, <1>5, <3>2, DeletionTyped
      <4>2. /\ How(d) = "cascade"
            /\ \/ <<d, "owner">> \in deletion.work
               \/ \E c \in refs["owner"][d] : <<c, "owner">> \in deletion.work /\ How(c) = "cascade"
        BY <1>1, <1>2, <1>3, <3>2, <4>1 DEF DoomedDie
      <4>3. CASE <<d, "owner">> \in deletion.work
        BY <1>4, <1>10, <4>1, <4>2, <4>3
      <4>4. ASSUME NEW c \in refs["owner"][d], <<c, "owner">> \in deletion.work, How(c) = "cascade"
            PROVE  <<d, "owner">> \in deletion'.work \/ <<c, "owner">> \in deletion'.work
        <5>1. CASE c = gone
          <6>1. d \in Alive
            BY <1>1, <4>1, <4>4, Standings, LevelsOfOwners
          <6>2. d \in Dependents(gone)
            BY <4>4, <5>1, <6>1 DEF Dependents
          <6> QED BY <1>9, <1>10, <4>2, <6>2
        <5>2. CASE c # gone
          BY <1>4, <1>10, <4>4, <5>2
        <5> QED BY <5>1, <5>2
      <4> QED BY <4>2, <4>3, <4>4
    <3> QED BY <3>1, <3>2
  <2>2. Alive' \ files = {}
    BY <1>1, <1>2, <1>5 DEF DoomedDie
  <2> QED BY <1>2, <1>3, <1>6, <1>10, <2>1, <2>2 DEF DoomedDie
<1>18. DeadAreDoomed'
  <2>1. /\ \A d \in Dead \cap files : d \in deletion.doomed \/ d = raced \/ Excused(d)
        /\ \A v \in deletion.work : How(v[1]) = "cascade" =>
             /\ v[1] \in deletion.doomed \/ v[1] = raced
             /\ \A e \in Dependents(v[1]) : How(e) = "cascade" => e \in deletion.doomed \/ e = raced
    BY <1>1, <1>2, <1>3 DEF DeadAreDoomed
  <2>2. \A d : Excused(d)' = Excused(d)
    BY <1>2, <1>10 DEF Excused
  <2>3. \A v \in deletion'.work : How(v[1]) = "cascade" =>
          /\ v[1] \in deletion.doomed \/ v[1] = raced
          /\ \A e \in Dependents(v[1]) : How(e) = "cascade" => e \in deletion.doomed \/ e = raced
    BY <1>2, <1>8, <1>9, <1>10, <2>1
  <2>4. \A d \in Dead' \cap files : d \in deletion.doomed \/ d = raced \/ Excused(d)
    BY <1>2, <1>5, <2>1
  <2> QED BY <1>2, <1>3, <1>6, <1>10, <2>2, <2>3, <2>4 DEF DeadAreDoomed
<1> QED BY <1>11, <1>12, <1>13, <1>14, <1>15, <1>16, <1>17, <1>18 DEF CascadesInv

\* A field becomes null: what it referred to is dead, or another request has just changed it, or it is
\* the other field of a child.
LEMMA CascadeSetNullStep ==
  ASSUME CascadesInv, NEW w \in deletion.work, CascadeSetNull(w) PROVE CascadesInv'
<1>1. /\ CascadesTypeOK /\ ReferencesInOrder /\ DeletionInOrder /\ WorkInOrder
      /\ OnlyDependentsDie /\ ReferencesWait /\ DoomedDie /\ DeadAreDoomed
  BY DEF CascadesInv
<1> DEFINE d == w[1]
           f == w[2]
<1>2. /\ deletion.pc = "collected" /\ How(d) = "setNull"
      /\ refs' = IF Kept(w) THEN refs ELSE Nulled(w)
      /\ lost' = IF Kept(w) \/ refs[f][d] \cap Alive = {} THEN lost ELSE lost \cup {w}
      /\ deletion' = [deletion EXCEPT !.work = deletion.work \ {w}]
      /\ UNCHANGED <<setup, status, files, raced>>
  BY DEF CascadeSetNull
<1>3. /\ setup.orm = "mongoose" /\ deletion.root \in Doc /\ deletion.root \in Dead
  BY <1>1, <1>2 DEF DeletionInOrder
<1>4. Alive' = Alive /\ Dead' = Dead /\ Fresh' = Fresh
  BY <1>2, StandingsKept
<1>5. /\ d \in Doc /\ f \in Field /\ w = <<d, f>> /\ (f = "other" => d \in Child)
      /\ f = "owner" /\ Single(d) => d = raced \/ refs["owner"][d] \cap Alive = {}
  BY <1>1, DeletionTyped DEF WorkInOrder
<1>6. \A e : How(e)' = How(e) /\ Single(e)' = Single(e)
  BY <1>2 DEF How, Single
<1>7. /\ refs' \in [Field -> [Doc -> SUBSET Doc]]
      /\ \A g \in Field, e \in Doc : refs'[g][e] \subseteq refs[g][e] /\ (e # d => refs'[g][e] = refs[g][e])
      /\ f = "owner" => ~Single(d) \/ refs'["owner"][d] = {}
      /\ \A e \in Doc : refs'["owner"][e] = refs["owner"][e] \/ (e = d /\ refs'["owner"][e] = {})
  <2>1. "owner" \in Field
    BY DEF Field
  <2>2. CASE Kept(w)
    BY <1>1, <1>2, <2>1, <2>2 DEF Kept, Single, CascadesTypeOK
  <2>3. CASE ~Kept(w)
    <3>1. refs' = [refs EXCEPT ![f][d] = {}]
      BY <1>2, <2>3 DEF Nulled
    <3> QED BY <1>1, <1>5, <2>1, <3>1 DEF CascadesTypeOK
  <2> QED BY <2>2, <2>3
<1>8. \A e \in Doc : Races(e) => Races(e)' \/ refs'["owner"][e] = {}
  BY <1>2, <1>7 DEF Races
<1>9. /\ deletion'.pc = "collected" /\ deletion'.root = deletion.root /\ deletion'.dependents = deletion.dependents
      /\ deletion'.work = deletion.work \ {w} /\ deletion'.doomed = deletion.doomed
  BY <1>1, <1>2 DEF CascadesTypeOK
<1>10. CascadesTypeOK'
  <2>1. lost' \subseteq Doc \X Field
    BY <1>1, <1>2, <1>5 DEF CascadesTypeOK
  <2> QED BY <1>1, <1>2, <1>7, <2>1 DEF CascadesTypeOK
<1>11. ReferencesInOrder'
  <2>1. "owner" \in Field
    BY DEF Field
  <2>2. \A e \in Doc : refs'["owner"][e] \subseteq refs["owner"][e]
    BY <1>7, <2>1
  <2>3. /\ \A e \in Doc : refs'["owner"][e] \subseteq OwnersOf(e)
        /\ \A e \in Doc : Single(e) => \A one, two \in refs'["owner"][e] : one = two
    BY <1>1, <2>2 DEF ReferencesInOrder
  <2>4. \A e \in Doc, g \in Field : refs'[g][e] \cap Fresh = {} /\ (e \in Fresh => refs'[g][e] = {})
    BY <1>1, <1>7 DEF ReferencesInOrder
  <2> QED BY <1>1, <1>2, <1>4, <1>6, <2>3, <2>4 DEF ReferencesInOrder
<1>12. DeletionInOrder'
  BY <1>1, <1>2, <1>3, <1>4, <1>9 DEF DeletionInOrder
<1>13. WorkInOrder'
  <2>1. deletion.dependents = {}
    BY <1>1, <1>2 DEF DeletionInOrder
  <2>2. ASSUME NEW v \in deletion.work \ {w}
        PROVE  /\ v[1] \in Child \cup Grandchild /\ How(v[1]) \in {"cascade", "setNull"}
               /\ v[2] = "other" => v[1] \in Child /\ How(v[1]) = "setNull"
               /\ How(v[1]) = "cascade" => v[1] = raced \/ refs'["owner"][v[1]] \cap Dead # {}
               /\ v[2] = "owner" /\ Single(v[1]) => v[1] = raced \/ refs'["owner"][v[1]] \cap Alive = {}
    <3>1. v[1] \in Doc
      BY <1>1, DeletionTyped
    <3>2. How(v[1]) = "cascade" => refs'["owner"][v[1]] = refs["owner"][v[1]]
      BY <1>2, <1>7, <3>1 DEF Field
    <3>3. refs'["owner"][v[1]] \subseteq refs["owner"][v[1]]
      BY <1>7, <3>1 DEF Field
    <3> QED BY <1>1, <3>2, <3>3 DEF WorkInOrder
  <2> QED BY <1>2, <1>4, <1>6, <1>9, <2>1, <2>2 DEF WorkInOrder
<1>14. OnlyDependentsDie'
  <2>1. ASSUME NEW e \in Dead, e # deletion.root
        PROVE  How(e) = "cascade" /\ (Races(e)' \/ refs'["owner"][e] \cap Dead # {})
    <3>1. How(e) = "cascade" /\ (Races(e) \/ refs["owner"][e] \cap Dead # {})
      BY <1>1, <2>1 DEF OnlyDependentsDie
    <3>2. e \in Doc /\ refs'["owner"][e] = refs["owner"][e]
      BY <1>1, <1>2, <1>7, <3>1, Standings DEF Field
    <3>3. Races(e)' = Races(e)
      BY <1>2, <3>2 DEF Races
    <3> QED BY <3>1, <3>2, <3>3
  <2> QED BY <1>4, <1>6, <1>9, <2>1 DEF OnlyDependentsDie
<1>15. ReferencesWait'
  <2>1. ASSUME NEW e \in Alive, NEW target \in refs'["owner"][e] \cap Dead
        PROVE  \/ Races(e)' \/ How(e) = "none" \/ ~Single(e)
               \/ target = deletion.root /\ "down" \notin setup.populated
               \/ <<e, "owner">> \in deletion.work \ {w}
    <3>1. e \in Doc /\ refs'["owner"][e] = refs["owner"][e]
      BY <1>1, <1>7, <2>1, Standings
    <3>2. \/ Races(e) \/ How(e) = "none" \/ ~Single(e)
          \/ target = deletion.root /\ "down" \notin setup.populated
          \/ <<e, "owner">> \in deletion.work
      BY <1>1, <1>2, <1>3, <2>1, <3>1 DEF ReferencesWait
    <3>3. <<e, "owner">> = w => ~Single(e)
      BY <1>5, <1>7, <2>1
    <3> QED BY <1>8, <2>1, <3>1, <3>2, <3>3
  <2>2. ASSUME NEW v \in lost' PROVE v[1] = raced \/ (v[2] = "other" /\ setup.children = "setNull")
    <3>1. CASE v \in lost
      BY <1>1, <3>1 DEF ReferencesWait
    <3>2. CASE v = w /\ ~Kept(w) /\ refs[f][d] \cap Alive # {}
      <4>1. CASE f = "owner"
        BY <1>5, <3>2, <4>1 DEF Kept, Single
      <4>2. CASE f = "other"
        BY <1>2, <1>5, <3>2, <4>2 DEF How
      <4> QED BY <1>5, <4>1, <4>2 DEF Field
    <3> QED BY <1>2, <2>2, <3>1, <3>2
  <2> QED BY <1>2, <1>3, <1>4, <1>6, <1>9, <2>1, <2>2 DEF ReferencesWait
<1>16. DoomedDie'
  <2>1. ASSUME NEW e \in deletion.doomed
        PROVE  \/ e \in Dead \/ e = raced
               \/ /\ How(e) = "cascade"
                  /\ \/ <<e, "owner">> \in deletion'.work
                     \/ \E c \in refs'["owner"][e] : <<c, "owner">> \in deletion'.work /\ How(c) = "cascade"
    <3>1. \/ e \in Dead \/ e = raced
          \/ /\ How(e) = "cascade"
             /\ \/ <<e, "owner">> \in deletion.work
                \/ \E c \in refs["owner"][e] : <<c, "owner">> \in deletion.work /\ How(c) = "cascade"
      BY <1>1, <1>2, <1>3 DEF DoomedDie
    <3>2. \A c : How(c) = "cascade" => <<c, "owner">> # w
      BY <1>2, <1>5
    <3>3. e \in Doc /\ (How(e) = "cascade" => refs'["owner"][e] = refs["owner"][e])
      BY <1>1, <1>2, <1>7, DeletionTyped DEF Field
    <3> QED BY <1>9, <3>1, <3>2, <3>3
  <2>2. Alive \ files = {}
    BY <1>1, <1>2 DEF DoomedDie
  <2> QED BY <1>2, <1>3, <1>4, <1>6, <1>9, <2>1, <2>2 DEF DoomedDie
<1>17. DeadAreDoomed'
  <2>1. /\ \A e \in Dead \cap files : e \in deletion.doomed \/ e = raced \/ Excused(e)
        /\ \A v \in deletion.work : How(v[1]) = "cascade" =>
             /\ v[1] \in deletion.doomed \/ v[1] = raced
             /\ \A e \in Dependents(v[1]) : How(e) = "cascade" => e \in deletion.doomed \/ e = raced
    BY <1>1, <1>2, <1>3 DEF DeadAreDoomed
  <2>2. \A e : Excused(e)' = Excused(e)
    BY <1>2, <1>9 DEF Excused
  <2>3. \A e : Dependents(e)' \subseteq Dependents(e)
    BY <1>1, <1>4, <1>7, Standings DEF Dependents, Field
  <2> QED BY <1>2, <1>3, <1>4, <1>6, <1>9, <2>1, <2>2, <2>3 DEF DeadAreDoomed
<1> QED BY <1>10, <1>11, <1>12, <1>13, <1>14, <1>15, <1>16, <1>17 DEF CascadesInv

-----------------------------------------------------------------------------
(* The steps that change nothing but the place of the deletion *)

\* What is said of the documents and the references stays, and what is said of the deletion is to be shown.
LEMMA DeletionMoves ==
  ASSUME CascadesInv, UNCHANGED <<setup, status, refs, files, raced, lost>>,
         CascadesTypeOK', DeletionInOrder', deletion'.root = deletion.root,
         deletion'.dependents = {}, deletion'.work = {},
         ReferencesWait', DoomedDie', DeadAreDoomed'
  PROVE  CascadesInv'
<1>1. Alive' = Alive /\ Dead' = Dead /\ Fresh' = Fresh
  BY StandingsKept
<1>2. ReferencesInOrder'
  BY <1>1 DEF CascadesInv, ReferencesInOrder, Single
<1>3. WorkInOrder'
  BY DEF WorkInOrder
<1>4. OnlyDependentsDie'
  BY <1>1 DEF CascadesInv, OnlyDependentsDie, How, Races
<1> QED BY <1>2, <1>3, <1>4 DEF CascadesInv

\* The cascade is over.
LEMMA CascadedStep == ASSUME CascadesInv, Cascaded PROVE CascadesInv'
<1>1. /\ CascadesTypeOK /\ DeletionInOrder /\ ReferencesWait /\ DoomedDie /\ DeadAreDoomed
  BY DEF CascadesInv
<1>2. /\ deletion.pc = "collected" /\ deletion.work = {} /\ deletion' = [deletion EXCEPT !.pc = "unlinking"]
      /\ UNCHANGED <<setup, status, refs, files, raced, lost>>
  BY DEF Cascaded
<1>3. /\ deletion'.pc = "unlinking" /\ deletion'.root = deletion.root /\ deletion'.dependents = deletion.dependents
      /\ deletion'.work = {} /\ deletion'.doomed = deletion.doomed
  BY <1>1, <1>2 DEF CascadesTypeOK
<1>4. deletion.dependents = {} /\ setup.orm = "mongoose"
  BY <1>1, <1>2 DEF DeletionInOrder
<1>5. /\ Alive' = Alive /\ Dead' = Dead /\ Fresh' = Fresh
      /\ \A d : How(d)' = How(d) /\ Races(d)' = Races(d) /\ Single(d)' = Single(d) /\ Excused(d)' = Excused(d)
  BY <1>2, <1>3, StandingsKept DEF How, Races, Single, Excused
<1>6. CascadesTypeOK'
  BY <1>1, <1>2 DEF CascadesTypeOK, DeletionPc
<1>7. DeletionInOrder'
  BY <1>1, <1>2, <1>3, <1>4, <1>5 DEF DeletionInOrder
<1>8. ReferencesWait'
  BY <1>1, <1>2, <1>3, <1>4, <1>5 DEF ReferencesWait
<1>9. DoomedDie'
  BY <1>1, <1>2, <1>3, <1>4, <1>5 DEF DoomedDie
<1>10. DeadAreDoomed'
  BY <1>1, <1>2, <1>3, <1>4, <1>5 DEF DeadAreDoomed
<1> QED BY <1>2, <1>3, <1>4, <1>6, <1>7, <1>8, <1>9, <1>10, DeletionMoves

\* The reply
LEMMA DeletedStep == ASSUME CascadesInv, Deleted PROVE CascadesInv'
<1>1. /\ CascadesTypeOK /\ DeletionInOrder /\ ReferencesWait /\ DoomedDie /\ DeadAreDoomed
  BY DEF CascadesInv
<1>2. /\ deletion.pc = "unlinking" /\ deletion.doomed = {} /\ deletion' = [deletion EXCEPT !.pc = "done"]
      /\ UNCHANGED <<setup, status, refs, files, raced, lost>>
  BY DEF Deleted
<1>3. /\ deletion'.pc = "done" /\ deletion'.root = deletion.root /\ deletion'.dependents = deletion.dependents
      /\ deletion'.work = deletion.work /\ deletion'.doomed = {}
  BY <1>1, <1>2 DEF CascadesTypeOK
<1>4. deletion.dependents = {} /\ deletion.work = {}
  BY <1>1, <1>2 DEF DeletionInOrder
<1>5. /\ Alive' = Alive /\ Dead' = Dead /\ Fresh' = Fresh
      /\ \A d : How(d)' = How(d) /\ Races(d)' = Races(d) /\ Single(d)' = Single(d) /\ Excused(d)' = Excused(d)
  BY <1>2, <1>3, StandingsKept DEF How, Races, Single, Excused
<1>6. CascadesTypeOK'
  BY <1>1, <1>2 DEF CascadesTypeOK, DeletionPc
<1>7. DeletionInOrder'
  BY <1>1, <1>2, <1>3, <1>4, <1>5 DEF DeletionInOrder
<1>8. ReferencesWait'
  BY <1>1, <1>2, <1>3, <1>4, <1>5 DEF ReferencesWait
<1>9. DoomedDie'
  BY <1>1, <1>2, <1>3, <1>5 DEF DoomedDie
<1>10. DeadAreDoomed'
  BY <1>1, <1>2, <1>3, <1>5 DEF DeadAreDoomed
<1> QED BY <1>2, <1>3, <1>4, <1>6, <1>7, <1>8, <1>9, <1>10, DeletionMoves

\* Something fails, and what was still to do is forgotten.
LEMMA DeletionFailsStep == ASSUME CascadesInv, DeletionFails PROVE CascadesInv'
<1>1. /\ CascadesTypeOK /\ DeletionInOrder /\ ReferencesWait /\ DoomedDie /\ DeadAreDoomed
  BY DEF CascadesInv
<1>2. /\ deletion.pc \notin {"idle", "done", "failed"}
      /\ deletion' = [pc |-> "failed", root |-> deletion.root, dependents |-> {}, work |-> {}, doomed |-> {}]
      /\ UNCHANGED <<setup, status, refs, files, raced, lost>>
  BY DEF DeletionFails, NoDeletion
<1>3. /\ deletion'.pc = "failed" /\ deletion'.root = deletion.root /\ deletion'.dependents = {}
      /\ deletion'.work = {} /\ deletion'.doomed = {}
  BY <1>2
<1>4. /\ Alive' = Alive /\ Dead' = Dead /\ Fresh' = Fresh
      /\ \A d : How(d)' = How(d) /\ Races(d)' = Races(d) /\ Single(d)' = Single(d)
  BY <1>2, StandingsKept DEF How, Races, Single
<1>5. CascadesTypeOK'
  BY <1>1, <1>2 DEF CascadesTypeOK, DeletionPc
<1>6. DeletionInOrder'
  BY <1>1, <1>2, <1>3, <1>4 DEF DeletionInOrder
<1>7. ReferencesWait'
  BY <1>1, <1>2, <1>3, <1>4 DEF ReferencesWait
<1>8. DoomedDie'
  BY <1>1, <1>2, <1>3, <1>4 DEF DoomedDie
<1>9. DeadAreDoomed'
  BY <1>3 DEF DeadAreDoomed
<1> QED BY <1>2, <1>3, <1>5, <1>6, <1>7, <1>8, <1>9, DeletionMoves

\* A file goes.
LEMMA UnlinkStep == ASSUME CascadesInv, NEW d \in Doc, Unlink(d) PROVE CascadesInv'
<1>1. /\ CascadesTypeOK /\ ReferencesInOrder /\ DeletionInOrder /\ WorkInOrder
      /\ OnlyDependentsDie /\ ReferencesWait /\ DoomedDie /\ DeadAreDoomed
  BY DEF CascadesInv
<1>2. /\ deletion.pc = "unlinking" /\ d \in deletion.doomed /\ files' = files \ {d}
      /\ deletion' = [deletion EXCEPT !.doomed = deletion.doomed \ {d}]
      /\ UNCHANGED <<setup, status, refs, raced, lost>>
  BY DEF Unlink
<1>3. /\ deletion'.pc = "unlinking" /\ deletion'.root = deletion.root /\ deletion'.dependents = deletion.dependents
      /\ deletion'.work = deletion.work /\ deletion'.doomed = deletion.doomed \ {d}
  BY <1>1, <1>2 DEF CascadesTypeOK
<1>4. deletion.dependents = {} /\ deletion.work = {}
  BY <1>1, <1>2 DEF DeletionInOrder
<1>5. /\ Alive' = Alive /\ Dead' = Dead /\ Fresh' = Fresh
      /\ \A e : How(e)' = How(e) /\ Races(e)' = Races(e) /\ Single(e)' = Single(e) /\ Excused(e)' = Excused(e)
  BY <1>2, <1>3, StandingsKept DEF How, Races, Single, Excused
<1>6. CascadesTypeOK'
  BY <1>1, <1>2 DEF CascadesTypeOK
<1>7. ReferencesInOrder'
  BY <1>1, <1>2, <1>5 DEF ReferencesInOrder
<1>8. DeletionInOrder'
  BY <1>1, <1>2, <1>3, <1>4, <1>5 DEF DeletionInOrder
<1>9. WorkInOrder'
  BY <1>3, <1>4 DEF WorkInOrder
<1>10. OnlyDependentsDie'
  BY <1>1, <1>2, <1>3, <1>5 DEF OnlyDependentsDie
<1>11. ReferencesWait'
  BY <1>1, <1>2, <1>3, <1>4, <1>5 DEF ReferencesWait
<1>12. DoomedDie'
  <2>1. d \in Alive => \/ Races(d)
                       \/ setup.orm = "typeorm" /\ "up" \in setup.populated /\ deletion.root \notin Parent
    <3>1. setup.orm \in {"mongoose", "typeorm"} /\ NoDoc \notin Doc /\ Alive \cap Dead = {}
      BY <1>1, Standings DEF CascadesTypeOK, Setup
    <3>2. CASE setup.orm = "mongoose"
      BY <1>1, <1>2, <3>1, <3>2 DEF DoomedDie, Races
    <3>3. CASE setup.orm = "typeorm"
      BY <1>1, <1>2, <3>1, <3>3 DEF DoomedDie
    <3> QED BY <3>1, <3>2, <3>3
  <2>2. \A e \in Alive \ files' : e \in Alive \ files \/ e = d
    BY <1>2
  <2> QED BY <1>1, <1>2, <1>3, <1>5, <2>1, <2>2 DEF DoomedDie
<1>13. DeadAreDoomed'
  BY <1>1, <1>2, <1>3, <1>4, <1>5 DEF DeadAreDoomed
<1> QED BY <1>6, <1>7, <1>8, <1>9, <1>10, <1>11, <1>12, <1>13 DEF CascadesInv

-----------------------------------------------------------------------------
(* TypeORM *)

\* What the database deletes with a document, level by level
LEMMA DependentLevels ==
  ASSUME CascadesTypeOK, ReferencesInOrder, NEW d \in Doc
  PROVE  /\ Dependent(d) \subseteq Doc /\ d \in Dependent(d)
         /\ \A e \in Dependent(d) :
              \/ e = d
              \/ /\ e \in Alive /\ How(e) = "cascade"
                 /\ \/ e \in Dependents(d)
                    \/ \E c \in Dependents(d) : How(c) = "cascade" /\ e \in Dependents(c)
         /\ \A e \in Dependents(d) : How(e) = "cascade" =>
              /\ e \in Dependent(d)
              /\ \A g \in Dependents(e) : How(g) = "cascade" => g \in Dependent(d)
<1> DEFINE children == {c \in Dependents(d) : How(c) = "cascade"}
           grandchildren == {g \in UNION {Dependents(c) : c \in children} : How(g) = "cascade"}
<1>1. Dependent(d) = {d} \cup children \cup grandchildren
  BY DEF Dependent
<1>2. \A c \in children : c \in Doc /\ c \in Alive /\ How(c) = "cascade" /\ c \in Dependents(d)
  BY LevelsOfDependents
<1>3. \A g \in grandchildren : /\ g \in Doc /\ g \in Alive /\ How(g) = "cascade"
                               /\ \E c \in Dependents(d) : How(c) = "cascade" /\ g \in Dependents(c)
  BY <1>2, LevelsOfDependents
<1>4. Dependent(d) \subseteq Doc /\ d \in Dependent(d)
  BY <1>1, <1>2, <1>3
<1>5. \A e \in Dependent(d) :
        \/ e = d
        \/ /\ e \in Alive /\ How(e) = "cascade"
           /\ \/ e \in Dependents(d)
              \/ \E c \in Dependents(d) : How(c) = "cascade" /\ e \in Dependents(c)
  BY <1>1, <1>2, <1>3
<1>6. \A e \in Dependents(d) : How(e) = "cascade" =>
        /\ e \in Dependent(d)
        /\ \A g \in Dependents(e) : How(g) = "cascade" => g \in Dependent(d)
  BY <1>1
<1> QED BY <1>4, <1>5, <1>6

\* What cascades from what the database deletes is among what it deletes.
LEMMA DependentClosed ==
  ASSUME CascadesTypeOK, ReferencesInOrder, NEW d \in Doc
  PROVE  \A f \in Dependent(d) : \A e \in Dependents(f) : How(e) = "cascade" => e \in Dependent(d)
<1> SUFFICES ASSUME NEW f \in Dependent(d), NEW e \in Dependents(f), How(e) = "cascade"
             PROVE  e \in Dependent(d)
  OBVIOUS
<1>1. CASE f = d
  BY <1>1, DependentLevels
<1>2. CASE f \in Dependents(d) /\ How(f) = "cascade"
  BY <1>2, DependentLevels
<1>3. ASSUME NEW c \in Dependents(d), f \in Dependents(c) PROVE FALSE
  <2>1. c \in Doc /\ c \notin Parent
    BY LevelsOfDependents, CascadesAssumption
  <2>2. f \in Doc /\ f \in Grandchild
    BY <1>3, <2>1, LevelsOfDependents
  <2> QED BY <2>2, LevelsOfDependents, CascadesAssumption
<1> QED BY <1>1, <1>2, <1>3, DependentLevels

\* With TypeORM the owner of what the database deletes is deleted too, if the document is a parent.
LEMMA DependentOwners ==
  ASSUME CascadesTypeOK, ReferencesInOrder, ~setup.array, NEW d \in Parent
  PROVE  \A e \in Dependent(d) : refs["owner"][e] \subseteq Dependent(d)
<1>1. d \in Doc /\ refs["owner"][d] = {}
  BY LevelsOfOwners DEF Doc
<1> SUFFICES ASSUME NEW e \in Dependent(d) PROVE refs["owner"][e] \subseteq Dependent(d)
  OBVIOUS
<1>2. \A o \in Doc : \A c \in refs["owner"][o] : refs["owner"][o] = {c}
  BY DEF ReferencesInOrder, Single
<1>3. CASE e = d
  BY <1>1, <1>3
<1>4. CASE e \in Dependents(d)
  <2>1. e \in Doc /\ d \in refs["owner"][e]
    BY <1>1, <1>4, LevelsOfDependents
  <2> QED BY <1>1, <1>2, <2>1, DependentLevels
<1>5. ASSUME NEW c \in Dependents(d), How(c) = "cascade", e \in Dependents(c) PROVE refs["owner"][e] \subseteq Dependent(d)
  <2>1. c \in Doc /\ e \in Doc /\ c \in refs["owner"][e]
    BY <1>1, <1>5, LevelsOfDependents
  <2> QED BY <1>1, <1>2, <1>5, <2>1, DependentLevels
<1> QED BY <1>1, <1>3, <1>4, <1>5, DependentLevels

\* What resourceFilesToDelete of TypeORM comes to: what the database deletes, unless it goes up to
\* owners that stay; and all that, if it can go down.
LEMMA LoadedDocuments ==
  ASSUME CascadesTypeOK, ReferencesInOrder, ~setup.array, NEW d \in Doc
  PROVE  /\ Loaded(d) \subseteq Doc
         /\ "up" \notin setup.populated \/ d \in Parent => Loaded(d) \subseteq Dependent(d)
         /\ d \in Loaded(d) \/ setup.hidden
         /\ "down" \in setup.populated => \A e \in Dependent(d) : e \in Loaded(d) \/ (setup.hidden /\ e = d)
<1> DEFINE down(found) == IF "down" \in setup.populated
                            THEN {e \in UNION {Dependents(f) : f \in found} : How(e) = "cascade"} ELSE {}
           up(found) == IF "up" \in setup.populated
                          THEN UNION {refs["owner"][e] : e \in {f \in found : How(f) = "cascade"}} ELSE {}
           complete == {found \in SUBSET Doc : d \in found /\ down(found) \cup up(found) \subseteq found}
           all == {e \in Doc : \A found \in complete : e \in found}
<1>1. Loaded(d) = IF setup.hidden THEN down(all) \cup up(all) ELSE all
  BY DEF Loaded
<1>2. all \subseteq Doc /\ d \in all
  OBVIOUS
<1>3. ASSUME NEW found \in SUBSET Doc
      PROVE  /\ down(found) \subseteq Doc /\ up(found) \subseteq Doc
             /\ \A more \in SUBSET Doc : found \subseteq more => down(found) \subseteq down(more) /\ up(found) \subseteq up(more)
  <2>1. down(found) \subseteq Doc
    BY LevelsOfDependents
  <2>2. up(found) \subseteq Doc
    BY LevelsOfOwners
  <2>3. ASSUME NEW more \in SUBSET Doc, found \subseteq more
        PROVE  down(found) \subseteq down(more) /\ up(found) \subseteq up(more)
    BY <2>3
  <2> QED BY <2>1, <2>2, <2>3
<1>4. Loaded(d) \subseteq Doc
  <2> HIDE DEF down, up, all
  <2> QED BY <1>1, <1>2, <1>3
<1>5. ASSUME "up" \notin setup.populated \/ d \in Parent PROVE Loaded(d) \subseteq Dependent(d)
  <2>1. Dependent(d) \in SUBSET Doc /\ d \in Dependent(d)
    BY DependentLevels
  <2>2. down(Dependent(d)) \subseteq Dependent(d)
    BY DependentClosed
  <2>3. up(Dependent(d)) \subseteq Dependent(d)
    <3>1. CASE "up" \notin setup.populated
      BY <3>1
    <3>2. CASE d \in Parent
      BY <3>2, DependentOwners
    <3> QED BY <1>5, <3>1, <3>2
  <2>4. Dependent(d) \in complete
    BY <2>1, <2>2, <2>3
  <2>5. all \subseteq Dependent(d)
    BY <2>4
  <2>6. down(all) \subseteq down(Dependent(d)) /\ up(all) \subseteq up(Dependent(d))
    BY <1>2, <1>3, <2>1, <2>5
  <2> HIDE DEF down, up, all
  <2> QED BY <1>1, <2>2, <2>3, <2>5, <2>6
<1>6. d \in Loaded(d) \/ setup.hidden
  <2> HIDE DEF down, up, all
  <2> QED BY <1>1, <1>2
<1>7. ASSUME "down" \in setup.populated, NEW e \in Dependent(d) PROVE e \in Loaded(d) \/ (setup.hidden /\ e = d)
  <2>1. ASSUME NEW f \in all, NEW g \in Dependents(f), How(g) = "cascade" PROVE g \in all /\ g \in down(all)
    <3>1. g \in Doc
      BY <2>1, LevelsOfDependents
    <3>2. \A found \in complete : g \in found
      BY <1>7, <2>1
    <3> QED BY <1>7, <2>1, <3>1, <3>2
  <2>2. e = d \/ (e \in all /\ e \in down(all))
    <3> HIDE DEF all, down
    <3>1. CASE e \in Dependents(d) /\ How(e) = "cascade"
      BY <1>2, <2>1, <3>1
    <3>2. ASSUME NEW c \in Dependents(d), How(c) = "cascade", e \in Dependents(c), How(e) = "cascade"
          PROVE  e \in all /\ e \in down(all)
      BY <1>2, <2>1, <3>2
    <3> QED BY <3>1, <3>2, DependentLevels
  <2> HIDE DEF down, up, all
  <2> QED BY <1>1, <1>2, <2>2
<1> QED BY <1>4, <1>5, <1>6, <1>7

\* The service collects the files of what it had loaded.
LEMMA CollectLoadedStep == ASSUME CascadesInv, CollectLoaded PROVE CascadesInv'
<1>1. /\ CascadesTypeOK /\ ReferencesInOrder /\ DeletionInOrder /\ ReferencesWait /\ DoomedDie /\ DeadAreDoomed
  BY DEF CascadesInv
<1>2. /\ setup.orm = "typeorm" /\ deletion.pc = "found"
      /\ deletion' = [deletion EXCEPT !.pc = "loaded", !.doomed = Loaded(deletion.root)]
      /\ UNCHANGED <<setup, status, refs, files, raced, lost>>
  BY DEF CollectLoaded
<1>3. /\ deletion.root \in Doc /\ ~setup.array /\ Dead = {} /\ deletion.root \in Alive
      /\ deletion.dependents = {} /\ deletion.work = {}
  BY <1>1, <1>2 DEF DeletionInOrder
<1>4. PICK loaded : loaded = Loaded(deletion.root) /\ deletion' = [deletion EXCEPT !.pc = "loaded", !.doomed = loaded]
  BY <1>2
<1>5. /\ deletion'.pc = "loaded" /\ deletion'.root = deletion.root /\ deletion'.dependents = {}
      /\ deletion'.work = {} /\ deletion'.doomed = loaded
  BY <1>1, <1>3, <1>4 DEF CascadesTypeOK
<1>6. /\ loaded \subseteq Doc
      /\ "up" \notin setup.populated \/ deletion.root \in Parent => loaded \subseteq Dependent(deletion.root)
      /\ deletion.root \in loaded \/ setup.hidden
      /\ "down" \in setup.populated =>
           \A e \in Dependent(deletion.root) : e \in loaded \/ (setup.hidden /\ e = deletion.root)
  BY <1>1, <1>3, <1>4, LoadedDocuments
<1>7. /\ Alive' = Alive /\ Dead' = Dead /\ Fresh' = Fresh
      /\ \A d : How(d)' = How(d) /\ Races(d)' = Races(d) /\ Single(d)' = Single(d) /\ Excused(d)' = Excused(d)
  BY <1>2, <1>5, StandingsKept DEF How, Races, Single, Excused
<1>8. \A d : Dependent(d)' = Dependent(d)
  BY <1>2, <1>7 DEF Dependent, Dependents, How
<1>9. CascadesTypeOK'
  BY <1>1, <1>2, <1>4, <1>6 DEF CascadesTypeOK, DeletionPc
<1>10. DeletionInOrder'
  BY <1>1, <1>2, <1>3, <1>5, <1>7 DEF DeletionInOrder
<1>11. ReferencesWait'
  BY <1>1, <1>2, <1>5, <1>7 DEF ReferencesWait
<1>12. DoomedDie'
  <2>1. Alive \ files = {}
    BY <1>1, <1>2 DEF DoomedDie
  <2> QED BY <1>2, <1>5, <1>6, <1>7, <1>8, <2>1 DEF DoomedDie
<1>13. DeadAreDoomed'
  BY <1>2, <1>5, <1>6, <1>7, <1>8 DEF DeadAreDoomed, Excused
<1> QED BY <1>2, <1>5, <1>9, <1>10, <1>11, <1>12, <1>13, DeletionMoves

\* The database deletes the document and what depends on it, and empties the references of the others.
LEMMA RemoveRowStep == ASSUME CascadesInv, RemoveRow PROVE CascadesInv'
<1>1. /\ CascadesTypeOK /\ ReferencesInOrder /\ DeletionInOrder /\ WorkInOrder
      /\ OnlyDependentsDie /\ ReferencesWait /\ DoomedDie /\ DeadAreDoomed
  BY DEF CascadesInv
<1> DEFINE root == deletion.root
           removed == Dependent(root)
<1>2. /\ deletion.pc = "loaded" /\ status' = Without(removed)
      /\ refs' = [f \in Field |-> [d \in Doc |-> IF d \in removed THEN refs[f][d] ELSE refs[f][d] \ removed]]
      /\ deletion' = [deletion EXCEPT !.pc = "unlinking"]
      /\ UNCHANGED <<setup, files, raced, lost>>
  BY DEF RemoveRow
<1>3. /\ setup.orm = "typeorm" /\ root \in Doc /\ root \in Alive /\ Dead = {}
      /\ deletion.dependents = {} /\ deletion.work = {}
  BY <1>1, <1>2 DEF DeletionInOrder
<1>4. /\ removed \subseteq Doc /\ root \in removed /\ removed \subseteq Alive
      /\ \A e \in removed : e # root => How(e) = "cascade"
  BY <1>1, <1>3, DependentLevels
<1>5. \A f \in removed : \A e \in Dependents(f) : How(e) = "cascade" => e \in removed
  BY <1>1, <1>3, DependentClosed
<1>6. \A e \in removed : e # root => \E c \in refs["owner"][e] : c \in removed
  <2> SUFFICES ASSUME NEW e \in removed, e # root PROVE \E c \in refs["owner"][e] : c \in removed
    OBVIOUS
  <2>1. CASE e \in Dependents(root)
    BY <1>4, <2>1 DEF Dependents
  <2>2. ASSUME NEW c \in Dependents(root), How(c) = "cascade", e \in Dependents(c) PROVE c \in refs["owner"][e] /\ c \in removed
    BY <1>1, <1>3, <2>2, DependentLevels DEF Dependents
  <2> QED BY <1>1, <1>3, <2>1, <2>2, DependentLevels
<1> HIDE DEF removed
<1>7. /\ Alive' = Alive \ removed /\ Dead' = removed /\ Fresh' = Fresh
      /\ status' \in [Doc -> {"fresh", "alive", "dead"}]
  BY <1>1, <1>2, <1>3, <1>4, DocumentsDie, Standings
<1>8. /\ \A f \in Field, d \in Doc : /\ refs'[f][d] \subseteq refs[f][d]
                                     /\ d \in removed => refs'[f][d] = refs[f][d]
                                     /\ d \notin removed => refs'[f][d] = refs[f][d] \ removed
      /\ refs' \in [Field -> [Doc -> SUBSET Doc]]
  BY <1>1, <1>2 DEF CascadesTypeOK
<1>9. "owner" \in Field
  BY DEF Field
<1>10. \A d : How(d)' = How(d) /\ Single(d)' = Single(d)
  BY <1>2 DEF How, Single
<1>11. \A d \in Doc : Races(d) => Races(d)' \/ (raced \in refs["owner"][d] /\ raced \in removed /\ d \notin removed)
  BY <1>2, <1>8, <1>9 DEF Races
<1>12. \A d \in removed : Races(d)' = Races(d)
  BY <1>2, <1>4, <1>8, <1>9 DEF Races
<1>13. /\ deletion'.pc = "unlinking" /\ deletion'.root = root /\ deletion'.dependents = {}
       /\ deletion'.work = {} /\ deletion'.doomed = deletion.doomed
  BY <1>1, <1>2, <1>3 DEF CascadesTypeOK
<1>14. CascadesTypeOK'
  BY <1>1, <1>2, <1>7, <1>8 DEF CascadesTypeOK, DeletionPc
<1>15. ReferencesInOrder'
  <2>1. \A d \in Doc : refs'["owner"][d] \subseteq OwnersOf(d)
    BY <1>1, <1>8, <1>9 DEF ReferencesInOrder
  <2>2. \A d \in Doc : Single(d) => \A one, two \in refs'["owner"][d] : one = two
    BY <1>1, <1>8, <1>9 DEF ReferencesInOrder
  <2>3. \A d \in Doc, f \in Field : refs'[f][d] \cap Fresh = {} /\ (d \in Fresh => refs'[f][d] = {})
    BY <1>1, <1>8 DEF ReferencesInOrder
  <2> QED BY <1>1, <1>2, <1>7, <1>10, <2>1, <2>2, <2>3 DEF ReferencesInOrder
<1>16. DeletionInOrder'
  BY <1>1, <1>2, <1>3, <1>13 DEF DeletionInOrder
<1>17. WorkInOrder'
  BY <1>13 DEF WorkInOrder
<1>18. OnlyDependentsDie'
  <2>1. \A d \in removed : d # root => refs'["owner"][d] \cap removed # {}
    BY <1>4, <1>6, <1>8, <1>9
  <2> QED BY <1>4, <1>7, <1>10, <1>13, <2>1 DEF OnlyDependentsDie
<1>19. ReferencesWait'
  <2>1. \A d \in Alive', f \in Field : refs'[f][d] \subseteq Alive'
    BY <1>1, <1>3, <1>7, <1>8, Standings DEF ReferencesWait
  <2>2. lost = {}
    BY <1>1, <1>3 DEF ReferencesWait
  <2> QED BY <1>2, <1>3, <2>1, <2>2 DEF ReferencesWait
<1>20. DoomedDie'
  <2>1. ASSUME "up" \notin setup.populated \/ root \in Parent, NEW d \in deletion.doomed
        PROVE  d \in removed \/ Races(d)'
    <3>1. d \in removed \/ (How(d) = "cascade" /\ Races(d))
      BY <1>1, <1>2, <2>1 DEF DoomedDie, removed
    <3>2. d \in Doc
      BY <1>1, DeletionTyped
    <3>3. ASSUME How(d) = "cascade", raced \in refs["owner"][d], raced \in removed PROVE d \in removed
      <4>1. d \in Alive
        BY <1>1, <1>3, <3>2, <3>3, Standings, LevelsOfOwners
      <4>2. d \in Dependents(raced)
        BY <3>3, <4>1 DEF Dependents
      <4> QED BY <1>5, <3>3, <4>2
    <3> QED BY <1>11, <3>1, <3>2, <3>3
  <2>2. Alive' \ files = {}
    BY <1>1, <1>2, <1>7 DEF DoomedDie
  <2> QED BY <1>2, <1>3, <1>7, <1>13, <2>1, <2>2 DEF DoomedDie
<1>21. DeadAreDoomed'
  <2>1. ASSUME NEW d \in removed
        PROVE  \/ d \in deletion.doomed \/ Races(d)' \/ Excused(d)'
               \/ "down" \notin setup.populated /\ d # root
    <3>1. Excused(d)' = Excused(d)
      BY <1>2, <1>13 DEF Excused
    <3>2. root \in deletion.doomed \/ setup.hidden
      BY <1>1, <1>2 DEF DeadAreDoomed
    <3>3. CASE "down" \in setup.populated
      BY <1>1, <1>2, <1>12, <3>1, <3>3 DEF DeadAreDoomed, removed
    <3>4. CASE "down" \notin setup.populated
      BY <3>1, <3>2, <3>4 DEF Excused
    <3> QED BY <3>3, <3>4
  <2> QED BY <1>2, <1>3, <1>7, <1>13, <2>1 DEF DeadAreDoomed
<1> QED BY <1>14, <1>15, <1>16, <1>17, <1>18, <1>19, <1>20, <1>21 DEF CascadesInv

-----------------------------------------------------------------------------
(* The other request *)

\* A document comes, or gets another owner.
LEMMA RacingStep ==
  ASSUME CascadesInv, NEW d \in Child \cup Grandchild, NEW owner \in Owners(d), Insert(d, owner) \/ Move(d, owner)
  PROVE  CascadesInv'
<1>1. /\ CascadesTypeOK /\ ReferencesInOrder /\ DeletionInOrder /\ WorkInOrder
      /\ OnlyDependentsDie /\ ReferencesWait /\ DoomedDie /\ DeadAreDoomed
  BY DEF CascadesInv
<1>2. /\ raced = NoDoc /\ raced' = d /\ deletion.pc \notin {"idle", "done", "failed"}
      /\ refs' = [refs EXCEPT !["owner"][d] = {owner}]
      /\ UNCHANGED <<setup, deletion, lost>>
  BY DEF Insert, Move, Racing
<1>3. d \in Doc /\ owner \in Doc /\ d \notin Parent /\ owner \in OwnersOf(d) /\ owner # d /\ NoDoc \notin Doc
  BY CascadesAssumption DEF Doc, Owners, OwnersOf
<1>4. /\ status' \in [Doc -> {"fresh", "alive", "dead"}]
      /\ Alive' = Alive \cup {d} /\ Dead' = Dead /\ Fresh' = Fresh \ {d} /\ d \notin Dead
      /\ d \in Alive \/ d \in Fresh
      /\ owner \in Alive \/ (setup.orm = "mongoose" /\ owner \in Dead)
      /\ files' = files \/ files' = files \cup {d}
      /\ d \in Fresh => d \in files'
  <2>1. CASE Insert(d, owner)
    BY <1>1, <1>3, <2>1 DEF Insert, CascadesTypeOK, Alive, Dead, Fresh
  <2>2. CASE Move(d, owner)
    BY <1>1, <1>3, <2>2 DEF Move, CascadesTypeOK, Alive, Dead, Fresh
  <2> QED BY <2>1, <2>2
<1>5. "owner" \in Field
  BY DEF Field
<1>6. /\ refs' \in [Field -> [Doc -> SUBSET Doc]]
      /\ \A f \in Field, e \in Doc : e # d \/ f # "owner" => refs'[f][e] = refs[f][e]
      /\ refs'["owner"][d] = {owner}
      /\ \A e \in Doc : e # d => refs'["owner"][e] = refs["owner"][e]
  BY <1>1, <1>2, <1>3, <1>5 DEF CascadesTypeOK
<1>7. \A e \in Doc, f \in Field : refs[f][e] \cap Alive' = refs[f][e] \cap Alive
  BY <1>1, <1>4 DEF ReferencesInOrder
<1>8. \A e : ~Races(e)
  BY <1>2 DEF Races
<1>9. /\ Races(d)'
      /\ \A e \in Doc : d \in refs'["owner"][e] => Races(e)'
      /\ \A e : How(e)' = How(e) /\ Single(e)' = Single(e) /\ Excused(e)' = Excused(e)
  BY <1>2, <1>3 DEF Races, How, Single, Excused
<1>10. /\ \A c \in Doc : /\ \A e \in Dependents(c) : e = d \/ e \in Dependents(c)'
                         /\ \A e \in Dependents(c)' : e = d \/ e \in Dependents(c)
       /\ \A e \in Dependents(deletion.root) : e = d \/ e \in Dependents(deletion.root)'
       /\ \A e \in Dependents(deletion.root)' : e = d \/ e \in Dependents(deletion.root)
  BY <1>1, <1>2, <1>4, <1>6, Standings DEF Dependents
<1>11. CascadesTypeOK'
  BY <1>1, <1>2, <1>3, <1>4, <1>6 DEF CascadesTypeOK
<1>12. ReferencesInOrder'
  <2>1. ASSUME NEW e \in Doc
        PROVE  refs'["owner"][e] \subseteq OwnersOf(e) /\ (Single(e) => \A one, two \in refs'["owner"][e] : one = two)
    <3>1. CASE e = d
      BY <1>3, <1>6, <3>1
    <3>2. CASE e # d
      BY <1>1, <1>6, <3>2 DEF ReferencesInOrder
    <3> QED BY <3>1, <3>2
  <2>2. ASSUME NEW e \in Doc, NEW f \in Field
        PROVE  refs'[f][e] \cap Fresh' = {} /\ (e \in Fresh' => refs'[f][e] = {})
    <3>1. CASE e = d /\ f = "owner"
      BY <1>1, <1>4, <1>6, <3>1, Standings
    <3>2. CASE e # d \/ f # "owner"
      BY <1>1, <1>4, <1>6, <3>2 DEF ReferencesInOrder
    <3> QED BY <3>1, <3>2
  <2>3. files' \cap Fresh' = {} /\ raced' \notin Fresh'
    BY <1>1, <1>2, <1>4 DEF ReferencesInOrder
  <2> QED BY <1>9, <2>1, <2>2, <2>3 DEF ReferencesInOrder
<1>13. DeletionInOrder'
  BY <1>1, <1>2, <1>4 DEF DeletionInOrder
<1>14. WorkInOrder'
  <2>1. \A e \in deletion.dependents : e \in Child \cup Grandchild /\ (e = d \/ deletion.root \in refs'["owner"][e])
    BY <1>1, <1>2, <1>3, <1>6, DeletionTyped DEF WorkInOrder
  <2>2. ASSUME NEW w \in deletion.work
        PROVE  /\ w[1] \in Child \cup Grandchild /\ How(w[1]) \in {"cascade", "setNull"}
               /\ w[2] = "other" => w[1] \in Child /\ How(w[1]) = "setNull"
               /\ How(w[1]) = "cascade" => w[1] = d \/ refs'["owner"][w[1]] \cap Dead # {}
               /\ w[2] = "owner" /\ Single(w[1]) => w[1] = d \/ refs'["owner"][w[1]] \cap Alive' = {}
    <3>1. w[1] \in Doc /\ w[1] # raced
      BY <1>1, <1>2, <1>3, DeletionTyped
    <3> QED BY <1>1, <1>5, <1>6, <1>7, <3>1 DEF WorkInOrder
  <2> QED BY <1>2, <1>4, <1>9, <2>1, <2>2 DEF WorkInOrder
<1>15. OnlyDependentsDie'
  <2>1. ASSUME NEW e \in Dead, e # deletion.root PROVE How(e) = "cascade" /\ refs'["owner"][e] \cap Dead # {}
    <3>1. e \in Doc /\ e # d
      BY <1>1, <1>4, Standings
    <3> QED BY <1>1, <1>6, <1>8, <2>1, <3>1 DEF OnlyDependentsDie
  <2> QED BY <1>2, <1>4, <1>9, <2>1 DEF OnlyDependentsDie
<1>16. ReferencesWait'
  <2>1. ASSUME setup.orm = "typeorm", NEW e \in Alive', NEW f \in Field PROVE refs'[f][e] \subseteq Alive'
    <3>1. CASE e = d /\ f = "owner"
      BY <1>4, <1>6, <2>1, <3>1
    <3>2. CASE e # d \/ f # "owner"
      <4>1. refs'[f][e] = refs[f][e] /\ e \in Doc
        BY <1>1, <1>3, <1>4, <1>6, <2>1, <3>2, Standings
      <4>2. CASE e \in Alive
        BY <1>1, <1>4, <2>1, <4>1, <4>2 DEF ReferencesWait
      <4>3. CASE e \in Fresh
        BY <1>1, <4>1, <4>3 DEF ReferencesInOrder
      <4> QED BY <1>4, <2>1, <4>2, <4>3
    <3> QED BY <3>1, <3>2
  <2>2. ASSUME setup.orm = "mongoose", NEW e \in Alive', NEW target \in refs'["owner"][e] \cap Dead
        PROVE  \/ Races(e)' \/ How(e) = "none" \/ ~Single(e)
               \/ target = deletion.root /\ "down" \notin setup.populated
               \/ deletion.pc \in {"removed", "failed"}
               \/ deletion.pc = "populated" /\ e \in deletion.dependents
               \/ <<e, "owner">> \in deletion.work
    <3>1. CASE e = d
      BY <1>9, <3>1
    <3>2. CASE e # d
      <4>1. e \in Alive /\ target \in refs["owner"][e] \cap Dead
        BY <1>1, <1>4, <1>6, <2>2, <3>2, Standings
      <4> QED BY <1>1, <1>8, <2>2, <4>1 DEF ReferencesWait
    <3> QED BY <3>1, <3>2
  <2>3. ASSUME NEW w \in lost PROVE setup.orm = "mongoose" /\ w[2] = "other" /\ setup.children = "setNull"
    <3>1. w[1] \in Doc
      BY <1>1 DEF CascadesTypeOK
    <3>2. w[1] # raced
      BY <1>2, <1>3, <3>1
    <3> QED BY <1>1, <3>2 DEF ReferencesWait
  <2> QED BY <1>2, <1>4, <1>9, <2>1, <2>2, <2>3 DEF ReferencesWait
<1>17. DoomedDie'
  <2>1. ASSUME deletion.pc \in {"collected", "unlinking"}, setup.orm = "mongoose", NEW e \in deletion.doomed
        PROVE  \/ e \in Dead \/ e = d
               \/ /\ deletion.pc = "collected" /\ How(e) = "cascade"
                  /\ \/ <<e, "owner">> \in deletion.work
                     \/ \E c \in refs'["owner"][e] : <<c, "owner">> \in deletion.work /\ How(c) = "cascade"
    <3>1. e \in Doc /\ e # raced
      BY <1>1, <1>2, <1>3, DeletionTyped
    <3> QED BY <1>1, <1>6, <2>1, <3>1 DEF DoomedDie
  <2>2. ASSUME deletion.pc = "loaded", "up" \notin setup.populated \/ deletion.root \in Parent,
               NEW e \in deletion.doomed
        PROVE  e \in Dependent(deletion.root)' \/ (How(e) = "cascade" /\ Races(e)')
    <3>1. e \in Dependent(deletion.root)
      BY <1>1, <1>8, <2>2 DEF DoomedDie
    <3>2. deletion.root \in Doc
      BY <1>1, <2>2 DEF DeletionInOrder
    <3>3. CASE e = deletion.root
      BY <1>2, <3>3 DEF Dependent
    <3>4. CASE e \in Dependents(deletion.root) /\ How(e) = "cascade"
      <4>1. e = d \/ e \in Dependents(deletion.root)'
        BY <1>10, <3>2, <3>4
      <4>2. e \in Dependents(deletion.root)' => e \in Dependent(deletion.root)'
        BY <1>2, <1>9, <3>4 DEF Dependent
      <4> QED BY <1>9, <3>4, <4>1, <4>2
    <3>5. ASSUME NEW c \in Dependents(deletion.root), How(c) = "cascade", e \in Dependents(c), How(e) = "cascade"
          PROVE  e \in Dependent(deletion.root)' \/ Races(e)'
      <4>1. c \in Doc /\ e \in Doc /\ c \in refs["owner"][e]
        BY <1>1, <3>2, <3>5, LevelsOfDependents
      <4>2. CASE e = d
        BY <1>9, <4>2
      <4>3. CASE c = d /\ e # d
        BY <1>6, <1>9, <4>1, <4>3
      <4>4. CASE c # d /\ e # d
        <5>1. c \in Dependents(deletion.root)' /\ e \in Dependents(c)'
          BY <1>10, <3>2, <3>5, <4>1, <4>4
        <5>2. e \in Dependent(deletion.root)'
          BY <1>2, <1>9, <3>5, <5>1 DEF Dependent
        <5> QED BY <5>2
      <4> QED BY <4>2, <4>3, <4>4
    <3> QED BY <1>1, <3>1, <3>2, <3>3, <3>4, <3>5, DependentLevels
  <2>3. ASSUME deletion.pc = "unlinking", setup.orm = "typeorm", "up" \notin setup.populated \/ deletion.root \in Parent,
               NEW e \in deletion.doomed
        PROVE  e \in Dead
    BY <1>1, <1>8, <2>3 DEF DoomedDie
  <2>4. ASSUME NEW e \in Alive' \ files'
        PROVE  /\ deletion.pc \in {"unlinking", "done", "failed"}
               /\ setup.orm = "typeorm" /\ "up" \in setup.populated /\ deletion.root \notin Parent
    <3>1. e \in Alive \ files
      BY <1>4, <2>4
    <3> QED BY <1>1, <1>8, <3>1 DEF DoomedDie
  <2> QED BY <1>2, <1>4, <1>9, <2>1, <2>2, <2>3, <2>4 DEF DoomedDie
<1>18. DeadAreDoomed'
  <2>1. ASSUME NEW e \in Dead \cap files' PROVE e \in Dead \cap files /\ e # raced
    BY <1>1, <1>2, <1>3, <1>4, <2>1, Standings
  <2>2. ASSUME deletion.pc \in {"collected", "unlinking"}, setup.orm = "mongoose"
        PROVE  /\ \A e \in Dead \cap files' : e \in deletion.doomed \/ e = d \/ Excused(e)
               /\ \A w \in deletion.work : How(w[1]) = "cascade" =>
                    /\ w[1] \in deletion.doomed \/ w[1] = d
                    /\ \A e \in Dependents(w[1])' : How(e) = "cascade" => e \in deletion.doomed \/ e = d
    <3>1. \A e \in Dead \cap files' : e \in deletion.doomed \/ e = d \/ Excused(e)
      BY <1>1, <2>1, <2>2 DEF DeadAreDoomed
    <3>2. ASSUME NEW w \in deletion.work, How(w[1]) = "cascade"
          PROVE  /\ w[1] \in deletion.doomed \/ w[1] = d
                 /\ \A e \in Dependents(w[1])' : How(e) = "cascade" => e \in deletion.doomed \/ e = d
      <4>1. w[1] \in Doc /\ w[1] # raced
        BY <1>1, <1>2, <1>3, DeletionTyped
      <4>2. /\ w[1] \in deletion.doomed
            /\ \A e \in Dependents(w[1]) : How(e) = "cascade" => e \in deletion.doomed \/ e = raced
        BY <1>1, <2>2, <3>2, <4>1 DEF DeadAreDoomed
      <4>3. \A e \in Dependents(w[1]) : e # raced
        BY <1>1, <1>2, <1>3, <4>1, LevelsOfDependents
      <4> QED BY <1>10, <4>1, <4>2, <4>3
    <3> QED BY <3>1, <3>2
  <2>3. ASSUME deletion.pc = "loaded"
        PROVE  /\ deletion.root \in deletion.doomed \/ setup.hidden
               /\ "down" \in setup.populated =>
                    \A e \in Dependent(deletion.root)' : e \in deletion.doomed \/ Races(e)' \/ Excused(e)
    <3>1. deletion.root \in deletion.doomed \/ setup.hidden
      BY <1>1, <2>3 DEF DeadAreDoomed
    <3>2. deletion.root \in Doc
      BY <1>1, <2>3 DEF DeletionInOrder
    <3>3. ASSUME NEW e \in Dependent(deletion.root)' PROVE Races(e)' \/ e \in Dependent(deletion.root)
      <4>1. \/ e = deletion.root
            \/ e \in Dependents(deletion.root)' /\ How(e) = "cascade"
            \/ \E c \in Dependents(deletion.root)' : How(c) = "cascade" /\ e \in Dependents(c)' /\ How(e) = "cascade"
        BY <1>2, <1>9, <3>3 DEF Dependent
      <4>2. CASE e = deletion.root
        BY <1>1, <3>2, <4>2, DependentLevels
      <4>3. CASE e \in Dependents(deletion.root)' /\ How(e) = "cascade"
        <5>1. e = d \/ e \in Dependents(deletion.root)
          BY <1>10, <3>2, <4>3
        <5> QED BY <1>1, <1>9, <3>2, <4>3, <5>1, DependentLevels
      <4>4. ASSUME NEW c \in Dependents(deletion.root)', How(c) = "cascade", e \in Dependents(c)', How(e) = "cascade"
            PROVE  Races(e)' \/ e \in Dependent(deletion.root)
        <5>1. c \in Doc /\ e \in Doc /\ c \in refs'["owner"][e]
          <6>1. c \in Alive' /\ e \in Alive' /\ c \in refs'["owner"][e]
            BY <4>4 DEF Dependents
          <6> QED BY <1>1, <1>3, <1>4, <6>1, Standings
        <5>2. CASE e = d
          BY <1>9, <5>2
        <5>3. CASE c = d
          BY <1>9, <5>1, <5>3
        <5>4. CASE c # d /\ e # d
          <6>1. c \in Dependents(deletion.root) /\ e \in Dependents(c)
            BY <1>10, <3>2, <4>4, <5>1, <5>4
          <6> QED BY <1>1, <3>2, <4>4, <6>1, DependentLevels
        <5> QED BY <5>2, <5>3, <5>4
      <4> QED BY <4>1, <4>2, <4>3, <4>4
    <3>4. "down" \in setup.populated =>
            \A e \in Dependent(deletion.root) : e \in deletion.doomed \/ Excused(e)
      BY <1>1, <1>8, <2>3 DEF DeadAreDoomed
    <3> QED BY <3>1, <3>3, <3>4
  <2>4. ASSUME deletion.pc = "unlinking", setup.orm = "typeorm", NEW e \in Dead \cap files'
        PROVE  \/ e \in deletion.doomed \/ Excused(e)
               \/ "down" \notin setup.populated /\ e # deletion.root
    BY <1>1, <1>8, <2>1, <2>4 DEF DeadAreDoomed
  <2> QED BY <1>2, <1>4, <1>9, <2>2, <2>3, <2>4 DEF DeadAreDoomed
<1> QED BY <1>11, <1>12, <1>13, <1>14, <1>15, <1>16, <1>17, <1>18 DEF CascadesInv

-----------------------------------------------------------------------------
(* What follows *)

\* The invariant holds in every reachable state.
LEMMA CascadesInvariant == CascadesSpec => []CascadesInv
<1>1. ASSUME CascadesInv, Deletes \/ DeleteNext PROVE CascadesInv'
  BY <1>1, DeclareStep, RemoveRootStep, PopulateStep, CollectStep, CascadedStep, CascadeDeleteStep, CascadeSetNullStep,
     CollectLoadedStep, RemoveRowStep, UnlinkStep, DeletedStep, DeletionFailsStep, RacingStep DEF DeleteNext
<1>2. CascadesInv /\ UNCHANGED cascadesVars => CascadesInv'
  <2> SUFFICES ASSUME CascadesInv, UNCHANGED cascadesVars PROVE CascadesInv'
    OBVIOUS
  <2>1. UNCHANGED <<setup, status, refs, files, deletion, raced, lost>>
    BY DEF cascadesVars
  <2>2. /\ Alive' = Alive /\ Dead' = Dead /\ Fresh' = Fresh
        /\ \A d : /\ How(d)' = How(d) /\ Races(d)' = Races(d) /\ Single(d)' = Single(d) /\ Excused(d)' = Excused(d)
                  /\ Dependents(d)' = Dependents(d) /\ Dependent(d)' = Dependent(d)
        /\ Dependent(deletion.root)' = Dependent(deletion.root)
    BY <2>1 DEF Alive, Dead, Fresh, How, Races, Single, Excused, Dependents, Dependent
  <2>3. CascadesTypeOK' /\ ReferencesInOrder' /\ DeletionInOrder'
    BY <2>1, <2>2 DEF CascadesInv, CascadesTypeOK, ReferencesInOrder, DeletionInOrder
  <2>4. WorkInOrder' /\ OnlyDependentsDie' /\ ReferencesWait'
    BY <2>1, <2>2 DEF CascadesInv, WorkInOrder, OnlyDependentsDie, ReferencesWait
  <2>5. DoomedDie' /\ DeadAreDoomed'
    BY <2>1, <2>2 DEF CascadesInv, DoomedDie, DeadAreDoomed
  <2> QED BY <2>3, <2>4, <2>5 DEF CascadesInv
<1>3. CascadesInv /\ [Deletes \/ DeleteNext]_cascadesVars => CascadesInv'
  BY <1>1, <1>2
<1> QED BY <1>3, CascadesStart, PTL DEF CascadesSpec

(* Whatever depends on what, a deletion takes with it only what is declared to cascade, from an owner that *)
(* is deleted too, or what another request has just written (delete and cascadeRelations of                *)
(* MongooseResourceService, and the foreign keys of TypeOrmResourceService).                               *)
THEOREM DeletionTakesDependents == CascadesSpec => []OnlyDependentsAreDeleted
<1>1. CascadesInv => OnlyDependentsAreDeleted
  <2> SUFFICES ASSUME CascadesInv, NEW d \in Doc, status[d] = "dead", d # deletion.root
               PROVE  How(d) = "cascade" /\ (Races(d) \/ \E owner \in refs["owner"][d] : status[owner] = "dead")
    BY DEF OnlyDependentsAreDeleted
  <2>1. d \in Dead
    BY DEF Dead
  <2> QED BY <2>1 DEF CascadesInv, OnlyDependentsDie, Dead
<1> QED BY <1>1, CascadesInvariant, PTL

(* A deletion that succeeds leaves a reference to a deleted document only where the code is known to do so, and *)
(* no reference to a document that stays is lost, but in the other field of a child or in a document that      *)
(* another request has just written (mongoose-resource.service.ts, cascadeRelations).                          *)
THEOREM DeletionClearsReferences == CascadesSpec => []ReferencesFollowDeletions
<1>1. CascadesInv => ReferencesFollowDeletions
  <2> SUFFICES ASSUME CascadesInv PROVE ReferencesFollowDeletions
    OBVIOUS
  <2>1. /\ CascadesTypeOK /\ ReferencesInOrder /\ DeletionInOrder /\ ReferencesWait /\ setup.orm \in {"mongoose", "typeorm"}
    BY DEF CascadesInv, CascadesTypeOK, Setup
  <2>2. ASSUME deletion.pc = "done", NEW d \in Alive, NEW f \in Field, NEW target \in refs[f][d]
        PROVE  \/ target \in Alive \/ Races(d)
               \/ /\ setup.orm = "mongoose"
                  /\ \/ f = "other" \/ How(d) = "none" \/ (d \in Child /\ setup.array)
                     \/ target = deletion.root /\ "down" \notin setup.populated
    <3>1. CASE setup.orm = "typeorm"
      BY <2>1, <2>2, <3>1 DEF ReferencesWait
    <3>2. CASE setup.orm = "mongoose" /\ f = "owner"
      <4>1. d \in Doc /\ target \in Doc /\ target \notin Fresh
        BY <2>1, <2>2, <3>2, LevelsOfOwners, Standings
      <4>2. target \in Alive \/ target \in Dead
        BY <2>1, <4>1, Standings
      <4>3. CASE target \in Dead
        <5>1. deletion.work = {}
          BY <2>1, <2>2 DEF DeletionInOrder
        <5> QED BY <2>1, <2>2, <3>2, <4>3, <5>1 DEF ReferencesWait, Single
      <4> QED BY <4>2, <4>3
    <3> QED BY <2>1, <2>2, <3>1, <3>2 DEF Field
  <2>3. ASSUME NEW w \in lost
        PROVE  setup.orm = "mongoose" /\ (Races(w[1]) \/ (w[2] = "other" /\ setup.children = "setNull"))
    <3>1. w[1] \in Doc
      BY <2>1 DEF CascadesTypeOK
    <3>2. w[1] = raced => Races(w[1])
      BY <2>1, <3>1, Standings DEF Races
    <3> QED BY <2>1, <3>2 DEF ReferencesWait
  <2> QED BY <2>2, <2>3 DEF ReferencesFollowDeletions
<1> QED BY <1>1, CascadesInvariant, PTL

(* No document that stays loses its file, but the owners that TypeORM had loaded, and a deletion that succeeds  *)
(* leaves the file of a deleted document only where it did not load the document or was not to read the file   *)
(* (resourceFilesToDelete and deleteFileArray of both resource services).                                      *)
THEOREM DeletionClearsFiles == CascadesSpec => []FilesFollowDeletions
<1>1. CascadesInv => FilesFollowDeletions
  <2> SUFFICES ASSUME CascadesInv PROVE FilesFollowDeletions
    OBVIOUS
  <2>1. /\ CascadesTypeOK /\ ReferencesInOrder /\ DeletionInOrder /\ DoomedDie /\ DeadAreDoomed
        /\ setup.orm \in {"mongoose", "typeorm"}
    BY DEF CascadesInv, CascadesTypeOK, Setup
  <2>2. \A d \in Alive \ files :
          \/ Races(d)
          \/ setup.orm = "typeorm" /\ "up" \in setup.populated /\ deletion.root \notin Parent
    BY <2>1 DEF DoomedDie
  <2>3. ASSUME deletion.pc = "done", NEW d \in files \ Alive
        PROVE  \/ Races(d)
               \/ setup.orm = "typeorm" /\ "down" \notin setup.populated /\ d # deletion.root
               \/ setup.hidden /\ d = deletion.root
    <3>1. d \in Doc /\ d \in Dead
      BY <2>1, <2>3, Standings DEF CascadesTypeOK, ReferencesInOrder
    <3>2. CASE setup.orm = "mongoose"
      <4>1. d = raced \/ Excused(d)
        BY <2>1, <2>3, <3>1, <3>2 DEF DeadAreDoomed
      <4>2. d = raced => Races(d)
        BY <2>1, <3>1, Standings DEF Races
      <4> QED BY <4>1, <4>2 DEF Excused
    <3>3. CASE setup.orm = "typeorm"
      <4>1. deletion.doomed = {}
        BY <2>1, <2>3 DEF DeletionInOrder
      <4> QED BY <2>1, <2>3, <3>1, <3>3, <4>1 DEF DeadAreDoomed, Excused
    <3> QED BY <2>1, <3>2, <3>3
  <2> QED BY <2>2, <2>3 DEF FilesFollowDeletions
<1> QED BY <1>1, CascadesInvariant, PTL

-----------------------------------------------------------------------------
(* Relations: the models that a key names *)

RelationsSpec == RelationsInit([Model -> SUBSET Model]) /\ [][RelationsNext]_relationsVars

\* Of natural numbers one is the least.
LEMMA LeastNumber ==
  ASSUME NEW S \in SUBSET Nat, S # {}
  PROVE  \E n \in S : \A m \in S : n <= m
<1> DEFINE less == OpToRel(<, Nat)
<1>1. IsWellFoundedOn(less, Nat)
  BY NatLessThanWellFounded
<1>2. \A m, n \in Nat : <<m, n>> \in less <=> m < n
  BY DEF OpToRel
<1> HIDE DEF less
<1>3. PICK n \in S : \A m \in S : ~(<<m, n>> \in less)
  BY <1>1, WFMin
<1>4. ASSUME NEW m \in S PROVE n <= m
  <2>1. m \in Nat /\ n \in Nat /\ ~(<<m, n>> \in less)
    BY <1>3
  <2>2. ~(m < n)
    BY <1>2, <2>1
  <2> QED BY <2>1, <2>2
<1> QED BY <1>4

\* The loops of relationModelNames: what is left of the relations, and the excluded ones.
Loops == (SUBSET Model) \X (SUBSET Model)

\* The body of relationModelNames, where found has the results of the other loops.
Loop(graph, found, loop) ==
  LET rest == loop[1]
      exclude == loop[2]
      relation == CHOOSE r \in rest : TRUE
      former == found[<<rest \ {relation}, exclude>>]
  IN IF rest = {} THEN {}
     ELSE IF relation \in exclude \cup former THEN former
     ELSE former \cup {relation} \cup found[<<graph[relation], exclude \cup {relation}>>]

\* found has the result of each loop.
Looped(graph, found) == found = [loop \in Loops |-> Loop(graph, found, loop)]

\* A loop needs only those that exclude more, or have less left.
LoopSize(loop) == Cardinality(Model \ loop[2]) * (Cardinality(Model) + 1) + Cardinality(loop[1])

\* The size of a loop is a number, and no loop is larger than the one over all the models.
LEMMA LoopSizes ==
  ASSUME NEW loop \in Loops
  PROVE  LoopSize(loop) \in 0 .. Cardinality(Model) * (Cardinality(Model) + 1) + Cardinality(Model)
<1>1. PICK rest \in SUBSET Model, exclude \in SUBSET Model : loop = <<rest, exclude>>
  BY DEF Loops
<1>2. /\ Cardinality(Model) \in Nat /\ Cardinality(rest) \in Nat /\ Cardinality(rest) <= Cardinality(Model)
      /\ Cardinality(Model \ exclude) \in Nat /\ Cardinality(Model \ exclude) <= Cardinality(Model)
  BY ModelsAreFinite, FS_CardinalityType, FS_Subset
<1> DEFINE k == Cardinality(Model \ exclude)
           n == Cardinality(Model)
           r == Cardinality(rest)
<1>3. LoopSize(loop) = k * (n + 1) + r
  BY <1>1 DEF LoopSize
<1> HIDE DEF k, n, r
<1>4. k \in Nat /\ n \in Nat /\ r \in Nat /\ k <= n /\ r <= n
  BY <1>2 DEF k, n, r
<1>5. k * (n + 1) \in Nat /\ n * (n + 1) \in Nat /\ k * (n + 1) <= n * (n + 1)
  BY <1>4
<1> QED BY <1>3, <1>4, <1>5 DEF n

\* The loops that a loop needs are smaller.
LEMMA LoopsGetSmaller ==
  ASSUME NEW rest \in SUBSET Model, NEW exclude \in SUBSET Model, NEW relation \in rest
  PROVE  /\ LoopSize(<<rest \ {relation}, exclude>>) < LoopSize(<<rest, exclude>>)
         /\ relation \notin exclude =>
              \A next \in SUBSET Model : LoopSize(<<next, exclude \cup {relation}>>) < LoopSize(<<rest, exclude>>)
<1> DEFINE k == Cardinality(Model \ exclude)
           n == Cardinality(Model)
           r == Cardinality(rest)
<1>1. /\ n \in Nat /\ r \in Nat /\ k \in Nat
      /\ IsFiniteSet(rest) /\ IsFiniteSet(Model \ exclude)
  BY ModelsAreFinite, FS_CardinalityType, FS_Subset
<1>2. LoopSize(<<rest, exclude>>) = k * (n + 1) + r
  BY DEF LoopSize
<1>3. LoopSize(<<rest \ {relation}, exclude>>) < LoopSize(<<rest, exclude>>)
  <2>1. Cardinality(rest \ {relation}) = r - 1
    BY <1>1, FS_RemoveElement
  <2>2. LoopSize(<<rest \ {relation}, exclude>>) = k * (n + 1) + Cardinality(rest \ {relation})
    BY DEF LoopSize
  <2> HIDE DEF k, n, r
  <2>3. k * (n + 1) \in Nat
    BY <1>1
  <2> QED BY <1>1, <1>2, <2>1, <2>2, <2>3
<1>4. ASSUME relation \notin exclude, NEW next \in SUBSET Model
      PROVE  LoopSize(<<next, exclude \cup {relation}>>) < LoopSize(<<rest, exclude>>)
  <2>1. Model \ (exclude \cup {relation}) = (Model \ exclude) \ {relation} /\ relation \in Model \ exclude
    BY <1>4
  <2>2. Cardinality(Model \ (exclude \cup {relation})) = k - 1
    <3>1. Cardinality((Model \ exclude) \ {relation}) = k - 1
      BY <1>1, <2>1, FS_RemoveElement
    <3> QED BY <2>1, <3>1
  <2>3. Cardinality(next) \in Nat /\ Cardinality(next) <= n
    BY ModelsAreFinite, FS_CardinalityType, FS_Subset
  <2>4. LoopSize(<<next, exclude \cup {relation}>>) = (k - 1) * (n + 1) + Cardinality(next)
    BY <2>2 DEF LoopSize
  <2> DEFINE c == Cardinality(next)
  <2> HIDE DEF k, n, r, c
  <2>5. k * (n + 1) \in Nat /\ (k - 1) * (n + 1) = k * (n + 1) - n - 1
    BY <1>1
  <2> QED BY <1>1, <1>2, <2>3, <2>4, <2>5 DEF c
<1> QED BY <1>3, <1>4

\* Of some loops one is the smallest.
LEMMA SmallestLoop ==
  ASSUME NEW some \in SUBSET Loops, some # {}
  PROVE  \E loop \in some : \A other \in some : LoopSize(loop) <= LoopSize(other)
<1> DEFINE sizes == {LoopSize(loop) : loop \in some}
<1>1. sizes \in SUBSET Nat /\ sizes # {}
  BY LoopSizes
<1>2. PICK size \in sizes : \A other \in sizes : size <= other
  BY <1>1, LeastNumber
<1> QED BY <1>2

\* What a loop finds depends only on what the smaller ones find.
LEMMA LoopsAgree ==
  ASSUME NEW graph \in [Model -> SUBSET Model], NEW f, NEW g, NEW loop \in Loops,
         \A smaller \in Loops : LoopSize(smaller) < LoopSize(loop) => f[smaller] = g[smaller]
  PROVE  Loop(graph, f, loop) = Loop(graph, g, loop)
<1>1. PICK rest \in SUBSET Model, exclude \in SUBSET Model : loop = <<rest, exclude>>
  BY DEF Loops
<1>2. CASE rest = {}
  BY <1>1, <1>2 DEF Loop
<1>3. CASE rest # {}
  <2> DEFINE relation == CHOOSE r \in rest : TRUE
             former(found) == found[<<rest \ {relation}, exclude>>]
             further(found) == found[<<graph[relation], exclude \cup {relation}>>]
  <2>1. relation \in rest /\ relation \in Model
    BY <1>3
  <2>2. /\ <<rest \ {relation}, exclude>> \in Loops
        /\ <<graph[relation], exclude \cup {relation}>> \in Loops
    BY <2>1 DEF Loops
  <2>3. \A found : Loop(graph, found, loop) =
                     IF relation \in exclude \cup former(found) THEN former(found)
                     ELSE former(found) \cup {relation} \cup further(found)
    BY <1>1, <1>3 DEF Loop
  <2>4. former(f) = former(g)
    <3>1. LoopSize(<<rest \ {relation}, exclude>>) < LoopSize(loop)
      BY <1>1, <2>1, LoopsGetSmaller
    <3> QED BY <2>2, <3>1
  <2>5. ASSUME relation \notin exclude PROVE further(f) = further(g)
    <3>1. graph[relation] \in SUBSET Model
      BY <2>1
    <3>2. LoopSize(<<graph[relation], exclude \cup {relation}>>) < LoopSize(loop)
      BY <1>1, <2>1, <2>5, <3>1, LoopsGetSmaller
    <3> QED BY <2>2, <3>2
  <2> HIDE DEF relation, former, further
  <2>6. CASE relation \in exclude \cup former(f)
    BY <2>3, <2>4, <2>6
  <2>7. CASE relation \notin exclude \cup former(f)
    BY <2>3, <2>4, <2>5, <2>7
  <2> QED BY <2>6, <2>7
<1> QED BY <1>2, <1>3

\* relationModelNames comes to an end for every loop: there is a function that its body defines.
LEMMA LoopsEnd ==
  ASSUME NEW graph \in [Model -> SUBSET Model]
  PROVE  \E found : Looped(graph, found)
<1> DEFINE Defined(n) == \E f : \A loop \in Loops : LoopSize(loop) <= n => f[loop] = Loop(graph, f, loop)
           undefined == {n \in Nat : ~Defined(n)}
<1>1. ASSUME NEW n \in Nat, \A m \in Nat : m < n => Defined(m)
      PROVE  Defined(n)
  <2>1. PICK f : \A loop \in Loops : LoopSize(loop) < n => f[loop] = Loop(graph, f, loop)
    <3>1. CASE n = 0
      <4>1. \A loop \in Loops : ~(LoopSize(loop) < n)
        BY <3>1, LoopSizes
      <4> QED BY <4>1
    <3>2. CASE n # 0
      <4>1. n - 1 \in Nat /\ n - 1 < n
        BY <3>2
      <4>2. Defined(n - 1)
        BY <1>1, <4>1
      <4>3. \A loop \in Loops : LoopSize(loop) < n => LoopSize(loop) <= n - 1
        BY LoopSizes
      <4> QED BY <4>2, <4>3
    <3> QED BY <3>1, <3>2
  <2> DEFINE g == [loop \in Loops |-> Loop(graph, f, loop)]
  <2>2. \A loop \in Loops : g[loop] = Loop(graph, f, loop)
    OBVIOUS
  <2> HIDE DEF g
  <2>3. ASSUME NEW loop \in Loops, LoopSize(loop) <= n PROVE g[loop] = Loop(graph, g, loop)
    <3>1. \A smaller \in Loops : LoopSize(smaller) < LoopSize(loop) => f[smaller] = g[smaller]
      <4>1. \A smaller \in Loops : LoopSize(smaller) < LoopSize(loop) => LoopSize(smaller) < n
        BY <2>3, LoopSizes
      <4> QED BY <2>1, <2>2, <4>1
    <3>2. Loop(graph, f, loop) = Loop(graph, g, loop)
      BY <3>1, LoopsAgree
    <3> QED BY <2>2, <3>2
  <2> QED BY <2>3
<1>2. \A n \in Nat : Defined(n)
  <2>1. SUFFICES undefined = {}
    OBVIOUS
  <2> HIDE DEF Defined
  <2>2. ASSUME undefined # {} PROVE FALSE
    <3>1. PICK n \in undefined : \A m \in undefined : n <= m
      BY <2>2, LeastNumber
    <3>2. \A m \in Nat : m < n => Defined(m)
      BY <3>1
    <3> QED BY <1>1, <3>1, <3>2
  <2> QED BY <2>2
<1> DEFINE all == Cardinality(Model) * (Cardinality(Model) + 1) + Cardinality(Model)
<1>3. all \in Nat
  <2>1. Cardinality(Model) \in Nat
    BY ModelsAreFinite, FS_CardinalityType
  <2> QED BY <2>1
<1>4. \A loop \in Loops : LoopSize(loop) <= all /\ LoopSize(loop) \in Nat
  BY <1>3, LoopSizes
<1> HIDE DEF all
<1>5. PICK f : \A loop \in Loops : f[loop] = Loop(graph, f, loop)
  BY <1>2, <1>3, <1>4
<1> DEFINE g == [loop \in Loops |-> f[loop]]
<1>6. \A loop \in Loops : g[loop] = f[loop]
  OBVIOUS
<1>7. \A loop \in Loops : Loop(graph, f, loop) = Loop(graph, g, loop)
  <2> HIDE DEF g
  <2> QED BY <1>6, LoopsAgree
<1>8. g = [loop \in Loops |-> Loop(graph, g, loop)]
  <2>1. \A loop \in Loops : f[loop] = Loop(graph, g, loop)
    BY <1>5, <1>7
  <2> DEFINE h == [loop \in Loops |-> Loop(graph, g, loop)]
  <2>2. g = h
    BY <2>1
  <2> QED BY <2>2
<1> QED BY <1>8 DEF Looped

\* What a loop finds, with what it excludes, has the relations that were left and all that they lead to.
LEMMA LoopsFindAll ==
  ASSUME NEW graph \in [Model -> SUBSET Model], NEW found, Looped(graph, found)
  PROVE  \A loop \in Loops :
           /\ found[loop] \subseteq Model
           /\ loop[1] \subseteq found[loop] \cup loop[2]
           /\ \A m \in found[loop] : graph[m] \subseteq found[loop] \cup loop[2]
<1> DEFINE Right(loop) == /\ found[loop] \subseteq Model
                          /\ loop[1] \subseteq found[loop] \cup loop[2]
                          /\ \A m \in found[loop] : graph[m] \subseteq found[loop] \cup loop[2]
           wrong == {loop \in Loops : ~Right(loop)}
<1>1. \A loop \in Loops : found[loop] = Loop(graph, found, loop)
  BY DEF Looped
<1>2. ASSUME NEW loop \in Loops, \A smaller \in Loops : LoopSize(smaller) < LoopSize(loop) => Right(smaller)
      PROVE  Right(loop)
  <2>1. PICK rest \in SUBSET Model, exclude \in SUBSET Model : loop = <<rest, exclude>>
    BY DEF Loops
  <2>2. CASE rest = {}
    <3>1. found[loop] = {}
      BY <1>1, <2>1, <2>2 DEF Loop
    <3> QED BY <2>1, <2>2, <3>1
  <2>3. CASE rest # {}
    <3> DEFINE relation == CHOOSE r \in rest : TRUE
               first == <<rest \ {relation}, exclude>>
               below == <<graph[relation], exclude \cup {relation}>>
               former == found[first]
               further == found[below]
               result == found[loop]
    <3>1. relation \in rest /\ relation \in Model /\ graph[relation] \in SUBSET Model
      BY <2>3
    <3>2. first \in Loops /\ below \in Loops
      BY <3>1 DEF Loops
    <3>3. result = IF relation \in exclude \cup former THEN former ELSE former \cup {relation} \cup further
      <4>1. Loop(graph, found, <<rest, exclude>>) =
              IF relation \in exclude \cup former THEN former ELSE former \cup {relation} \cup further
        BY <2>3 DEF Loop
      <4>2. Loop(graph, found, loop) = Loop(graph, found, <<rest, exclude>>)
        BY <2>1
      <4> HIDE DEF relation, first, below, former, further
      <4> QED BY <1>1, <4>1, <4>2
    <3>4. Right(first)
      <4>1. LoopSize(first) < LoopSize(loop)
        BY <2>1, <3>1, LoopsGetSmaller
      <4> HIDE DEF first, Right
      <4> QED BY <1>2, <3>2, <4>1
    <3>5. former \subseteq Model /\ rest \ {relation} \subseteq former \cup exclude
          /\ \A m \in former : graph[m] \subseteq former \cup exclude
      <4>1. first[1] = rest \ {relation} /\ first[2] = exclude
        OBVIOUS
      <4> HIDE DEF first
      <4> QED BY <3>4, <4>1
    <3>6. ASSUME relation \notin exclude
          PROVE  /\ further \subseteq Model /\ graph[relation] \subseteq further \cup exclude \cup {relation}
                 /\ \A m \in further : graph[m] \subseteq further \cup exclude \cup {relation}
      <4>1. LoopSize(below) < LoopSize(loop)
        BY <2>1, <3>1, <3>6, LoopsGetSmaller
      <4>2. below[1] = graph[relation] /\ below[2] = exclude \cup {relation}
        OBVIOUS
      <4> HIDE DEF below
      <4>3. Right(below)
        BY <1>2, <3>2, <4>1
      <4> QED BY <4>2, <4>3
    <3>7. loop[1] = rest /\ loop[2] = exclude
      BY <2>1
    <3> SUFFICES /\ result \subseteq Model /\ rest \subseteq result \cup exclude
                 /\ \A m \in result : graph[m] \subseteq result \cup exclude
      BY <3>7
    <3> HIDE DEF relation, first, below, former, further, result
    <3>8. CASE relation \in exclude \cup former
      BY <3>1, <3>3, <3>5, <3>8
    <3>9. CASE relation \notin exclude \cup former
      <4>1. result = former \cup {relation} \cup further
        BY <3>3, <3>9
      <4>2. \A m \in result : graph[m] \subseteq result \cup exclude
        BY <3>5, <3>6, <3>9, <4>1
      <4> QED BY <3>1, <3>5, <3>6, <3>9, <4>1, <4>2
    <3> QED BY <3>8, <3>9
  <2> QED BY <2>2, <2>3
<1> HIDE DEF Right
<1>3. wrong = {}
  <2>1. ASSUME wrong # {} PROVE FALSE
    <3>1. PICK loop \in wrong : \A other \in wrong : LoopSize(loop) <= LoopSize(other)
      BY <2>1, SmallestLoop
    <3>2. ASSUME NEW smaller \in Loops, LoopSize(smaller) < LoopSize(loop) PROVE Right(smaller)
      <4>1. LoopSize(loop) \in Nat /\ LoopSize(smaller) \in Nat
        BY LoopSizes
      <4> QED BY <3>1, <3>2, <4>1
    <3> QED BY <1>2, <3>1, <3>2
  <2> QED BY <2>1
<1>4. \A loop \in Loops : Right(loop)
  BY <1>3
<1> QED BY <1>4 DEF Right

\* What relationModelNames finds is closed under the relations, and has those of the model.
LEMMA NamesAreClosed ==
  ASSUME NEW graph \in [Model -> SUBSET Model], NEW model \in Model
  PROVE  /\ RelationNames(graph, model) \subseteq Model
         /\ graph[model] \subseteq RelationNames(graph, model)
         /\ \A m \in RelationNames(graph, model) : graph[m] \subseteq RelationNames(graph, model)
<1> DEFINE found == CHOOSE f : Looped(graph, f)
           start == <<graph[model], {}>>
<1>1. RelationNames(graph, model) = found[start]
  BY DEF RelationNames, Looped, Loop, Loops
<1>2. Looped(graph, found)
  BY LoopsEnd
<1>3. start \in Loops /\ start[1] = graph[model] /\ start[2] = {}
  BY DEF Loops
<1> HIDE DEF found, start
<1>4. /\ found[start] \subseteq Model
      /\ start[1] \subseteq found[start] \cup start[2]
      /\ \A m \in found[start] : graph[m] \subseteq found[start] \cup start[2]
  BY <1>2, <1>3, LoopsFindAll
<1> QED BY <1>1, <1>3, <1>4

\* A response shows no model but its own and those that its relations name.
LEMMA ShownAreNamed ==
  ASSUME relations \in [Model -> SUBSET Model], NEW model \in Model
  PROVE  Shown(model) \subseteq {model} \cup RelationNames(relations, model)
<1> DEFINE named == {model} \cup RelationNames(relations, model)
<1>1. named \in SUBSET Model /\ model \in named /\ Closed(named)
  BY NamesAreClosed DEF Closed
<1> HIDE DEF named
<1>2. Shown(model) \subseteq named
  BY <1>1 DEF Shown
<1> QED BY <1>2 DEF named

\* What a shown model shows is shown with it.
LEMMA ShownWithShown ==
  ASSUME NEW model \in Model, NEW m \in Shown(model)
  PROVE  Shown(m) \subseteq Shown(model)
<1> SUFFICES ASSUME NEW x \in Shown(m), NEW shown \in SUBSET Model, model \in shown, Closed(shown)
             PROVE  x \in shown
  BY DEF Shown
<1>1. m \in shown
  BY DEF Shown
<1> QED BY <1>1 DEF Shown

-----------------------------------------------------------------------------
(* Relations: no answer is out of date *)

\* The table names what a response shows, up to its own model; so does every key, and an entry
\* that is out of date is one whose key does not even name its own model.
RelationsInv ==
  /\ relations \in [Model -> SUBSET Model]
  /\ names \in [Model -> SUBSET Model]
  /\ \A model \in Model : Shown(model) \subseteq names[model] \cup {model}
  /\ entries \subseteq Entry
  /\ \A entry \in entries :
       /\ Shown(entry.model) \subseteq entry.names \cup {entry.model}
       /\ entry.kind # "modelName" => entry.model \in entry.names
       /\ entry.stale => entry.model \notin entry.names

\* A key names what its response shows.
LEMMA KeysName ==
  ASSUME RelationsInv, NEW kind \in Kind, NEW model \in Model
  PROVE  /\ KeyNames(kind, model) \in SUBSET Model
         /\ Shown(model) \subseteq KeyNames(kind, model) \cup {model}
         /\ kind # "modelName" => model \in KeyNames(kind, model)
<1>1. Shown(model) \subseteq Model
  BY DEF Shown
<1>2. CASE kind = "*"
  BY <1>1, <1>2 DEF KeyNames
<1>3. CASE kind = "modelName"
  BY <1>3 DEF KeyNames, RelationsInv
<1>4. CASE kind = "resource"
  BY <1>4 DEF KeyNames, RelationsInv
<1> QED BY <1>2, <1>3, <1>4 DEF Kind

\* An answer, or the key that it makes, leaves it so.
LEMMA RelationsInv_Respond ==
  ASSUME RelationsInv, NEW kind \in Kind, NEW model \in Model, Respond(kind, model)
  PROVE  RelationsInv'
<1> DEFINE new == [kind |-> kind, model |-> model, names |-> KeyNames(kind, model), stale |-> FALSE]
<1>1. relations' = relations
  BY DEF Respond
<1>2. \A m \in Model : Shown(m)' = Shown(m)
  BY <1>1 DEF Shown, Closed
<1>3. /\ names' \in [Model -> SUBSET Model]
      /\ \A m \in Model : names[m] \subseteq names'[m]
  BY DEF Respond, RelationsInv
<1>4. new \in Entry
  BY KeysName DEF Entry
<1>5. \A entry \in entries' : entry \in entries \/ entry = new
  BY DEF Respond
<1>6. ASSUME NEW entry \in entries'
      PROVE  /\ entry \in Entry
             /\ Shown(entry.model)' \subseteq entry.names \cup {entry.model}
             /\ entry.kind # "modelName" => entry.model \in entry.names
             /\ entry.stale => entry.model \notin entry.names
  <2>1. CASE entry \in entries
    <3>1. entry \in Entry /\ entry.model \in Model
      BY <2>1 DEF RelationsInv, Entry
    <3>2. Shown(entry.model)' = Shown(entry.model)
      BY <1>2, <3>1
    <3> QED BY <2>1, <3>1, <3>2 DEF RelationsInv
  <2>2. CASE entry = new
    <3>1. entry.model = model /\ entry.kind = kind /\ entry.names = KeyNames(kind, model) /\ entry.stale = FALSE
      BY <2>2
    <3>2. Shown(entry.model)' = Shown(model)
      BY <1>2, <3>1
    <3> HIDE DEF new
    <3> QED BY <1>4, <2>2, <3>1, <3>2, KeysName
  <2> QED BY <1>5, <2>1, <2>2
<1> QED BY <1>1, <1>2, <1>3, <1>6 DEF RelationsInv

\* A change leaves it so: it expires what shows a changed model, unless that is the model of the
\* response itself, and the key does not name it.
LEMMA RelationsInv_Change ==
  ASSUME RelationsInv, NEW model \in Model, Change(model)
  PROVE  RelationsInv'
<1>1. PICK cascaded \in SUBSET {m \in Model : model \in Shown(m)} : ChangeModels(model, {model} \cup cascaded)
  BY DEF Change
<1> DEFINE changed == {model} \cup cascaded
           after(e) == [e EXCEPT !.stale = @ \/ Shown(e.model) \cap changed # {}]
<1>2. relations' = relations /\ names' = names
  BY <1>1 DEF ChangeModels
<1>3. \A m \in Model : Shown(m)' = Shown(m)
  BY <1>2 DEF Shown, Closed
<1>4. \A entry \in entries' : \E e \in entries : model \notin e.names /\ entry = after(e)
  BY <1>1 DEF ChangeModels
<1>5. ASSUME NEW entry \in entries'
      PROVE  /\ entry \in Entry
             /\ Shown(entry.model)' \subseteq entry.names \cup {entry.model}
             /\ entry.kind # "modelName" => entry.model \in entry.names
             /\ entry.stale => entry.model \notin entry.names
  <2>1. PICK e \in entries : model \notin e.names /\ entry = after(e)
    BY <1>4
  <2>2. e \in Entry /\ e.model \in Model
    BY DEF RelationsInv, Entry
  <2>3. /\ entry \in Entry /\ entry.kind = e.kind /\ entry.model = e.model /\ entry.names = e.names
        /\ entry.stale => e.stale \/ Shown(e.model) \cap changed # {}
    BY <2>1, <2>2 DEF Entry
  <2>4. Shown(entry.model)' = Shown(e.model)
    BY <1>3, <2>2, <2>3
  <2>5. ASSUME Shown(e.model) \cap changed # {} PROVE e.model \notin e.names
    <3>1. PICK m \in Shown(e.model) : m = model \/ model \in Shown(m)
      BY <2>5
    <3>2. model \in Shown(e.model)
      BY <2>2, <3>1, ShownWithShown
    <3>3. model = e.model
      BY <2>1, <3>2 DEF RelationsInv
    <3> QED BY <2>1, <3>3
  <2> HIDE DEF after, changed
  <2> QED BY <2>3, <2>4, <2>5 DEF RelationsInv
<1> QED BY <1>2, <1>3, <1>5 DEF RelationsInv

\* So it is in the beginning.
LEMMA RelationsInv_Init == RelationsInit([Model -> SUBSET Model]) => RelationsInv
<1> SUFFICES ASSUME RelationsInit([Model -> SUBSET Model]) PROVE RelationsInv
  OBVIOUS
<1>1. relations \in [Model -> SUBSET Model] /\ entries = {}
      /\ names = [model \in Model |-> RelationNames(relations, model)]
  BY DEF RelationsInit, AllRelationNames
<1>2. \A model \in Model : RelationNames(relations, model) \in SUBSET Model
                           /\ Shown(model) \subseteq RelationNames(relations, model) \cup {model}
  BY <1>1, NamesAreClosed, ShownAreNamed
<1> QED BY <1>1, <1>2 DEF RelationsInv

\* The entry that a request finds has the names of the key that it makes now.
LEMMA RelationsInv_Current == RelationsInv => HitsAreCurrent
<1> SUFFICES ASSUME RelationsInv, NEW kind \in Kind, NEW model \in Model, NEW entry \in Hit(kind, model), entry.stale
             PROVE  kind = "modelName" /\ model \notin names[model]
  BY DEF HitsAreCurrent
<1>1. entry \in entries /\ entry.kind = kind /\ entry.model = model /\ entry.names = KeyNames(kind, model)
  BY DEF Hit
<1>2. model \notin entry.names /\ kind = "modelName"
  BY <1>1 DEF RelationsInv
<1>3. KeyNames(kind, model) = names[model]
  BY <1>2 DEF KeyNames
<1> QED BY <1>1, <1>2, <1>3

(* No request is answered with what a completed change has made out of date, but for the user under   *)
(* a key that does not name its model (createResourceCacheKey of cache.util.ts, expireOnChange of     *)
(* cache.service.ts), for all relations between the models: relationModelNames names all that they    *)
(* lead to.                                                                                           *)
THEOREM HitsAreAlwaysCurrent == RelationsSpec => []HitsAreCurrent
<1>1. RelationsInv /\ [RelationsNext]_relationsVars => RelationsInv'
  <2> SUFFICES ASSUME RelationsInv, [RelationsNext]_relationsVars PROVE RelationsInv'
    OBVIOUS
  <2>1. CASE RelationsNext
    BY <2>1, RelationsInv_Respond, RelationsInv_Change DEF RelationsNext
  <2>2. CASE UNCHANGED relationsVars
    BY <2>2 DEF relationsVars, RelationsInv, Shown, Closed
  <2> QED BY <2>1, <2>2
<1> QED BY <1>1, RelationsInv_Init, RelationsInv_Current, PTL DEF RelationsSpec

=============================================================================
