---------------------------- MODULE ServiceProofs ----------------------------
(***************************************************************************)
(* What the resource services promise of a query page by page (Pages), of  *)
(* aggregations (Aggregates), of bulk operations (Bulk) and of the files   *)
(* of a document (Uploads), and the file manager of names and their        *)
(* directories (Directories), proved for all values of the constants.      *)
(* Each part has a specification of its own here, of which Requests takes  *)
(* the steps.                                                              *)
(***************************************************************************)
EXTENDS Pages, Aggregates, Bulk, Directories, Uploads, FiniteSetTheorems, SequenceTheorems, WellFoundedInduction, TLAPS

-----------------------------------------------------------------------------
(* Selections *)

\* A sequence, of anything
IsList(s) == s \in Seq({s[i] : i \in DOMAIN s})

\* A sequence that has nothing twice
Apart(s) == \A i, j \in DOMAIN s : i # j => s[i] # s[j]

\* A list is a sequence, of anything.
LEMMA ListsAreSequences ==
  ASSUME NEW s, IsList(s)
  PROVE  Len(s) \in Nat /\ DOMAIN s = 1 .. Len(s)
BY DEF IsList

\* Every sequence is a list.
LEMMA SequencesAreLists ==
  ASSUME NEW S, NEW s \in Seq(S)
  PROVE  IsList(s)
<1>1. Len(s) \in Nat /\ DOMAIN s = 1 .. Len(s) /\ s = [i \in 1 .. Len(s) |-> s[i]]
  OBVIOUS
<1>2. s \in [1 .. Len(s) -> {s[i] : i \in DOMAIN s}]
  BY <1>1
<1> QED BY <1>1, <1>2 DEF IsList

\* The place of a position among those that are selected
Place(positions, i) == Cardinality(positions \cap 1 .. i)

\* The numbers of a finite set are numbered, in their order and without a gap.
LEMMA Numbers ==
  ASSUME NEW positions \in SUBSET (Nat \ {0}), IsFiniteSet(positions)
  PROVE  /\ Cardinality(positions) \in Nat
         /\ \A i \in positions : Place(positions, i) \in 1 .. Cardinality(positions)
         /\ \A i, j \in positions : i < j => Place(positions, i) < Place(positions, j)
         /\ \A i, j \in positions : Place(positions, i) = Place(positions, j) => i = j
         /\ \A k \in 1 .. Cardinality(positions) : \E i \in positions : Place(positions, i) = k
<1>1. IsFiniteSet(positions) /\ Cardinality(positions) \in Nat
  BY FS_CardinalityType
<1>2. ASSUME NEW i \in positions
      PROVE  IsFiniteSet(positions \cap 1 .. i) /\ Place(positions, i) \in 1 .. Cardinality(positions)
  <2>1. IsFiniteSet(positions \cap 1 .. i) /\ Place(positions, i) \in Nat /\ Place(positions, i) <= Cardinality(positions)
    BY <1>1, FS_Subset, FS_CardinalityType DEF Place
  <2>2. i \in positions \cap 1 .. i
    OBVIOUS
  <2>3. Place(positions, i) # 0
    BY <2>1, <2>2, FS_EmptySet DEF Place
  <2> QED BY <1>1, <2>1, <2>3
<1>3. ASSUME NEW i \in positions, NEW j \in positions, i < j PROVE Place(positions, i) < Place(positions, j)
  <2>1. positions \cap 1 .. i \in SUBSET (positions \cap 1 .. j)
    BY <1>3
  <2>2. j \in positions \cap 1 .. j /\ j \notin positions \cap 1 .. i
    BY <1>3
  <2>3. Place(positions, i) <= Place(positions, j) /\ Place(positions, i) # Place(positions, j)
    BY <1>2, <2>1, <2>2, FS_Subset DEF Place
  <2>4. Place(positions, i) \in 1 .. Cardinality(positions) /\ Place(positions, j) \in 1 .. Cardinality(positions)
    BY <1>2
  <2> QED BY <1>1, <2>3, <2>4
<1>4. ASSUME NEW i \in positions, NEW j \in positions, Place(positions, i) = Place(positions, j) PROVE i = j
  <2>1. i \in Int /\ j \in Int
    OBVIOUS
  <2>2. ~(i < j) /\ ~(j < i)
    <3>1. Place(positions, i) \in 1 .. Cardinality(positions) /\ Place(positions, j) \in 1 .. Cardinality(positions)
      BY <1>2
    <3> QED BY <1>1, <1>3, <1>4, <3>1
  <2> QED BY <2>1, <2>2
<1>5. ASSUME NEW k \in 1 .. Cardinality(positions) PROVE \E i \in positions : Place(positions, i) = k
  <2> DEFINE g == [i \in positions |-> Place(positions, i)]
             numbers == 1 .. Cardinality(positions)
  <2>1. g \in Injection(positions, numbers)
    BY <1>2, <1>4 DEF Injection, IsInjective
  <2>2. IsFiniteSet(numbers) /\ Cardinality(numbers) = Cardinality(positions)
    BY <1>1, FS_Interval
  <2> HIDE DEF g, numbers
  <2>3. g \in Surjection(positions, numbers)
    BY <1>1, <2>1, <2>2, FS_Injection
  <2>4. PICK i \in positions : g[i] = k
    BY <2>3 DEF Surjection, numbers
  <2> QED BY <2>4 DEF g
<1> QED BY <1>1, <1>2, <1>3, <1>4, <1>5

\* The selected positions are numbered, in their order and without a gap.
LEMMA Numbering ==
  ASSUME NEW n \in Nat, NEW positions \in SUBSET (1 .. n)
  PROVE  /\ IsFiniteSet(positions) /\ Cardinality(positions) \in Nat
         /\ \A i \in positions : Place(positions, i) \in 1 .. Cardinality(positions)
         /\ \A i, j \in positions : i < j => Place(positions, i) < Place(positions, j)
         /\ \A i, j \in positions : Place(positions, i) = Place(positions, j) => i = j
         /\ \A k \in 1 .. Cardinality(positions) : \E i \in positions : Place(positions, i) = k
<1>1. IsFiniteSet(1 .. n)
  BY FS_Interval
<1>2. IsFiniteSet(positions)
  BY <1>1, FS_Subset
<1>3. positions \in SUBSET (Nat \ {0})
  OBVIOUS
<1> QED BY <1>2, <1>3, Numbers

\* What is selected is a list, with what was at each of the positions in the place of the position.
LEMMA Selected ==
  ASSUME NEW s, IsList(s), NEW positions \in SUBSET DOMAIN s
  PROVE  /\ IsList(At(s, positions)) /\ Len(At(s, positions)) = Cardinality(positions)
         /\ \A i \in positions : At(s, positions)[Place(positions, i)] = s[i]
<1>1. Len(s) \in Nat /\ DOMAIN s = 1 .. Len(s)
  BY ListsAreSequences
<1>2. Cardinality(positions) \in Nat
  BY <1>1, Numbering
<1> DEFINE t == At(s, positions)
<1>3. DOMAIN t = 1 .. Cardinality(positions) /\ t \in [1 .. Cardinality(positions) -> {t[i] : i \in DOMAIN t}]
  BY DEF At
<1>4. ASSUME NEW i \in positions PROVE t[Place(positions, i)] = s[i]
  <2> DEFINE j == CHOOSE j \in positions : Place(positions, j) = Place(positions, i)
  <2>1. j \in positions /\ Place(positions, j) = Place(positions, i)
    OBVIOUS
  <2>2. Place(positions, i) \in 1 .. Cardinality(positions) /\ j = i
    BY <1>1, <2>1, Numbering
  <2>3. t[Place(positions, i)] = s[j]
    BY <2>2 DEF At, Place
  <2> QED BY <2>2, <2>3
<1>5. IsList(t) /\ Len(t) = Cardinality(positions)
  BY <1>2, <1>3 DEF IsList
<1> QED BY <1>4, <1>5

\* Those of a set are what the list and the set have in common, each once if it was there once,
\* and all of them if the set has them all.
LEMMA ThoseSelected ==
  ASSUME NEW s, IsList(s), NEW set
  PROVE  /\ IsList(Those(s, set)) /\ ToSet(Those(s, set)) = ToSet(s) \cap set
         /\ (\A i, j \in DOMAIN s : i # j => s[i] # s[j]) =>
              \A i, j \in DOMAIN Those(s, set) : i # j => Those(s, set)[i] # Those(s, set)[j]
         /\ ToSet(s) \subseteq set => Those(s, set) = s
<1> DEFINE positions == {i \in DOMAIN s : s[i] \in set}
           t == At(s, positions)
<1>1. Len(s) \in Nat /\ DOMAIN s = 1 .. Len(s)
  BY ListsAreSequences
<1>2. /\ IsList(t) /\ Len(t) = Cardinality(positions) /\ Cardinality(positions) \in Nat
      /\ DOMAIN t = 1 .. Cardinality(positions)
      /\ \A i \in positions : t[Place(positions, i)] = s[i] /\ Place(positions, i) \in DOMAIN t
  <2>1. IsList(t) /\ Len(t) = Cardinality(positions) /\ \A i \in positions : t[Place(positions, i)] = s[i]
    BY Selected
  <2>2. positions \in SUBSET (1 .. Len(s))
    BY <1>1
  <2>3. Cardinality(positions) \in Nat /\ \A i \in positions : Place(positions, i) \in 1 .. Cardinality(positions)
    BY <1>1, <2>2, Numbering
  <2> HIDE DEF t, positions
  <2> QED BY <2>1, <2>3, ListsAreSequences
<1>3. \A k \in DOMAIN t : \E i \in positions : Place(positions, i) = k /\ t[k] = s[i]
  <2> TAKE k \in DOMAIN t
  <2>1. PICK i \in positions : Place(positions, i) = k
    BY <1>1, <1>2, Numbering
  <2> QED BY <1>2, <2>1
<1> HIDE DEF t
<1>4. ToSet(t) = ToSet(s) \cap set
  <2>1. ASSUME NEW e \in ToSet(t) PROVE e \in ToSet(s) \cap set
    <3>1. PICK k \in DOMAIN t : t[k] = e
      BY DEF ToSet
    <3>2. PICK i \in positions : t[k] = s[i]
      BY <1>3
    <3> QED BY <3>1, <3>2 DEF ToSet
  <2>2. ASSUME NEW e \in ToSet(s) \cap set PROVE e \in ToSet(t)
    <3>1. PICK i \in DOMAIN s : s[i] = e
      BY DEF ToSet
    <3>2. i \in positions
      BY <3>1
    <3> QED BY <1>2, <3>1, <3>2 DEF ToSet
  <2> QED BY <2>1, <2>2
<1>5. ASSUME \A i, j \in DOMAIN s : i # j => s[i] # s[j], NEW k \in DOMAIN t, NEW l \in DOMAIN t, k # l
      PROVE  t[k] # t[l]
  <2>1. PICK i \in positions : Place(positions, i) = k /\ t[k] = s[i]
    BY <1>3
  <2>2. PICK j \in positions : Place(positions, j) = l /\ t[l] = s[j]
    BY <1>3
  <2> QED BY <1>5, <2>1, <2>2
<1>6. ASSUME ToSet(s) \subseteq set PROVE t = s
  <2>1. positions = 1 .. Len(s)
    BY <1>1, <1>6 DEF ToSet
  <2>2. Cardinality(positions) = Len(s) /\ \A i \in 1 .. Len(s) : Place(positions, i) = i
    <3>1. \A i \in 1 .. Len(s) : positions \cap 1 .. i = 1 .. i
      BY <1>1, <2>1
    <3>2. \A i \in 0 .. Len(s) : Cardinality(1 .. i) = i
      BY <1>1, FS_Interval
    <3> HIDE DEF positions
    <3>3. Len(s) \in 0 .. Len(s) /\ 1 .. Len(s) \subseteq 0 .. Len(s)
      BY <1>1
    <3> QED BY <2>1, <3>1, <3>2, <3>3 DEF Place
  <2>3. DOMAIN t = 1 .. Len(s) /\ \A i \in 1 .. Len(s) : t[i] = s[i]
    BY <1>2, <2>1, <2>2
  <2>4. t = [i \in 1 .. Len(s) |-> t[i]] /\ s = [i \in 1 .. Len(s) |-> s[i]]
    BY <1>1, <1>2, <2>3 DEF IsList
  <2> QED BY <2>3, <2>4
<1> QED BY <1>2, <1>4, <1>5, <1>6 DEF Those, t

\* Where both are, y comes after x.
Follows(s, x, y) == \A i, j \in DOMAIN s : s[i] = x /\ s[j] = y => i < j

\* Each of what is selected is of a position, and they are in the order of the positions.
LEMMA SelectedInOrder ==
  ASSUME NEW s, IsList(s), NEW positions \in SUBSET DOMAIN s
  PROVE  /\ DOMAIN At(s, positions) = 1 .. Cardinality(positions)
         /\ \A k \in DOMAIN At(s, positions) : \E i \in positions : At(s, positions)[k] = s[i] /\ Place(positions, i) = k
         /\ \A i, j \in positions : Place(positions, i) < Place(positions, j) => i < j
         /\ \A x, y : Follows(s, x, y) => Follows(At(s, positions), x, y)
         /\ Apart(s) => Apart(At(s, positions))
<1> DEFINE t == At(s, positions)
<1>1. Len(s) \in Nat /\ DOMAIN s = 1 .. Len(s)
  BY ListsAreSequences
<1>2. DOMAIN t = 1 .. Cardinality(positions)
  BY DEF At
<1>3. ASSUME NEW k \in DOMAIN t PROVE \E i \in positions : t[k] = s[i] /\ Place(positions, i) = k
  <2>1. PICK i \in positions : Place(positions, i) = k
    BY <1>1, <1>2, Numbering
  <2>2. t[k] = s[i]
    BY <2>1, Selected
  <2> QED BY <2>1, <2>2
<1>4. ASSUME NEW i \in positions, NEW j \in positions, Place(positions, i) < Place(positions, j) PROVE i < j
  <2>1. i \in Int /\ j \in Int
    BY <1>1
  <2>2. Place(positions, i) \in 1 .. Cardinality(positions) /\ Place(positions, j) \in 1 .. Cardinality(positions)
        /\ Cardinality(positions) \in Nat
    BY <1>1, Numbering
  <2>3. Place(positions, i) \in Int /\ Place(positions, j) \in Int
    BY <2>2
  <2>4. j < i => Place(positions, j) < Place(positions, i)
    BY <1>1, Numbering
  <2>5. ~(j < i) /\ i # j
    BY <1>4, <2>3, <2>4
  <2> QED BY <2>1, <2>5
<1> HIDE DEF t
<1>5. ASSUME NEW x, NEW y, Follows(s, x, y) PROVE Follows(t, x, y)
  <2> SUFFICES ASSUME NEW k \in DOMAIN t, NEW l \in DOMAIN t, t[k] = x, t[l] = y PROVE k < l
    BY DEF Follows
  <2>1. PICK i \in positions : t[k] = s[i] /\ Place(positions, i) = k
    BY <1>3
  <2>2. PICK j \in positions : t[l] = s[j] /\ Place(positions, j) = l
    BY <1>3
  <2>3. i < j
    BY <1>5, <2>1, <2>2 DEF Follows
  <2> QED BY <1>1, <2>1, <2>2, <2>3, Numbering
<1>6. ASSUME Apart(s) PROVE Apart(t)
  <2> SUFFICES ASSUME NEW k \in DOMAIN t, NEW l \in DOMAIN t, k # l PROVE t[k] # t[l]
    BY DEF Apart
  <2>1. PICK i \in positions : t[k] = s[i] /\ Place(positions, i) = k
    BY <1>3
  <2>2. PICK j \in positions : t[l] = s[j] /\ Place(positions, j) = l
    BY <1>3
  <2> QED BY <1>6, <2>1, <2>2 DEF Apart
<1> QED BY <1>2, <1>3, <1>4, <1>5, <1>6 DEF t

\* A selection of all positions is the list.
LEMMA AllSelected == ASSUME NEW s, IsList(s) PROVE At(s, DOMAIN s) = s
<1>1. Those(s, ToSet(s)) = s
  BY ThoseSelected
<1>2. {i \in DOMAIN s : s[i] \in ToSet(s)} = DOMAIN s
  BY DEF ToSet
<1> QED BY <1>1, <1>2 DEF Those

\* The metadata of a file that is moved comes after what is there.
LEMMA AppendedFollows ==
  ASSUME NEW s, IsList(s), NEW file
  PROVE  /\ IsList(Append(s, file)) /\ ToSet(Append(s, file)) = ToSet(s) \cup {file}
         /\ \A x, y : x # file /\ Follows(s, x, y) => Follows(Append(s, file), x, y)
         /\ Apart(s) /\ file \notin ToSet(s) => Apart(Append(s, file))
<1> DEFINE S == {s[i] : i \in DOMAIN s} \cup {file}
           t == Append(s, file)
<1>1. s \in Seq(S) /\ file \in S
  BY DEF IsList
<1>2. Len(s) \in Nat /\ DOMAIN s = 1 .. Len(s)
  BY ListsAreSequences
<1> HIDE DEF S
<1>3. t \in Seq(S) /\ Len(t) = Len(s) + 1 /\ t[Len(s) + 1] = file /\ \A i \in 1 .. Len(s) : t[i] = s[i]
  BY <1>1
<1> HIDE DEF t
<1>4. IsList(t) /\ DOMAIN t = 1 .. Len(s) + 1
  <2>1. DOMAIN t = 1 .. Len(t)
    BY <1>3
  <2> QED BY <1>3, <2>1, SequencesAreLists
<1>5. \A i \in DOMAIN t : i \in DOMAIN s \/ i = Len(s) + 1
  BY <1>2, <1>4
<1>6. DOMAIN s \subseteq DOMAIN t /\ Len(s) + 1 \in DOMAIN t
  BY <1>2, <1>4
<1>7. ToSet(t) = ToSet(s) \cup {file}
  BY <1>2, <1>3, <1>5, <1>6 DEF ToSet
<1>8. ASSUME NEW x, NEW y, x # file, Follows(s, x, y) PROVE Follows(t, x, y)
  <2> SUFFICES ASSUME NEW i \in DOMAIN t, NEW j \in DOMAIN t, t[i] = x, t[j] = y PROVE i < j
    BY DEF Follows
  <2>1. i \in DOMAIN s
    BY <1>3, <1>5, <1>8
  <2>2. CASE j \in DOMAIN s
    BY <1>2, <1>3, <1>8, <2>1, <2>2 DEF Follows
  <2>3. CASE j = Len(s) + 1
    BY <1>2, <2>1, <2>3
  <2> QED BY <1>5, <2>2, <2>3
<1>9. ASSUME Apart(s), file \notin ToSet(s) PROVE Apart(t)
  <2> SUFFICES ASSUME NEW i \in DOMAIN t, NEW j \in DOMAIN t, i # j PROVE t[i] # t[j]
    BY DEF Apart
  <2>1. \A k \in DOMAIN s : t[k] = s[k] /\ s[k] # file
    BY <1>2, <1>3, <1>9 DEF ToSet
  <2> QED BY <1>3, <1>5, <1>9, <2>1 DEF Apart
<1> QED BY <1>4, <1>7, <1>8, <1>9 DEF t

\* What is appended is there, and nothing else.
LEMMA AppendedSet ==
  ASSUME NEW s, NEW t, IsList(s), IsList(t)
  PROVE  /\ IsList(s \o t) /\ ToSet(s \o t) = ToSet(s) \cup ToSet(t)
         /\ t = <<>> => s \o t = s
<1> DEFINE S == {s[i] : i \in DOMAIN s} \cup {t[i] : i \in DOMAIN t}
           u == s \o t
<1>1. s \in Seq(S) /\ t \in Seq(S)
  BY DEF IsList
<1>2. Len(s) \in Nat /\ DOMAIN s = 1 .. Len(s) /\ Len(t) \in Nat /\ DOMAIN t = 1 .. Len(t)
  BY ListsAreSequences
<1> HIDE DEF S
<1>3. /\ u \in Seq(S) /\ Len(u) = Len(s) + Len(t) /\ \A i \in 1 .. Len(s) : u[i] = s[i]
      /\ \A i \in 1 .. Len(u) : i > Len(s) => u[i] = t[i - Len(s)]
  BY <1>1
<1> HIDE DEF u
<1>4. IsList(u) /\ DOMAIN u = 1 .. Len(u)
  BY <1>3, SequencesAreLists
<1>5. ASSUME NEW e \in ToSet(u) PROVE e \in ToSet(s) \cup ToSet(t)
  <2>1. PICK i \in 1 .. Len(u) : u[i] = e
    BY <1>4 DEF ToSet
  <2>2. CASE i > Len(s)
    <3>1. i - Len(s) \in DOMAIN t
      BY <1>2, <1>3, <2>2
    <3> QED BY <1>3, <2>1, <2>2, <3>1 DEF ToSet
  <2>3. CASE ~(i > Len(s))
    <3>1. i \in DOMAIN s
      BY <1>2, <1>3, <2>3
    <3> QED BY <1>2, <1>3, <2>1, <3>1 DEF ToSet
  <2> QED BY <2>2, <2>3
<1>6. ASSUME NEW i \in DOMAIN s PROVE s[i] \in ToSet(u)
  BY <1>2, <1>3, <1>4 DEF ToSet
<1>7. ASSUME NEW i \in DOMAIN t PROVE t[i] \in ToSet(u)
  <2>1. i + Len(s) \in 1 .. Len(u) /\ i + Len(s) > Len(s) /\ (i + Len(s)) - Len(s) = i
    BY <1>2, <1>3
  <2> QED BY <1>3, <1>4, <2>1 DEF ToSet
<1>8. ToSet(u) = ToSet(s) \cup ToSet(t)
  BY <1>5, <1>6, <1>7 DEF ToSet
<1>9. t = <<>> => u = s
  BY <1>1 DEF u
<1> QED BY <1>4, <1>8, <1>9 DEF u

-----------------------------------------------------------------------------
(* Pages *)

\* Only mongoose reads from a snapshot, and only TypeORM finds the identifiers of a page first.
Walks ==
  \E orm \in {"mongoose", "typeorm"}, replicated \in BOOLEAN, joined \in BOOLEAN, sort \in Sort,
     size \in {Absent, "0", "larger", "one"} :
    /\ Walk(orm, replicated, joined, sort, size)
    /\ IsFiniteSet(stock') /\ (replicated => orm = "mongoose") /\ (joined => orm = "typeorm")

\* A client that goes through the pages of a query in any way
PagesSpec == PagesInit /\ [][Walks \/ PagesNext]_pagesVars

\* The connections are counted, and a walk has its fields.
PagesInv ==
  /\ opened \in Nat /\ refused \in Nat
  /\ "pc" \in DOMAIN walk /\ (walk.pc # "none" => "orm" \in DOMAIN walk)
  /\ ConnectionsAreReturned

(* However often queries and transactions fail, and however many pages there are, the connections that  *)
(* are taken are those of the transactions that did not start and that of the query that is going on    *)
(* (query of typeorm-resource.service.ts).                                                             *)
THEOREM ConnectionsReturned == PagesSpec => []ConnectionsAreReturned
<1>1. PagesInit => PagesInv
  BY DEF PagesInit, PagesInv, NoWalk, ConnectionsAreReturned
<1>2. ASSUME PagesInv, Walks PROVE PagesInv'
  BY <1>2 DEF Walks, Walk, PagesInv, ConnectionsAreReturned, NoWalk
<1>3. ASSUME PagesInv, PagesNext PROVE PagesInv'
  <2>1. CASE Begin
    BY <1>3, <2>1 DEF Begin, PagesInv, ConnectionsAreReturned
  <2>2. CASE BeginFails
    BY <1>3, <2>2 DEF BeginFails, PagesInv, ConnectionsAreReturned
  <2>3. CASE List
    <3>1. PICK items : walk' = [walk EXCEPT !.pc = "finding", !.items = items, !.torn = FALSE]
      BY <2>3 DEF List
    <3> QED BY <1>3, <2>3, <3>1 DEF List, PagesInv, ConnectionsAreReturned
  <2>4. CASE Find
    <3>1. PICK items, torn : walk' = [walk EXCEPT !.pc = "counting", !.read = stock, !.torn = torn, !.items = items]
      BY <2>4 DEF Find
    <3> QED BY <1>3, <2>4, <3>1 DEF Find, PagesInv, ConnectionsAreReturned
  <2>5. CASE Count
    BY <1>3, <2>5 DEF Count, Released, PagesInv, ConnectionsAreReturned
  <2>6. CASE QueryFails
    BY <1>3, <2>6 DEF QueryFails, Released, PagesInv, ConnectionsAreReturned
  <2>7. CASE Turn
    <3>1. walk'.pc \in {"asking", "over"} /\ DOMAIN walk' = DOMAIN walk
      BY <1>3, <2>7 DEF Turn, PagesInv
    <3> QED BY <1>3, <2>7, <3>1 DEF Turn, PagesInv, ConnectionsAreReturned
  <2>8. CASE Edit
    <3>1. DOMAIN walk' = DOMAIN walk /\ walk'.pc = walk.pc /\ ("orm" \in DOMAIN walk => walk'.orm = walk.orm)
      BY <1>3, <2>8 DEF Edit, PagesInv
    <3> QED BY <1>3, <2>8, <3>1 DEF Edit, PagesInv, ConnectionsAreReturned
  <2> QED BY <1>3, <2>1, <2>2, <2>3, <2>4, <2>5, <2>6, <2>7, <2>8 DEF PagesNext
<1>4. PagesInv /\ UNCHANGED pagesVars => PagesInv'
  BY DEF PagesInv, pagesVars, ConnectionsAreReturned
<1>5. PagesInv /\ [Walks \/ PagesNext]_pagesVars => PagesInv'
  BY <1>2, <1>3, <1>4
<1>6. PagesInv => ConnectionsAreReturned
  BY DEF PagesInv
<1> QED BY <1>1, <1>5, <1>6, PTL DEF PagesSpec

\* Where a walk may be, and what it keeps
WalkPc == {"asking", "listing", "finding", "counting", "answered", "over"}

WalkRecord ==
  [pc : WalkPc, orm : {"mongoose", "typeorm"}, replicated : BOOLEAN, joined : BOOLEAN, sort : Sort, size : Nat,
   page : Nat \ {0}, read : SUBSET Record, items : Seq(Record), total : Nat, shown : [Record -> Nat],
   first : SUBSET Record, came : SUBSET Record, left : SUBSET Record, torn : BOOLEAN]

\* The documents that there are, and what has come and gone
WalkTypeOK ==
  /\ stock \in SUBSET Record /\ IsFiniteSet(stock)
  /\ walk.pc # "none" =>
       /\ walk \in WalkRecord
       /\ walk.replicated => ~walk.joined
       /\ stock = (walk.first \cup walk.came) \ walk.left
       /\ IsFiniteSet(walk.read)
       /\ \A i, j \in DOMAIN walk.items : i # j => walk.items[i] # walk.items[j]

\* The place of a document, where no other has its rank
Foregoing(r) == {e \in stock : Rank(walk.sort, e) < Rank(walk.sort, r)}
PlaceOf(r) == Cardinality(Foregoing(r)) + 1

Skips == Skipped(walk.page, walk.size)

\* The documents of the page are known
Chosen == walk.pc \in {"counting", "answered"} \/ (walk.pc = "finding" /\ walk.joined)

Staying == walk.first \ walk.left

\* A document that stays is ahead of the client until it is shown, where nothing ahead of it has gone:
NotMissed(r) ==
  Shares(r) \cup Ahead(r, walk.left) = {} /\ walk.shown[r] = 0 =>
    /\ walk.pc # "over" /\ PlaceOf(r) > Skips
    /\ Chosen /\ r \notin ToSet(walk.items) => PlaceOf(r) > Skips + walk.size
    /\ walk.pc = "counting" /\ walk.replicated /\ r \notin ToSet(walk.items) => Cardinality(walk.read) > Skips + walk.size
    /\ walk.pc = "answered" /\ r \notin ToSet(walk.items) => walk.total > Skips + walk.size

\* and then behind it, where nothing ahead of it has come.
NotTwice(r) ==
  Shares(r) \cup Ahead(r, walk.came) = {} =>
    /\ walk.shown[r] <= 1
    /\ walk.shown[r] = 1 /\ walk.pc # "over" => PlaceOf(r) <= Skips
    /\ Chosen /\ r \in ToSet(walk.items) => walk.shown[r] = 0 /\ PlaceOf(r) <= Skips + walk.size

\* A total that fits the items of the page
Fits(n) ==
  \/ n = Skips + Len(walk.items)
  \/ Len(walk.items) = walk.size /\ n > Skips + walk.size
  \/ walk.items = <<>> /\ n <= Skips

TotalsFit ==
  /\ walk.pc = "finding" /\ walk.joined /\ ~walk.torn => Fits(Cardinality(stock)) /\ ToSet(walk.items) \subseteq stock
  /\ walk.pc = "counting" /\ ~walk.torn => Fits(Cardinality(stock))
  /\ walk.pc = "counting" /\ walk.replicated => Fits(Cardinality(walk.read))
  /\ walk.pc = "answered" /\ (walk.torn => walk.replicated) => Fits(walk.total)

WalkInv ==
  /\ WalkTypeOK
  /\ walk.pc # "none" => TotalsFit /\ \A r \in Staying : NotMissed(r) /\ NotTwice(r)

\* A page skips a number of documents, and the next one as many more as a page has.
LEMMA Skipping ==
  ASSUME NEW page \in Nat \ {0}, NEW size \in Nat
  PROVE  /\ Skipped(page, size) \in Nat
         /\ Skipped(page + 1, size) = Skipped(page, size) + size
         /\ page * size = Skipped(page, size) + size
<1> DEFINE before == page - 1
<1>1. before \in Nat /\ page = before + 1 /\ page + 1 - 1 = page
  OBVIOUS
<1> HIDE DEF before
<1>2. (before + 1) * size = before * size + size /\ before * size \in Nat
  BY <1>1
<1>3. Skipped(page, size) = before * size /\ Skipped(page + 1, size) = page * size
  BY <1>1 DEF Skipped, before
<1> QED BY <1>1, <1>2, <1>3

\* The documents are numbers, and so are their ranks.
LEMMA Ranked == ASSUME NEW sort \in Sort, NEW r \in Record PROVE Rank(sort, r) \in Nat
<1>1. r \in Nat
  BY PagesAssumption
<1>2. (r + 1) \div 2 \in Nat
  BY <1>1
<1> QED BY <1>1, <1>2 DEF Rank, Sort

\* The order of a query has each document once.
LEMMA OrdersHaveAll ==
  ASSUME NEW S, IsFiniteSet(S), NEW sort, NEW order \in Orders(sort, S)
  PROVE  /\ order \in Seq(S) /\ Len(order) = Cardinality(S) /\ DOMAIN order = 1 .. Cardinality(S)
         /\ Cardinality(S) \in Nat /\ ToSet(order) = S
         /\ \A i, j \in DOMAIN order : i # j => order[i] # order[j]
<1> DEFINE D == 1 .. Cardinality(S)
<1>1. Cardinality(S) \in Nat /\ IsFiniteSet(D) /\ Cardinality(D) = Cardinality(S)
  BY FS_CardinalityType, FS_Interval
<1>2. order \in [D -> S] /\ \A i, j \in D : i # j => order[i] # order[j]
  BY DEF Orders, SetToSeqs
<1>3. order \in Injection(D, S)
  BY <1>2 DEF Injection, IsInjective
<1> HIDE DEF D
<1>4. order \in Surjection(D, S)
  BY <1>1, <1>3, FS_Injection
<1>5. ToSet(order) = S
  BY <1>2, <1>4 DEF ToSet, Surjection
<1>6. order \in Seq(S) /\ Len(order) = Cardinality(S)
  BY <1>1, <1>2 DEF D
<1> QED BY <1>1, <1>2, <1>5, <1>6 DEF D

\* Where no other document has its rank, a document comes after those of a lower rank.
LEMMA PlaceInOrder ==
  ASSUME NEW S \in SUBSET Record, IsFiniteSet(S), NEW sort \in Sort, NEW order \in Orders(sort, S), NEW r \in S,
         \A e \in S \ {r} : Rank(sort, e) # Rank(sort, r)
  PROVE  \E k \in DOMAIN order : order[k] = r /\ k = Cardinality({e \in S : Rank(sort, e) < Rank(sort, r)}) + 1
<1>1. /\ DOMAIN order = 1 .. Cardinality(S) /\ Cardinality(S) \in Nat /\ ToSet(order) = S
      /\ \A i, j \in DOMAIN order : i # j => order[i] # order[j]
  BY OrdersHaveAll
<1>2. \A i, j \in DOMAIN order : i < j => Rank(sort, order[i]) <= Rank(sort, order[j])
  BY DEF Orders
<1>3. PICK k \in DOMAIN order : order[k] = r
  BY <1>1 DEF ToSet
<1>4. \A i \in DOMAIN order : order[i] \in S
  BY <1>1 DEF ToSet
<1>5. ASSUME NEW i \in DOMAIN order PROVE Rank(sort, order[i]) < Rank(sort, r) <=> i < k
  <2>1. Rank(sort, order[i]) \in Nat /\ Rank(sort, r) \in Nat /\ i \in Int /\ k \in Int
    BY <1>1, <1>4, Ranked
  <2>2. CASE i < k
    <3>1. Rank(sort, order[i]) <= Rank(sort, r) /\ order[i] # r
      BY <1>1, <1>2, <1>3, <2>1, <2>2
    <3> QED BY <1>4, <2>1, <2>2, <3>1
  <2>3. CASE i = k
    BY <1>3, <2>1, <2>3
  <2>4. CASE k < i
    BY <1>2, <1>3, <2>1, <2>4
  <2> QED BY <2>1, <2>2, <2>3, <2>4
<1> DEFINE before == {e \in S : Rank(sort, e) < Rank(sort, r)}
           g == [i \in 1 .. k - 1 |-> order[i]]
<1>6. k - 1 \in Nat /\ 1 .. k - 1 \subseteq DOMAIN order
  BY <1>1
<1>7. g \in [1 .. k - 1 -> before]
  BY <1>1, <1>4, <1>5, <1>6
<1>8. \A i, j \in 1 .. k - 1 : i # j => g[i] # g[j]
  BY <1>1, <1>6
<1>9. \A e \in before : \E i \in 1 .. k - 1 : g[i] = e
  <2> TAKE e \in before
  <2>1. PICK i \in DOMAIN order : order[i] = e
    BY <1>1 DEF ToSet
  <2>2. i < k
    BY <1>5, <2>1
  <2> QED BY <1>1, <2>1, <2>2
<1> HIDE DEF g, before
<1>10. g \in Bijection(1 .. k - 1, before)
  BY <1>7, <1>8, <1>9 DEF Bijection, Injection, Surjection, IsInjective
<1>11. Cardinality(before) = k - 1
  BY <1>6, <1>10, FS_CountingElements DEF ExistsBijection
<1>12. k = Cardinality(before) + 1
  BY <1>1, <1>11
<1> QED BY <1>3, <1>12 DEF before

\* The documents of a page
LEMMA PageHas ==
  ASSUME NEW S, NEW order \in Seq(S), NEW page \in Nat \ {0}, NEW size \in Nat,
         \A i, j \in DOMAIN order : i # j => order[i] # order[j]
  PROVE  LET skip == Skipped(page, size)
             items == Page(order, page, size)
         IN /\ items \in Seq(S)
            /\ \A i, j \in DOMAIN items : i # j => items[i] # items[j]
            /\ \A k \in DOMAIN order : order[k] \in ToSet(items) <=> skip < k /\ k <= skip + size
            /\ ToSet(items) \subseteq ToSet(order)
            /\ \/ Len(order) = skip + Len(items)
               \/ Len(items) = size /\ Len(order) > skip + size
               \/ items = <<>> /\ Len(order) <= skip
<1> DEFINE skip == Skipped(page, size)
           items == Page(order, page, size)
           last == IF skip + size < Len(order) THEN skip + size ELSE Len(order)
           n == IF skip < last THEN last - skip ELSE 0
<1>1. skip \in Nat /\ Len(order) \in Nat /\ DOMAIN order = 1 .. Len(order)
  <2>1. skip \in Nat
    BY Skipping
  <2>2. Len(order) \in Nat /\ DOMAIN order = 1 .. Len(order)
    OBVIOUS
  <2> QED BY <2>1, <2>2
<1> DEFINE all == Len(order)
<1> HIDE DEF skip, all
<1>0. all \in Nat /\ skip \in Nat /\ all = Len(order)
  BY <1>1 DEF all
<1>2. /\ last \in Nat /\ last <= all /\ last <= skip + size /\ n \in Nat
      /\ (skip < last => n = last - skip) /\ (~(skip < last) => n = 0)
      /\ (skip + size < all => last = skip + size) /\ (~(skip + size < all) => last = all)
  BY <1>0
<1>3. items = SubSeq(order, skip + 1, last)
  BY <1>0 DEF Page, skip
<1> HIDE DEF last, n
<1>4. items \in Seq(S) /\ Len(items) = n /\ DOMAIN items = 1 .. n /\ \A i \in 1 .. n : items[i] = order[skip + i]
  <2>1. items \in Seq(S)
    BY <1>0, <1>2, <1>3
  <2>2. Len(items) = n
    BY <1>0, <1>2, <1>3
  <2>3. \A i \in 1 .. n : items[i] = order[skip + i]
    BY <1>0, <1>2, <1>3
  <2> HIDE DEF items
  <2> QED BY <2>1, <2>2, <2>3
<1>5. \A i \in 1 .. n : skip + i \in DOMAIN order /\ skip + i <= last
  BY <1>0, <1>1, <1>2
<1> HIDE DEF items
<1>6. \A i, j \in DOMAIN items : i # j => items[i] # items[j]
  <2> SUFFICES ASSUME NEW i \in 1 .. n, NEW j \in 1 .. n, i # j PROVE items[i] # items[j]
    BY <1>4
  <2>1. skip + i \in DOMAIN order /\ skip + j \in DOMAIN order /\ skip + i # skip + j
    BY <1>0, <1>5
  <2> QED BY <1>4, <2>1
<1>7. ASSUME NEW k \in DOMAIN order PROVE order[k] \in ToSet(items) <=> skip < k /\ k <= skip + size
  <2>0. k \in Nat /\ k >= 1 /\ k <= all
    BY <1>0, <1>1
  <2>1. ASSUME order[k] \in ToSet(items) PROVE skip < k /\ k <= skip + size
    <3>1. PICK i \in 1 .. n : items[i] = order[k]
      BY <1>4, <2>1 DEF ToSet
    <3>2. skip + i = k
      BY <1>4, <1>5, <3>1
    <3>3. i \in Nat /\ i >= 1 /\ skip + i <= last
      BY <1>2, <1>5
    <3> QED BY <1>0, <1>2, <3>2, <3>3
  <2>2. ASSUME skip < k, k <= skip + size PROVE order[k] \in ToSet(items)
    <3>1. k <= last
      BY <1>0, <1>2, <2>0, <2>2
    <3>2. k - skip \in 1 .. n /\ skip + (k - skip) = k
      BY <1>0, <1>2, <2>0, <2>2, <3>1
    <3> QED BY <1>4, <3>2 DEF ToSet
  <2> QED BY <2>1, <2>2
<1>8. ToSet(items) \subseteq ToSet(order)
  BY <1>4, <1>5 DEF ToSet
<1>9. \/ all = skip + Len(items)
      \/ Len(items) = size /\ all > skip + size
      \/ items = <<>> /\ all <= skip
  <2>1. CASE all <= skip
    <3>1. n = 0
      BY <1>0, <1>2, <2>1
    <3>2. items = <<>>
      BY <1>4, <3>1
    <3> QED BY <2>1, <3>2
  <2>2. CASE skip < all /\ all <= skip + size
    <3>1. n = all - skip
      BY <1>0, <1>2, <2>2
    <3> QED BY <1>0, <1>4, <3>1
  <2>3. CASE skip + size < all
    <3>1. n = size
      BY <1>0, <1>2, <2>3
    <3> QED BY <1>0, <1>4, <2>3, <3>1
  <2> QED BY <1>0, <2>1, <2>2, <2>3
<1> QED BY <1>4, <1>6, <1>7, <1>8, <1>9 DEF items, skip, all

\* A document that stays, and shares its rank with no other
LEMMA StayingHasPlace ==
  ASSUME WalkTypeOK, walk.pc # "none", NEW r \in Staying, Shares(r) = {}
  PROVE  /\ r \in stock /\ r \in Record /\ \A e \in stock \ {r} : Rank(walk.sort, e) # Rank(walk.sort, r)
         /\ PlaceOf(r) \in Nat \ {0} /\ PlaceOf(r) <= Cardinality(stock) /\ Cardinality(stock) \in Nat
<1>1. /\ stock \in SUBSET Record /\ IsFiniteSet(stock) /\ stock = (walk.first \cup walk.came) \ walk.left
  BY DEF WalkTypeOK
<1>2. r \in stock /\ r \in Record
  BY <1>1 DEF Staying
<1>3. \A e \in stock \ {r} : Rank(walk.sort, e) # Rank(walk.sort, r)
  BY <1>1 DEF Shares
<1>4. Foregoing(r) \in SUBSET (stock \ {r}) /\ IsFiniteSet(stock \ {r}) /\ Cardinality(stock) \in Nat
      /\ Cardinality(stock \ {r}) = Cardinality(stock) - 1
  <2>1. walk.sort \in Sort
    BY DEF WalkTypeOK, WalkRecord
  <2>2. ~(Rank(walk.sort, r) < Rank(walk.sort, r))
    BY <1>2, <2>1, Ranked
  <2> QED BY <1>1, <1>2, <2>2, FS_RemoveElement, FS_CardinalityType DEF Foregoing
<1>5. Cardinality(Foregoing(r)) \in Nat /\ Cardinality(Foregoing(r)) <= Cardinality(stock \ {r})
  BY <1>4, FS_Subset, FS_CardinalityType
<1> QED BY <1>2, <1>3, <1>4, <1>5 DEF PlaceOf

\* A page of the documents that there are
LEMMA PageOfStock ==
  ASSUME WalkTypeOK, walk.pc # "none", NEW order \in Orders(walk.sort, stock)
  PROVE  LET items == Page(order, walk.page, walk.size)
             n == Cardinality(stock)
         IN /\ items \in Seq(Record) /\ ToSet(items) \subseteq stock
            /\ \A i, j \in DOMAIN items : i # j => items[i] # items[j]
            /\ \A r \in Staying : Shares(r) = {} =>
                 (r \in ToSet(items) <=> Skips < PlaceOf(r) /\ PlaceOf(r) <= Skips + walk.size)
            /\ \/ n = Skips + Len(items)
               \/ Len(items) = walk.size /\ n > Skips + walk.size
               \/ items = <<>> /\ n <= Skips
<1> DEFINE items == Page(order, walk.page, walk.size)
           n == Cardinality(stock)
<1>1. stock \in SUBSET Record /\ IsFiniteSet(stock) /\ walk.page \in Nat \ {0} /\ walk.size \in Nat /\ walk.sort \in Sort
  BY DEF WalkTypeOK, WalkRecord
<1>2. /\ order \in Seq(stock) /\ Len(order) = n /\ DOMAIN order = 1 .. n /\ ToSet(order) = stock
      /\ \A i, j \in DOMAIN order : i # j => order[i] # order[j]
  BY <1>1, OrdersHaveAll
<1>3. /\ items \in Seq(stock) /\ \A i, j \in DOMAIN items : i # j => items[i] # items[j]
      /\ \A k \in DOMAIN order : order[k] \in ToSet(items) <=> Skips < k /\ k <= Skips + walk.size
      /\ ToSet(items) \subseteq stock
      /\ \/ n = Skips + Len(items)
         \/ Len(items) = walk.size /\ n > Skips + walk.size
         \/ items = <<>> /\ n <= Skips
  <2> HIDE DEF n
  <2>1. LET skip == Skipped(walk.page, walk.size)
        IN /\ items \in Seq(stock) /\ \A i, j \in DOMAIN items : i # j => items[i] # items[j]
           /\ \A k \in DOMAIN order : order[k] \in ToSet(items) <=> skip < k /\ k <= skip + walk.size
           /\ ToSet(items) \subseteq ToSet(order)
           /\ \/ Len(order) = skip + Len(items)
              \/ Len(items) = walk.size /\ Len(order) > skip + walk.size
              \/ items = <<>> /\ Len(order) <= skip
    BY <1>1, <1>2, PageHas
  <2> HIDE DEF items
  <2> QED BY <1>2, <2>1 DEF Skips
<1>4. ASSUME NEW r \in Staying, Shares(r) = {}
      PROVE  r \in ToSet(items) <=> Skips < PlaceOf(r) /\ PlaceOf(r) <= Skips + walk.size
  <2>1. r \in stock /\ \A e \in stock \ {r} : Rank(walk.sort, e) # Rank(walk.sort, r)
    BY <1>4, StayingHasPlace
  <2>2. PICK k \in DOMAIN order : order[k] = r /\ k = PlaceOf(r)
    <3>1. \E k \in DOMAIN order : order[k] = r /\ k = Cardinality({e \in stock : Rank(walk.sort, e) < Rank(walk.sort, r)}) + 1
      <4> DEFINE sort == walk.sort
      <4>1. sort \in Sort /\ order \in Orders(sort, stock) /\ \A e \in stock \ {r} : Rank(sort, e) # Rank(sort, r)
        BY <1>1, <2>1
      <4> HIDE DEF sort
      <4>2. \E k \in DOMAIN order : order[k] = r /\ k = Cardinality({e \in stock : Rank(sort, e) < Rank(sort, r)}) + 1
        BY <1>1, <2>1, <4>1, PlaceInOrder
      <4> QED BY <4>2 DEF sort
    <3> QED BY <3>1 DEF PlaceOf, Foregoing
  <2> QED BY <1>3, <2>2
<1>5. items \in Seq(Record)
  BY <1>1, <1>3
<1> HIDE DEF items, n
<1> QED BY <1>3, <1>4, <1>5 DEF items, n

\* What a step that changes no document leaves as it was
Ground ==
  /\ stock' = stock /\ walk'.sort = walk.sort
  /\ walk'.first = walk.first /\ walk'.came = walk.came /\ walk'.left = walk.left

\* A document keeps its place there.
LEMMA OnSameGround ==
  ASSUME Ground
  PROVE  /\ Staying' = Staying
         /\ \A r : /\ Shares(r)' = Shares(r) /\ PlaceOf(r)' = PlaceOf(r)
                   /\ Ahead(r, walk.left)' = Ahead(r, walk.left) /\ Ahead(r, walk.came)' = Ahead(r, walk.came)
BY DEF Ground, Staying, Shares, PlaceOf, Foregoing, Ahead

\* A walk that stays what it is, but for where it is
LEMMA WalkFields ==
  ASSUME WalkTypeOK, walk.pc # "none"
  PROVE  /\ walk \in WalkRecord /\ stock \in SUBSET Record /\ IsFiniteSet(stock) /\ Cardinality(stock) \in Nat
         /\ Skips \in Nat /\ walk.size \in Nat /\ walk.page \in Nat \ {0} /\ walk.sort \in Sort
         /\ IsList(walk.items) /\ walk.total \in Nat /\ \A r \in Record : walk.shown[r] \in Nat
         /\ Staying \subseteq Record
<1>1. walk \in WalkRecord /\ stock \in SUBSET Record /\ IsFiniteSet(stock)
  BY DEF WalkTypeOK
<1>2. walk.size \in Nat /\ walk.page \in Nat \ {0} /\ walk.sort \in Sort /\ walk.total \in Nat /\ walk.shown \in [Record -> Nat]
      /\ walk.items \in Seq(Record) /\ walk.first \subseteq Record
  BY <1>1 DEF WalkRecord
<1>3. Skips \in Nat
  BY <1>2, Skipping DEF Skips
<1>4. IsList(walk.items)
  BY <1>2, SequencesAreLists
<1> QED BY <1>1, <1>2, <1>3, <1>4, FS_CardinalityType DEF Staying

\* A query starts: nothing is chosen yet.
LEMMA QueryBeginStep == ASSUME WalkInv, Begin PROVE WalkInv'
<1>1. walk.pc = "asking" /\ WalkTypeOK /\ walk \in WalkRecord /\ stock' = stock
      /\ walk' = [walk EXCEPT !.pc = IF walk.joined THEN "listing" ELSE "finding"]
  BY WalkFields DEF Begin, WalkInv
<1>2. PICK pc \in {"listing", "finding"} : walk' = [walk EXCEPT !.pc = pc] /\ (pc = "finding" => ~walk.joined)
  BY <1>1
<1>3. walk' \in WalkRecord
  BY <1>1, <1>2 DEF WalkRecord, WalkPc
<1>4. /\ walk'.pc = pc /\ walk'.page = walk.page /\ walk'.size = walk.size /\ walk'.shown = walk.shown
      /\ walk'.items = walk.items /\ walk'.read = walk.read /\ walk'.replicated = walk.replicated
      /\ walk'.joined = walk.joined /\ Ground
  BY <1>1, <1>2 DEF WalkRecord, Ground
<1>5. Skips' = Skips
  BY <1>4 DEF Skips
<1>6. WalkTypeOK'
  BY <1>1, <1>3, <1>4 DEF WalkTypeOK, Ground
<1>7. TotalsFit'
  BY <1>2, <1>4 DEF TotalsFit
<1>8. ASSUME NEW r \in Staying' PROVE NotMissed(r)' /\ NotTwice(r)'
  <2>1. r \in Staying /\ NotMissed(r) /\ NotTwice(r)
    BY <1>1, <1>4, OnSameGround DEF WalkInv
  <2> QED BY <1>1, <1>2, <1>4, <1>5, <2>1, OnSameGround DEF NotMissed, NotTwice, Chosen
<1> QED BY <1>6, <1>7, <1>8 DEF WalkInv

\* The identifiers of the page are what the documents of this moment have in its place.
LEMMA ListStep == ASSUME WalkInv, List PROVE WalkInv'
<1>1. walk.pc = "listing" /\ WalkTypeOK /\ walk \in WalkRecord /\ stock' = stock
  BY WalkFields DEF List, WalkInv
<1>2. PICK order \in Orders(walk.sort, stock) :
        walk' = [walk EXCEPT !.pc = "finding", !.items = Page(order, walk.page, walk.size), !.torn = FALSE]
  BY DEF List
<1> DEFINE items == Page(order, walk.page, walk.size)
<1>3. /\ items \in Seq(Record) /\ ToSet(items) \subseteq stock
      /\ \A i, j \in DOMAIN items : i # j => items[i] # items[j]
      /\ \A r \in Staying : Shares(r) = {} =>
           (r \in ToSet(items) <=> Skips < PlaceOf(r) /\ PlaceOf(r) <= Skips + walk.size)
      /\ \/ Cardinality(stock) = Skips + Len(items)
         \/ Len(items) = walk.size /\ Cardinality(stock) > Skips + walk.size
         \/ items = <<>> /\ Cardinality(stock) <= Skips
  BY <1>1, PageOfStock
<1> HIDE DEF items
<1>4. walk' \in WalkRecord
  BY <1>1, <1>2, <1>3 DEF WalkRecord, WalkPc, items
<1>5. /\ walk'.pc = "finding" /\ walk'.page = walk.page /\ walk'.size = walk.size /\ walk'.shown = walk.shown
      /\ walk'.items = items /\ walk'.read = walk.read /\ walk'.replicated = walk.replicated
      /\ walk'.joined = walk.joined /\ Ground
  BY <1>1, <1>2 DEF WalkRecord, Ground, items
<1>6. Skips' = Skips
  BY <1>5 DEF Skips
<1>7. WalkTypeOK'
  BY <1>1, <1>3, <1>4, <1>5 DEF WalkTypeOK, Ground
<1>8. TotalsFit'
  BY <1>1, <1>3, <1>5, <1>6 DEF TotalsFit, Fits
<1>9. ASSUME NEW r \in Staying' PROVE NotMissed(r)' /\ NotTwice(r)'
  <2>1. r \in Staying /\ NotMissed(r) /\ NotTwice(r) /\ walk.shown[r] \in Nat
    BY <1>1, <1>5, OnSameGround, WalkFields DEF WalkInv
  <2>2. Shares(r) = {} => PlaceOf(r) \in Nat /\ (r \in ToSet(items) <=> Skips < PlaceOf(r) /\ PlaceOf(r) <= Skips + walk.size)
    BY <1>1, <1>3, <2>1, StayingHasPlace
  <2>3. NotMissed(r)'
    BY <1>1, <1>5, <1>6, <2>1, <2>2, OnSameGround, WalkFields DEF NotMissed, Chosen
  <2>4. NotTwice(r)'
    BY <1>1, <1>5, <1>6, <2>1, <2>2, OnSameGround, WalkFields DEF NotTwice, Chosen
  <2> QED BY <2>3, <2>4
<1> QED BY <1>7, <1>8, <1>9 DEF WalkInv

\* The documents of the page are those of its identifiers that are still there, or what is in its place now.
LEMMA FindStep == ASSUME WalkInv, Find PROVE WalkInv'
<1>1. walk.pc = "finding" /\ WalkTypeOK /\ walk \in WalkRecord /\ stock' = stock /\ TotalsFit
  BY WalkFields DEF Find, WalkInv
<1>2. PICK order \in Orders(walk.sort, stock) :
        walk' = [walk EXCEPT !.pc = "counting", !.read = stock, !.torn = walk.joined /\ @,
                             !.items = IF walk.joined THEN Those(walk.items, stock) ELSE Page(order, walk.page, walk.size)]
  BY DEF Find
<1> DEFINE items == IF walk.joined THEN Those(walk.items, stock) ELSE Page(order, walk.page, walk.size)
           torn == walk.joined /\ walk.torn
<1>3. /\ ~walk.joined =>
           /\ items \in Seq(Record)
           /\ \A i, j \in DOMAIN items : i # j => items[i] # items[j]
           /\ \A r \in Staying : Shares(r) = {} =>
                (r \in ToSet(items) <=> Skips < PlaceOf(r) /\ PlaceOf(r) <= Skips + walk.size)
           /\ \/ Cardinality(stock) = Skips + Len(items)
              \/ Len(items) = walk.size /\ Cardinality(stock) > Skips + walk.size
              \/ items = <<>> /\ Cardinality(stock) <= Skips
  BY <1>1, PageOfStock
<1>4. walk.joined =>
        /\ items \in Seq(Record)
        /\ \A i, j \in DOMAIN items : i # j => items[i] # items[j]
        /\ ToSet(items) = ToSet(walk.items) \cap stock
        /\ ToSet(walk.items) \subseteq stock => items = walk.items
  <2> SUFFICES ASSUME walk.joined
               PROVE  /\ items \in Seq(Record)
                      /\ \A i, j \in DOMAIN items : i # j => items[i] # items[j]
                      /\ ToSet(items) = ToSet(walk.items) \cap stock
                      /\ ToSet(walk.items) \subseteq stock => items = walk.items
    OBVIOUS
  <2>1. items = Those(walk.items, stock)
    OBVIOUS
  <2> HIDE DEF items
  <2>2. IsList(walk.items) /\ \A i, j \in DOMAIN walk.items : i # j => walk.items[i] # walk.items[j]
    BY <1>1, WalkFields DEF WalkTypeOK
  <2>3. /\ IsList(items) /\ ToSet(items) = ToSet(walk.items) \cap stock
        /\ \A i, j \in DOMAIN items : i # j => items[i] # items[j]
        /\ ToSet(walk.items) \subseteq stock => items = walk.items
    BY <2>1, <2>2, ThoseSelected
  <2>4. items \in Seq(Record)
    <3>1. ToSet(items) \subseteq Record
      BY <1>1, <2>3 DEF WalkTypeOK
    <3> QED BY <2>3, <3>1 DEF IsList, ToSet
  <2> QED BY <2>3, <2>4
<1>5. torn \in BOOLEAN
  BY <1>1 DEF WalkRecord
<1> HIDE DEF items, torn
<1>6. walk' = [walk EXCEPT !.pc = "counting", !.read = stock, !.torn = torn, !.items = items]
  BY <1>1, <1>2 DEF items, torn, WalkRecord
<1>7. walk' \in WalkRecord
  BY <1>1, <1>3, <1>4, <1>5, <1>6 DEF WalkRecord, WalkPc, WalkTypeOK
<1>8. /\ walk'.pc = "counting" /\ walk'.page = walk.page /\ walk'.size = walk.size /\ walk'.shown = walk.shown
      /\ walk'.items = items /\ walk'.read = stock /\ walk'.replicated = walk.replicated
      /\ walk'.joined = walk.joined /\ Ground /\ walk'.torn = torn
  BY <1>1, <1>6 DEF WalkRecord, Ground
<1>9. Skips' = Skips
  BY <1>8 DEF Skips
<1>10. WalkTypeOK'
  BY <1>1, <1>3, <1>4, <1>7, <1>8 DEF WalkTypeOK, Ground
<1>11. TotalsFit'
  <2> DEFINE fit == \/ Cardinality(stock) = Skips + Len(items)
                    \/ Len(items) = walk.size /\ Cardinality(stock) > Skips + walk.size
                    \/ items = <<>> /\ Cardinality(stock) <= Skips
  <2>1. (walk'.torn => walk.replicated) => fit
    <3>1. CASE walk.joined
      <4>1. ~walk.replicated
        BY <1>1, <3>1 DEF WalkTypeOK
      <4>2. ~walk.torn => Fits(Cardinality(stock)) /\ items = walk.items
        BY <1>1, <1>4, <3>1 DEF TotalsFit
      <4>3. ~walk'.torn => ~walk.torn
        BY <1>8, <3>1 DEF torn
      <4> QED BY <4>1, <4>2, <4>3 DEF Fits
    <3>2. CASE ~walk.joined
      BY <1>3, <3>2
    <3> QED BY <3>1, <3>2
  <2>2. Fits(Cardinality(stock))' <=> fit
    BY <1>8, <1>9 DEF Fits, Ground
  <2>3. Fits(Cardinality(walk.read))' <=> fit
    BY <1>8, <1>9 DEF Fits
  <2> HIDE DEF fit
  <2>4. walk'.pc = "counting" /\ walk'.replicated = walk.replicated
    BY <1>8
  <2> QED BY <2>1, <2>2, <2>3, <2>4 DEF TotalsFit
<1>12. ASSUME NEW r \in Staying' PROVE NotMissed(r)' /\ NotTwice(r)'
  <2>1. r \in Staying /\ NotMissed(r) /\ NotTwice(r) /\ walk.shown[r] \in Nat
    BY <1>1, <1>8, OnSameGround, WalkFields DEF WalkInv
  <2>2. Shares(r) = {} => PlaceOf(r) \in Nat /\ r \in stock /\ PlaceOf(r) <= Cardinality(stock)
    BY <1>1, <2>1, StayingHasPlace
  <2>3. CASE walk.joined
    <3>1. r \in stock => (r \in ToSet(items) <=> r \in ToSet(walk.items))
      BY <1>4, <2>3
    <3>2. ~walk.replicated /\ Chosen
      BY <1>1, <2>3 DEF WalkTypeOK, Chosen
    <3>3. NotMissed(r)'
      BY <1>8, <1>9, <2>1, <2>2, <3>1, <3>2, OnSameGround DEF NotMissed
    <3>4. NotTwice(r)'
      <4> SUFFICES ASSUME Shares(r) \cup Ahead(r, walk.came) = {} PROVE NotTwice(r)'
        BY <1>8, OnSameGround DEF NotTwice
      <4>1. /\ walk.shown[r] <= 1 /\ (walk.shown[r] = 1 => PlaceOf(r) <= Skips)
            /\ r \in ToSet(items) => walk.shown[r] = 0 /\ PlaceOf(r) <= Skips + walk.size
        BY <1>1, <2>1, <2>2, <3>1, <3>2 DEF NotTwice
      <4> QED BY <1>8, <1>9, <4>1, OnSameGround DEF NotTwice
    <3> QED BY <3>3, <3>4
  <2>4. CASE ~walk.joined
    <3>1. Shares(r) = {} => (r \in ToSet(items) <=> Skips < PlaceOf(r) /\ PlaceOf(r) <= Skips + walk.size)
      BY <1>3, <2>1, <2>4
    <3>2. NotMissed(r)'
      BY <1>1, <1>8, <1>9, <2>1, <2>2, <3>1, OnSameGround, WalkFields DEF NotMissed
    <3>3. NotTwice(r)'
      BY <1>1, <1>8, <1>9, <2>1, <2>2, <3>1, OnSameGround, WalkFields DEF NotTwice
    <3> QED BY <3>2, <3>3
  <2> QED BY <2>3, <2>4
<1> QED BY <1>10, <1>11, <1>12 DEF WalkInv

\* A document of a later page counts into the total.
LEMMA CountStep == ASSUME WalkInv, Count PROVE WalkInv'
<1>1. walk.pc = "counting" /\ WalkTypeOK /\ walk \in WalkRecord /\ stock' = stock /\ TotalsFit /\ IsFiniteSet(walk.read)
  BY WalkFields DEF Count, WalkInv, WalkTypeOK
<1> DEFINE total == Cardinality(IF walk.replicated THEN walk.read ELSE stock)
<1>2. walk' = [walk EXCEPT !.pc = "answered", !.total = total]
  BY DEF Count
<1>3. total \in Nat /\ (walk.replicated => total = Cardinality(walk.read)) /\ (~walk.replicated => total = Cardinality(stock))
  BY <1>1, FS_CardinalityType DEF WalkTypeOK
<1> HIDE DEF total
<1>4. walk' \in WalkRecord
  BY <1>1, <1>2, <1>3 DEF WalkRecord, WalkPc
<1>5. /\ walk'.pc = "answered" /\ walk'.page = walk.page /\ walk'.size = walk.size /\ walk'.shown = walk.shown
      /\ walk'.items = walk.items /\ walk'.read = walk.read /\ walk'.replicated = walk.replicated
      /\ walk'.joined = walk.joined /\ Ground /\ walk'.torn = walk.torn /\ walk'.total = total
  BY <1>1, <1>2 DEF WalkRecord, Ground
<1>6. Skips' = Skips
  BY <1>5 DEF Skips
<1>7. WalkTypeOK'
  BY <1>1, <1>4, <1>5 DEF WalkTypeOK, Ground
<1>8. TotalsFit'
  <2>1. CASE walk.replicated
    BY <1>1, <1>3, <1>5, <1>6, <2>1 DEF TotalsFit, Fits
  <2>2. CASE ~walk.replicated
    BY <1>1, <1>3, <1>5, <1>6, <2>2 DEF TotalsFit, Fits
  <2> QED BY <2>1, <2>2
<1>9. ASSUME NEW r \in Staying' PROVE NotMissed(r)' /\ NotTwice(r)'
  <2>1. r \in Staying /\ NotMissed(r) /\ NotTwice(r)
    BY <1>1, <1>5, OnSameGround DEF WalkInv
  <2>2. Shares(r) = {} => PlaceOf(r) \in Nat /\ PlaceOf(r) <= Cardinality(stock)
    BY <1>1, <2>1, StayingHasPlace
  <2>3. Chosen
    BY <1>1 DEF Chosen
  <2>4. NotMissed(r)'
    <3> SUFFICES ASSUME Shares(r) \cup Ahead(r, walk.left) = {}, walk.shown[r] = 0 PROVE NotMissed(r)'
      BY <1>5, OnSameGround DEF NotMissed
    <3>1. PlaceOf(r) > Skips /\ (r \notin ToSet(walk.items) => PlaceOf(r) > Skips + walk.size)
      BY <2>1, <2>3 DEF NotMissed
    <3>2. r \notin ToSet(walk.items) => total > Skips + walk.size
      <4>1. CASE walk.replicated
        BY <1>1, <1>3, <2>1, <4>1 DEF NotMissed
      <4>2. CASE ~walk.replicated
        BY <1>1, <1>3, <2>2, <3>1, <4>2, WalkFields
      <4> QED BY <4>1, <4>2
    <3> QED BY <1>5, <1>6, <3>1, <3>2, OnSameGround DEF NotMissed
  <2>5. NotTwice(r)'
    <3> SUFFICES ASSUME Shares(r) \cup Ahead(r, walk.came) = {} PROVE NotTwice(r)'
      BY <1>5, OnSameGround DEF NotTwice
    <3>1. /\ walk.shown[r] <= 1 /\ (walk.shown[r] = 1 => PlaceOf(r) <= Skips)
          /\ r \in ToSet(walk.items) => walk.shown[r] = 0 /\ PlaceOf(r) <= Skips + walk.size
      BY <1>1, <2>1, <2>3 DEF NotTwice
    <3> QED BY <1>5, <1>6, <3>1, OnSameGround DEF NotTwice
  <2> QED BY <2>4, <2>5
<1> QED BY <1>7, <1>8, <1>9 DEF WalkInv

\* What a failed query has found is forgotten, and the client asks for the same page.
LEMMA QueryFailsStep == ASSUME WalkInv, QueryFails PROVE WalkInv'
<1>1. walk.pc # "none" /\ walk.pc # "over" /\ WalkTypeOK /\ walk \in WalkRecord /\ stock' = stock
      /\ walk' = [walk EXCEPT !.pc = "asking", !.items = <<>>]
  BY WalkFields DEF QueryFails, WalkInv
<1>2. walk' \in WalkRecord
  <2>1. <<>> \in Seq(Record)
    OBVIOUS
  <2> QED BY <1>1, <2>1 DEF WalkRecord, WalkPc
<1>3. /\ walk'.pc = "asking" /\ walk'.page = walk.page /\ walk'.size = walk.size /\ walk'.shown = walk.shown
      /\ walk'.items = <<>> /\ walk'.read = walk.read /\ walk'.replicated = walk.replicated
      /\ walk'.joined = walk.joined /\ Ground
  BY <1>1 DEF WalkRecord, Ground
<1>4. Skips' = Skips
  BY <1>3 DEF Skips
<1>5. WalkTypeOK'
  BY <1>1, <1>2, <1>3 DEF WalkTypeOK, Ground
<1>6. TotalsFit'
  BY <1>3 DEF TotalsFit
<1>7. ASSUME NEW r \in Staying' PROVE NotMissed(r)' /\ NotTwice(r)'
  <2>1. r \in Staying /\ NotMissed(r) /\ NotTwice(r)
    BY <1>1, <1>3, OnSameGround DEF WalkInv
  <2> QED BY <1>1, <1>3, <1>4, <2>1, OnSameGround DEF NotMissed, NotTwice, Chosen
<1> QED BY <1>5, <1>6, <1>7 DEF WalkInv

\* What the page has shown is behind the client, and what it has not is ahead of the next one.
LEMMA TurnStep == ASSUME WalkInv, Turn PROVE WalkInv'
<1>1. walk.pc = "answered" /\ WalkTypeOK /\ walk \in WalkRecord /\ stock' = stock
  BY WalkFields DEF Turn, WalkInv
<1> DEFINE pc == IF walk.page * walk.size < walk.total THEN "asking" ELSE "over"
           times(r) == Cardinality({i \in DOMAIN walk.items : walk.items[i] = r})
           shown == [r \in Record |-> walk.shown[r] + times(r)]
<1>2. walk' = [walk EXCEPT !.pc = pc, !.page = walk.page + 1, !.items = <<>>, !.read = {}, !.torn = FALSE, !.shown = shown]
  BY <1>1 DEF Turn, WalkRecord
<1>3. ASSUME NEW r PROVE times(r) = IF r \in ToSet(walk.items) THEN 1 ELSE 0
  <2>1. CASE r \notin ToSet(walk.items)
    <3>1. {i \in DOMAIN walk.items : walk.items[i] = r} = {}
      BY <2>1 DEF ToSet
    <3> QED BY <2>1, <3>1, FS_EmptySet
  <2>2. CASE r \in ToSet(walk.items)
    <3>1. PICK i \in DOMAIN walk.items : walk.items[i] = r
      BY <2>2 DEF ToSet
    <3>2. {j \in DOMAIN walk.items : walk.items[j] = r} = {i}
      BY <1>1, <3>1 DEF WalkTypeOK
    <3> QED BY <2>2, <3>2, FS_Singleton
  <2> QED BY <2>1, <2>2
<1> HIDE DEF times
<1>4. shown \in [Record -> Nat]
  BY <1>1, <1>3, WalkFields
<1>5. \A r \in Record : shown[r] = walk.shown[r] + times(r)
  OBVIOUS
<1>6. pc \in {"asking", "over"} /\ (pc = "over" => ~(walk.page * walk.size < walk.total))
  OBVIOUS
<1> HIDE DEF pc, shown
<1>7. walk' \in WalkRecord
  <2>1. walk.page + 1 \in Nat \ {0}
    BY <1>1, WalkFields
  <2>2. <<>> \in Seq(Record) /\ {} \in SUBSET Record /\ FALSE \in BOOLEAN /\ pc \in WalkPc
    BY <1>6 DEF WalkPc
  <2> QED BY <1>1, <1>2, <1>4, <2>1, <2>2 DEF WalkRecord
<1>8. /\ walk'.pc = pc /\ walk'.page = walk.page + 1 /\ walk'.size = walk.size /\ walk'.shown = shown
      /\ walk'.items = <<>> /\ walk'.read = {} /\ walk'.replicated = walk.replicated
      /\ walk'.joined = walk.joined /\ Ground
  BY <1>1, <1>2 DEF WalkRecord, Ground
<1>9. Skips' = Skips + walk.size /\ walk.page * walk.size = Skips + walk.size
  BY <1>1, <1>8, WalkFields, Skipping DEF Skips
<1>10. WalkTypeOK'
  BY <1>1, <1>7, <1>8, FS_EmptySet DEF WalkTypeOK, Ground
<1>11. TotalsFit'
  BY <1>6, <1>8 DEF TotalsFit
<1>12. ASSUME NEW r \in Staying' PROVE NotMissed(r)' /\ NotTwice(r)'
  <2>1. r \in Staying /\ NotMissed(r) /\ NotTwice(r) /\ walk.shown[r] \in Nat /\ r \in Record
    BY <1>1, <1>8, OnSameGround, WalkFields DEF WalkInv
  <2>2. Shares(r) = {} => PlaceOf(r) \in Nat
    BY <1>1, <2>1, StayingHasPlace
  <2>3. Chosen /\ ~Chosen'
    BY <1>1, <1>6, <1>8 DEF Chosen
  <2>4. walk'.shown[r] = walk.shown[r] + (IF r \in ToSet(walk.items) THEN 1 ELSE 0)
    BY <1>3, <1>5, <1>8, <2>1
  <2>5. NotMissed(r)'
    <3> SUFFICES ASSUME Shares(r) \cup Ahead(r, walk.left) = {}, walk'.shown[r] = 0 PROVE NotMissed(r)'
      BY <1>8, OnSameGround DEF NotMissed
    <3>1. r \notin ToSet(walk.items) /\ walk.shown[r] = 0
      BY <2>1, <2>4
    <3>2. PlaceOf(r) > Skips + walk.size /\ walk.total > Skips + walk.size
      BY <1>1, <2>1, <2>3, <3>1 DEF NotMissed
    <3>3. pc # "over"
      BY <1>6, <1>9, <3>2
    <3> QED BY <1>6, <1>8, <1>9, <2>3, <3>2, <3>3, OnSameGround DEF NotMissed
  <2>6. NotTwice(r)'
    <3> SUFFICES ASSUME Shares(r) \cup Ahead(r, walk.came) = {} PROVE NotTwice(r)'
      BY <1>8, OnSameGround DEF NotTwice
    <3>1. /\ walk.shown[r] <= 1 /\ (walk.shown[r] = 1 => PlaceOf(r) <= Skips)
          /\ r \in ToSet(walk.items) => walk.shown[r] = 0 /\ PlaceOf(r) <= Skips + walk.size
      BY <1>1, <2>1, <2>3 DEF NotTwice
    <3>2. walk'.shown[r] <= 1 /\ (walk'.shown[r] = 1 => PlaceOf(r) <= Skips + walk.size)
      BY <1>1, <2>1, <2>2, <2>4, <3>1, WalkFields
    <3> QED BY <1>8, <1>9, <2>3, <3>2, OnSameGround DEF NotTwice
  <2> QED BY <2>5, <2>6
<1> QED BY <1>10, <1>11, <1>12 DEF WalkInv

\* A document moves by what comes or goes ahead of it, and by nothing else.
LEMMA EditStep == ASSUME WalkInv, Edit PROVE WalkInv'
<1>1. walk.pc # "none" /\ walk.pc # "over" /\ WalkTypeOK /\ walk \in WalkRecord /\ TotalsFit
  BY WalkFields DEF Edit, WalkInv
<1>2. stock \in SUBSET Record /\ IsFiniteSet(stock) /\ stock = (walk.first \cup walk.came) \ walk.left /\ walk.sort \in Sort
  BY <1>1, WalkFields DEF WalkTypeOK
<1>3. PICK e \in Record \ (walk.came \cup walk.left) :
        \/ /\ e \in stock /\ stock' = stock \ {e} /\ walk' = [walk EXCEPT !.left = walk.left \cup {e}, !.torn = TRUE]
        \/ /\ e \notin stock /\ stock' = stock \cup {e} /\ walk' = [walk EXCEPT !.came = walk.came \cup {e}, !.torn = TRUE]
  BY <1>1 DEF Edit, WalkRecord
<1>4. walk' \in WalkRecord
  <2>1. walk.left \cup {e} \in SUBSET Record /\ walk.came \cup {e} \in SUBSET Record /\ TRUE \in BOOLEAN
    BY <1>1 DEF WalkRecord
  <2>2. CASE walk' = [walk EXCEPT !.left = walk.left \cup {e}, !.torn = TRUE]
    BY <1>1, <2>1, <2>2 DEF WalkRecord
  <2>3. CASE walk' = [walk EXCEPT !.came = walk.came \cup {e}, !.torn = TRUE]
    BY <1>1, <2>1, <2>3 DEF WalkRecord
  <2> QED BY <1>3, <2>2, <2>3
<1>5. /\ walk'.pc = walk.pc /\ walk'.page = walk.page /\ walk'.size = walk.size /\ walk'.shown = walk.shown
      /\ walk'.items = walk.items /\ walk'.read = walk.read /\ walk'.replicated = walk.replicated
      /\ walk'.joined = walk.joined /\ walk'.total = walk.total /\ walk'.torn = TRUE
      /\ walk'.sort = walk.sort /\ walk'.first = walk.first
  BY <1>1, <1>3 DEF WalkRecord
<1>6. \/ /\ e \in stock /\ stock' = stock \ {e} /\ walk'.left = walk.left \cup {e} /\ walk'.came = walk.came
      \/ /\ e \notin stock /\ stock' = stock \cup {e} /\ walk'.came = walk.came \cup {e} /\ walk'.left = walk.left
  BY <1>1, <1>3 DEF WalkRecord
<1>7. Skips' = Skips /\ (Chosen' <=> Chosen)
  BY <1>5 DEF Skips, Chosen
<1>8. WalkTypeOK'
  <2>1. IsFiniteSet(stock')
    BY <1>2, <1>6, FS_AddElement, FS_RemoveElement
  <2>2. stock' = (walk'.first \cup walk'.came) \ walk'.left /\ stock' \in SUBSET Record
    BY <1>2, <1>3, <1>5, <1>6
  <2>3. /\ walk.replicated => ~walk.joined
        /\ IsFiniteSet(walk.read)
        /\ \A i, j \in DOMAIN walk.items : i # j => walk.items[i] # walk.items[j]
    BY <1>1 DEF WalkTypeOK
  <2> QED BY <1>4, <1>5, <2>1, <2>2, <2>3 DEF WalkTypeOK
<1>9. TotalsFit'
  <2>1. \A n : Fits(n)' <=> Fits(n)
    BY <1>5, <1>7 DEF Fits
  <2>2. Fits(Cardinality(walk.read))' <=> Fits(Cardinality(walk.read))
    BY <1>5, <1>7 DEF Fits
  <2>3. Fits(walk.total)' <=> Fits(walk.total)
    BY <1>5, <1>7 DEF Fits
  <2> QED BY <1>1, <1>5, <2>2, <2>3 DEF TotalsFit
<1>10. ASSUME NEW r \in Staying' PROVE NotMissed(r)' /\ NotTwice(r)'
  <2>1. r \in Staying /\ r \in Record /\ NotMissed(r) /\ NotTwice(r) /\ walk.shown[r] \in Nat
    <3>1. r \in Staying
      BY <1>5, <1>6 DEF Staying
    <3> QED BY <1>1, <3>1, WalkFields DEF WalkInv
  <2>2. /\ IsFiniteSet(Foregoing(r)) /\ IsFiniteSet(Foregoing(r)') /\ PlaceOf(r) \in Nat /\ PlaceOf(r)' \in Nat
        /\ Foregoing(r)' = {x \in stock' : Rank(walk.sort, x) < Rank(walk.sort, r)}
    <3>1. Foregoing(r) \subseteq stock /\ Foregoing(r)' \subseteq stock' /\ IsFiniteSet(stock')
      BY <1>8 DEF Foregoing, WalkTypeOK
    <3>2. IsFiniteSet(Foregoing(r)) /\ IsFiniteSet(Foregoing(r)')
      BY <1>2, <3>1, FS_Subset
    <3> QED BY <1>5, <3>2, FS_CardinalityType DEF PlaceOf, Foregoing
  <2>3. (Shares(r) = {})' => Shares(r) = {}
    BY <1>5, <1>6 DEF Shares
  <2>4. CASE e \in stock /\ stock' = stock \ {e} /\ walk'.left = walk.left \cup {e} /\ walk'.came = walk.came
    <3>1. Foregoing(r)' \subseteq Foregoing(r) /\ (~(Rank(walk.sort, e) < Rank(walk.sort, r)) => Foregoing(r)' = Foregoing(r))
      BY <2>2, <2>4 DEF Foregoing
    <3>2. PlaceOf(r)' <= PlaceOf(r)
      BY <2>2, <3>1, FS_Subset, FS_CardinalityType DEF PlaceOf
    <3>3. Ahead(r, walk.came)' = Ahead(r, walk.came)
      BY <1>5, <2>4 DEF Ahead
    <3>4. (Ahead(r, walk.left) = {})' => Ahead(r, walk.left) = {} /\ PlaceOf(r)' = PlaceOf(r)
      <4>1. Ahead(r, walk.left)' = {x \in walk.left \cup {e} : Rank(walk.sort, x) < Rank(walk.sort, r)}
        BY <1>5, <2>4 DEF Ahead
      <4> QED BY <3>1, <4>1 DEF Ahead, PlaceOf
    <3>5. NotMissed(r)'
      <4> SUFFICES ASSUME (Shares(r) = {})', (Ahead(r, walk.left) = {})', walk.shown[r] = 0 PROVE NotMissed(r)'
        BY <1>5 DEF NotMissed
      <4>1. Shares(r) \cup Ahead(r, walk.left) = {} /\ PlaceOf(r)' = PlaceOf(r)
        BY <2>3, <3>4
      <4> QED BY <1>1, <1>5, <1>7, <2>1, <4>1 DEF NotMissed
    <3>6. NotTwice(r)'
      <4> SUFFICES ASSUME (Shares(r) = {})', (Ahead(r, walk.came) = {})' PROVE NotTwice(r)'
        BY DEF NotTwice
      <4>1. /\ walk.shown[r] <= 1 /\ (walk.shown[r] = 1 => PlaceOf(r) <= Skips)
            /\ Chosen /\ r \in ToSet(walk.items) => walk.shown[r] = 0 /\ PlaceOf(r) <= Skips + walk.size
        BY <1>1, <2>1, <2>3, <3>3 DEF NotTwice
      <4>2. /\ walk.shown[r] = 1 => PlaceOf(r)' <= Skips
            /\ PlaceOf(r) <= Skips + walk.size => PlaceOf(r)' <= Skips + walk.size
        BY <1>1, <2>2, <3>2, <4>1, WalkFields
      <4> QED BY <1>5, <1>7, <4>1, <4>2 DEF NotTwice
    <3> QED BY <3>5, <3>6
  <2>5. CASE e \notin stock /\ stock' = stock \cup {e} /\ walk'.came = walk.came \cup {e} /\ walk'.left = walk.left
    <3>1. Foregoing(r) \subseteq Foregoing(r)' /\ (~(Rank(walk.sort, e) < Rank(walk.sort, r)) => Foregoing(r)' = Foregoing(r))
      BY <2>2, <2>5 DEF Foregoing
    <3>2. PlaceOf(r) <= PlaceOf(r)'
      BY <2>2, <3>1, FS_Subset, FS_CardinalityType DEF PlaceOf
    <3>3. Ahead(r, walk.left)' = Ahead(r, walk.left)
      BY <1>5, <2>5 DEF Ahead
    <3>4. (Ahead(r, walk.came) = {})' => Ahead(r, walk.came) = {} /\ PlaceOf(r)' = PlaceOf(r)
      <4>1. Ahead(r, walk.came)' = {x \in walk.came \cup {e} : Rank(walk.sort, x) < Rank(walk.sort, r)}
        BY <1>5, <2>5 DEF Ahead
      <4> QED BY <3>1, <4>1 DEF Ahead, PlaceOf
    <3>5. NotMissed(r)'
      <4> SUFFICES ASSUME (Shares(r) = {})', (Ahead(r, walk.left) = {})', walk.shown[r] = 0 PROVE NotMissed(r)'
        BY <1>5 DEF NotMissed
      <4>1. Shares(r) \cup Ahead(r, walk.left) = {}
        BY <2>3, <3>3
      <4>2. /\ PlaceOf(r) > Skips
            /\ Chosen /\ r \notin ToSet(walk.items) => PlaceOf(r) > Skips + walk.size
            /\ walk.pc = "counting" /\ walk.replicated /\ r \notin ToSet(walk.items) => Cardinality(walk.read) > Skips + walk.size
            /\ walk.pc = "answered" /\ r \notin ToSet(walk.items) => walk.total > Skips + walk.size
        BY <2>1, <4>1 DEF NotMissed
      <4>3. /\ PlaceOf(r)' > Skips
            /\ PlaceOf(r) > Skips + walk.size => PlaceOf(r)' > Skips + walk.size
        BY <1>1, <2>2, <3>2, <4>2, WalkFields
      <4> QED BY <1>1, <1>5, <1>7, <4>2, <4>3 DEF NotMissed
    <3>6. NotTwice(r)'
      <4> SUFFICES ASSUME (Shares(r) = {})', (Ahead(r, walk.came) = {})' PROVE NotTwice(r)'
        BY DEF NotTwice
      <4>1. Shares(r) \cup Ahead(r, walk.came) = {} /\ PlaceOf(r)' = PlaceOf(r)
        BY <2>3, <3>4
      <4> QED BY <1>1, <1>5, <1>7, <2>1, <4>1 DEF NotTwice
    <3> QED BY <3>5, <3>6
  <2> QED BY <1>6, <2>4, <2>5
<1> QED BY <1>8, <1>9, <1>10 DEF WalkInv

\* All documents are ahead of a client that begins.
LEMMA WalksStep == ASSUME WalkInv, Walks PROVE WalkInv'
<1>1. PICK orm \in {"mongoose", "typeorm"}, replicated \in BOOLEAN, joined \in BOOLEAN, sort \in Sort,
          asked \in {Absent, "0", "larger", "one"} :
        Walk(orm, replicated, joined, sort, asked) /\ IsFiniteSet(stock')
        /\ (replicated => orm = "mongoose") /\ (joined => orm = "typeorm")
  BY DEF Walks
<1> DEFINE size == Prepared(asked)
           none == [r \in Record |-> 0]
<1>2. size \in Nat
  BY <1>1, PagesAssumption DEF Prepared
<1>3. none \in [Record -> Nat] /\ \A r \in Record : none[r] = 0
  OBVIOUS
<1>4. /\ stock' \in SUBSET Record
      /\ walk' = [pc |-> "asking", orm |-> orm, replicated |-> replicated, joined |-> joined, sort |-> sort,
                  size |-> size, page |-> 1, read |-> {}, items |-> <<>>, total |-> 0,
                  shown |-> none, first |-> stock', came |-> {}, left |-> {}, torn |-> FALSE]
  BY <1>1 DEF Walk
<1> HIDE DEF size, none
<1>5. walk' \in WalkRecord
  <2>1. <<>> \in Seq(Record) /\ {} \in SUBSET Record /\ FALSE \in BOOLEAN /\ 1 \in Nat \ {0} /\ 0 \in Nat /\ "asking" \in WalkPc
    BY DEF WalkPc
  <2> QED BY <1>2, <1>3, <1>4, <2>1 DEF WalkRecord
<1>6. /\ walk'.pc = "asking" /\ walk'.page = 1 /\ walk'.size = size /\ walk'.shown = none /\ walk'.first = stock'
      /\ walk'.came = {} /\ walk'.left = {} /\ walk'.read = {} /\ walk'.items = <<>>
      /\ walk'.replicated = replicated /\ walk'.joined = joined /\ walk'.sort = sort
  BY <1>4
<1>7. Skips' = 0
  BY <1>2, <1>6 DEF Skips, Skipped
<1>8. WalkTypeOK'
  <2>1. ~(replicated /\ joined)
    BY <1>1
  <2> QED BY <1>1, <1>4, <1>5, <1>6, <2>1, FS_EmptySet DEF WalkTypeOK
<1>9. TotalsFit'
  BY <1>6 DEF TotalsFit
<1>10. ASSUME NEW r \in Staying' PROVE NotMissed(r)' /\ NotTwice(r)'
  <2>1. r \in Record /\ walk'.shown[r] = 0
    BY <1>3, <1>4, <1>6 DEF Staying
  <2>2. PlaceOf(r)' \in Nat /\ PlaceOf(r)' > 0
    <3>1. Foregoing(r)' \subseteq stock' /\ IsFiniteSet(stock')
      BY <1>1 DEF Foregoing
    <3>2. Cardinality(Foregoing(r)') \in Nat
      BY <3>1, FS_Subset, FS_CardinalityType
    <3> QED BY <3>2 DEF PlaceOf
  <2>3. ~Chosen'
    BY <1>6 DEF Chosen
  <2> QED BY <1>6, <1>7, <2>1, <2>2, <2>3 DEF NotMissed, NotTwice
<1> QED BY <1>8, <1>9, <1>10 DEF WalkInv

\* What the invariant speaks of is the documents and the walk.
LEMMA WalkStays == ASSUME WalkInv, stock' = stock, walk' = walk PROVE WalkInv'
<1>1. Ground /\ Skips' = Skips /\ (Chosen' <=> Chosen) /\ (WalkTypeOK' <=> WalkTypeOK)
  BY DEF Ground, Skips, Chosen, WalkTypeOK
<1>2. TotalsFit' <=> TotalsFit
  BY <1>1 DEF TotalsFit, Fits
<1>3. ASSUME NEW r PROVE (NotMissed(r)' <=> NotMissed(r)) /\ (NotTwice(r)' <=> NotTwice(r))
  BY <1>1, OnSameGround DEF NotMissed, NotTwice
<1> QED BY <1>1, <1>2, <1>3, OnSameGround DEF WalkInv

\* At the end no document is ahead of the client any more.
LEMMA WalkInvImplies == ASSUME WalkInv PROVE WalksShowEverything
<1>1. ASSUME walk.pc = "over", NEW r \in walk.first \ walk.left
      PROVE  /\ walk.shown[r] = 0 => Shares(r) \cup Ahead(r, walk.left) # {}
             /\ walk.shown[r] > 1 => Shares(r) \cup Ahead(r, walk.came) # {}
  <2>1. NotMissed(r) /\ NotTwice(r) /\ walk.shown[r] \in Nat
    <3>1. r \in Staying /\ WalkTypeOK /\ walk.pc # "none"
      BY <1>1 DEF Staying, WalkInv
    <3> QED BY <3>1, WalkFields DEF WalkInv
  <2> QED BY <1>1, <2>1 DEF NotMissed, NotTwice
<1>2. ASSUME walk.pc = "answered", walk.torn => walk.replicated PROVE Fits(walk.total)
  BY <1>2 DEF WalkInv, TotalsFit
<1> QED BY <1>1, <1>2 DEF WalksShowEverything, Fits, Skips

(* However the documents change while a client goes through the pages, and however often a query fails, *)
(* each document that stays, is of a rank of its own and has nothing ahead of it deleted is shown, and  *)
(* if nothing is inserted ahead of it only once; the totals of the responses fit their items.           *)
THEOREM WalksAlwaysShowEverything == PagesSpec => []WalksShowEverything
<1>1. PagesInit => WalkInv
  <2> SUFFICES ASSUME PagesInit PROVE WalkInv
    OBVIOUS
  <2>1. walk.pc = "none" /\ stock = {}
    BY DEF PagesInit, NoWalk
  <2> QED BY <2>1, FS_EmptySet DEF WalkInv, WalkTypeOK
<1>2. WalkInv /\ [Walks \/ PagesNext]_pagesVars => WalkInv'
  <2> SUFFICES ASSUME WalkInv, [Walks \/ PagesNext]_pagesVars PROVE WalkInv'
    OBVIOUS
  <2>1. CASE Walks
    BY <2>1, WalksStep
  <2>2. CASE Begin
    BY <2>2, QueryBeginStep
  <2>3. CASE BeginFails
    BY <2>3, WalkStays DEF BeginFails
  <2>4. CASE List
    BY <2>4, ListStep
  <2>5. CASE Find
    BY <2>5, FindStep
  <2>6. CASE Count
    BY <2>6, CountStep
  <2>7. CASE QueryFails
    BY <2>7, QueryFailsStep
  <2>8. CASE Turn
    BY <2>8, TurnStep
  <2>9. CASE Edit
    BY <2>9, EditStep
  <2>10. CASE UNCHANGED pagesVars
    BY <2>10, WalkStays DEF pagesVars
  <2> QED BY <2>1, <2>2, <2>3, <2>4, <2>5, <2>6, <2>7, <2>8, <2>9, <2>10 DEF PagesNext
<1>3. WalkInv => WalksShowEverything
  BY WalkInvImplies
<1> QED BY <1>1, <1>2, <1>3, PTL DEF PagesSpec

-----------------------------------------------------------------------------
(* Bulk *)

BulkItem == [key : Id, content : Content]

Receives ==
  \E orm \in {"mongoose", "typeorm"}, action \in {"create", "update", "delete"}, array \in BOOLEAN, valid \in BOOLEAN,
     items \in Seq(BulkItem), writable \in SUBSET Content, readable \in SUBSET Content,
     initial \in [Id -> {Gone} \cup {{c} : c \in Content}] :
    Receive(orm, action, array, valid, items, writable, readable, initial)

\* One bulk operation, any, while other requests change documents
BulkSpec == BulkInit /\ [][Receives \/ BulkNext]_bulkVars

Working == bulk.pc \in {"finding", "saving", "changed"}

BulkPc == {"refused", "next", "finding", "saving", "changed", "over"}

BulkRecord ==
  [pc : BulkPc, orm : {"mongoose", "typeorm"},
   action : {"create", "update", "delete"}, items : Seq(BulkItem), writable : SUBSET Content, readable : SUBSET Content,
   at : Nat, found : SUBSET Content, answer : Seq([at : Nat, key : Id, document : SUBSET Content]),
   done : SUBSET Nat, failed : SUBSET Nat, initial : [Id -> SUBSET Content]]

\* The rows and the changes by others are there at any time.
RowsTypeOK ==
  /\ rows \in [Id -> SUBSET Content]
  /\ others \in Seq([at : Nat, pc : BulkPc, key : Id, document : SUBSET Content])
  /\ bulk # NoBulk => bulk \in BulkRecord

\* Where the operation is among its items
BulkInOrder ==
  /\ bulk.at \in 0 .. Len(bulk.items)
  /\ Working => bulk.at >= 1
  /\ bulk.pc = "over" => bulk.at = Len(bulk.items)
  /\ bulk.done \subseteq 1 .. bulk.at
  /\ bulk.pc \in {"finding", "saving"} => bulk.at \notin bulk.done
  /\ bulk.pc = "changed" => bulk.at \in bulk.done
  /\ bulk.pc = "finding" => bulk.action # "create"
  /\ bulk.pc \in {"saving", "changed"} /\ bulk.action # "create" => bulk.found # Gone
  /\ \A o \in DOMAIN others : others[o].at <= bulk.at

\* The answer, as far as it goes
AnswerStands ==
  /\ \A a \in DOMAIN bulk.answer :
       LET answer == bulk.answer[a]
       IN /\ answer.at \in bulk.done /\ answer.document # Gone /\ (Working => answer.at < bulk.at)
          /\ bulk.action # "delete" => answer.document = {bulk.items[answer.at].content} \/ Meddled(answer.at)
  /\ \A a \in 1 .. Len(bulk.answer) - 1 : bulk.answer[a].at < bulk.answer[a + 1].at

\* A document is as it was, unless this request or another has changed it.
RowsAreExplained ==
  \A k \in Id : \/ rows[k] = bulk.initial[k]
                \/ \E i \in bulk.done : bulk.items[i].key = k
                \/ \E o \in DOMAIN others : others[o].key = k

\* The item that is worked on
ItemStands ==
  /\ bulk.pc = "saving" /\ bulk.action = "update" => rows[Item.key] # Gone \/ Touched(bulk.at)
  /\ bulk.pc = "changed" /\ bulk.action # "delete" => rows[Item.key] = {Item.content} \/ Meddled(bulk.at)

AnsweredItems == {bulk.answer[a].at : a \in DOMAIN bulk.answer}

AllowedItem(i) ==
  LET before == bulk.initial[bulk.items[i].key]
  IN IF bulk.action = "create" THEN before = Gone ELSE before \cap bulk.writable # Gone

\* Why an item that is over has no part in the answer
DoneIsExplained(i) ==
  \/ i \in bulk.failed
  \/ /\ bulk.orm = "typeorm" /\ bulk.action # "delete"
     /\ Meddled(i) \/ bulk.items[i].content \notin bulk.readable
UndoneIsExplained(i) == i \in bulk.failed \/ ~AllowedItem(i) \/ Repeats(i) \/ Touched(i)

ItemsAreExplained ==
  \A i \in 1 .. bulk.at :
    \/ i = bulk.at /\ Working
    \/ i \in AnsweredItems
    \/ i \in bulk.done /\ DoneIsExplained(i)
    \/ i \notin bulk.done /\ UndoneIsExplained(i)

BulkInv ==
  /\ RowsTypeOK
  /\ bulk # NoBulk => BulkInOrder /\ AnswerStands /\ RowsAreExplained /\ ItemStands /\ ItemsAreExplained
  /\ bulk = NoBulk => others = <<>>

\* What a request came with does not change, and what others have done is not forgotten.
BulkKept ==
  /\ bulk'.orm = bulk.orm /\ bulk'.action = bulk.action /\ bulk'.items = bulk.items
  /\ bulk'.writable = bulk.writable /\ bulk'.readable = bulk.readable /\ bulk'.initial = bulk.initial
  /\ \A o \in DOMAIN others : o \in DOMAIN others' /\ others'[o] = others[o]

\* What explains an item goes on to explain it.
LEMMA ExplanationsLast ==
  ASSUME BulkKept, bulk.failed \subseteq bulk'.failed
  PROVE  \A i : /\ Touched(i) => Touched(i)'
                /\ Meddled(i) => Meddled(i)'
                /\ DoneIsExplained(i) => DoneIsExplained(i)'
                /\ UndoneIsExplained(i) => UndoneIsExplained(i)'
<1>1. \A i : Touched(i) => Touched(i)'
  BY DEF Touched, BulkKept
<1>2. \A i : Meddled(i) => Meddled(i)'
  BY DEF Meddled, BulkKept
<1>3. \A i : Repeats(i)' = Repeats(i) /\ AllowedItem(i)' = AllowedItem(i)
  BY DEF Repeats, AllowedItem, BulkKept
<1> QED BY <1>1, <1>2, <1>3 DEF DoneIsExplained, UndoneIsExplained, BulkKept

\* A step that changes no document and no more than the place of the request and its failures
LEMMA BulkProgress ==
  ASSUME BulkInv, bulk # NoBulk, UNCHANGED <<rows, others>>,
         bulk' \in BulkRecord, BulkKept, bulk'.answer = bulk.answer, bulk'.done = bulk.done,
         bulk.failed \subseteq bulk'.failed, BulkInOrder', ItemStands',
         bulk'.at >= bulk.at, Working' => ~Working,
         \A i \in 1 .. bulk'.at : \/ i < bulk.at
                                  \/ i = bulk.at /\ ~Working
                                  \/ i = bulk'.at /\ Working'
                                  \/ i \in bulk'.done /\ DoneIsExplained(i)'
                                  \/ i \notin bulk'.done /\ UndoneIsExplained(i)',
         Working' => bulk'.at > bulk.at
  PROVE  BulkInv'
<1> USE DEF BulkKept
<1>1. AnswerStands'
  <2>1. \A a \in DOMAIN bulk'.answer : bulk'.answer[a].at \in bulk.done /\ bulk.done \subseteq 1 .. bulk.at
    BY DEF BulkInv, AnswerStands, BulkInOrder
  <2>2. bulk.at \in Nat /\ bulk'.at \in Nat
    BY DEF BulkInv, RowsTypeOK, BulkRecord, BulkPc
  <2>3. \A i : Meddled(i) => Meddled(i)'
    BY ExplanationsLast
  <2> QED BY <2>1, <2>2, <2>3 DEF BulkInv, AnswerStands
<1>2. RowsAreExplained'
  BY DEF BulkInv, RowsAreExplained
<1>3. ItemsAreExplained'
  <2>1. AnsweredItems' = AnsweredItems
    BY DEF AnsweredItems
  <2>2. \A i \in 1 .. bulk'.at : i < bulk.at => i \in 1 .. bulk.at
    BY DEF BulkInv, RowsTypeOK, BulkRecord, BulkPc
  <2> QED BY <2>1, <2>2, ExplanationsLast DEF BulkInv, ItemsAreExplained
<1>4. bulk' # NoBulk /\ RowsTypeOK'
  BY DEF BulkInv, RowsTypeOK, BulkRecord, BulkPc, NoBulk
<1> QED BY <1>1, <1>2, <1>3, <1>4 DEF BulkInv

\* The request comes.
LEMMA BulkReceived == ASSUME BulkInv, Receives PROVE BulkInv'
<1>1. PICK orm \in {"mongoose", "typeorm"}, action \in {"create", "update", "delete"}, array \in BOOLEAN, valid \in BOOLEAN,
           items \in Seq(BulkItem), writable \in SUBSET Content, readable \in SUBSET Content,
           initial \in [Id -> {Gone} \cup {{c} : c \in Content}] :
        Receive(orm, action, array, valid, items, writable, readable, initial)
  BY DEF Receives
<1>2. initial \in [Id -> SUBSET Content]
  BY DEF Gone
<1>3. /\ rows' = initial /\ others' = <<>>
      /\ bulk' \in BulkRecord /\ bulk'.pc \in {"next", "refused"} /\ bulk'.at = 0 /\ bulk'.items = items
      /\ bulk'.done = {} /\ bulk'.answer = <<>> /\ bulk'.initial = initial
  <2>1. bulk'.pc \in {"next", "refused"}
    BY <1>1 DEF Receive
  <2>2. bulk' = [pc |-> bulk'.pc, orm |-> orm, action |-> action,
              items |-> items, writable |-> writable, readable |-> readable, at |-> 0, found |-> Gone,
              answer |-> <<>>, done |-> {}, failed |-> {}, initial |-> initial]
    BY <1>1 DEF Receive
  <2>3. rows' = initial /\ others' = <<>>
    BY <1>1 DEF Receive, BulkInv
  <2>4. bulk' \in BulkRecord
    <3>1. /\ Gone \in SUBSET Content
          /\ <<>> \in Seq([at : Nat, key : Id, document : SUBSET Content])
          /\ {} \in SUBSET Nat /\ 0 \in Nat
      BY DEF Gone
    <3>2. bulk'.pc \in {"refused", "next", "finding", "saving", "changed", "over"}
      BY <2>1
    <3>3. /\ orm \in {"mongoose", "typeorm"} /\ action \in {"create", "update", "delete"}
          /\ items \in Seq(BulkItem) /\ writable \in SUBSET Content /\ readable \in SUBSET Content
      BY <1>1
    <3> DEFINE Answers == Seq([at : Nat, key : Id, document : SUBSET Content])
               Initials == [Id -> SUBSET Content]
               Lists == Seq(BulkItem)
               Some == SUBSET Content
               Places == SUBSET Nat
    <3>4. /\ Gone \in Some /\ <<>> \in Answers /\ {} \in Places /\ initial \in Initials
          /\ items \in Lists /\ writable \in Some /\ readable \in Some
      BY <1>2, <3>1, <3>3
    <3>5. BulkRecord =
            [pc : BulkPc, orm : {"mongoose", "typeorm"},
             action : {"create", "update", "delete"}, items : Lists, writable : Some, readable : Some,
             at : Nat, found : Some, answer : Answers, done : Places, failed : Places, initial : Initials]
      BY DEF BulkRecord, BulkPc
    <3> HIDE DEF Answers, Initials, Lists, Some, Places
    <3>6. PICK pc \in {"next", "refused"} :
            bulk' = [pc |-> pc, orm |-> orm, action |-> action,
              items |-> items, writable |-> writable, readable |-> readable, at |-> 0, found |-> Gone,
              answer |-> <<>>, done |-> {}, failed |-> {}, initial |-> initial]
      BY <2>1, <2>2
    <3>7. 0 \in Nat /\ pc \in BulkPc
      BY DEF BulkPc
    <3>8. orm \in {"mongoose", "typeorm"} /\ action \in {"create", "update", "delete"}
      BY <3>3
    <3> QED BY <3>4, <3>5, <3>6, <3>7, <3>8
  <2>5. /\ bulk'.at = 0 /\ bulk'.items = items /\ bulk'.done = {} /\ bulk'.answer = <<>> /\ bulk'.initial = initial
    BY <2>2
  <2> QED BY <2>1, <2>3, <2>4, <2>5
<1>4. bulk' # NoBulk
  BY <1>3 DEF BulkRecord, BulkPc, NoBulk
<1>5. RowsTypeOK'
  BY <1>2, <1>3 DEF RowsTypeOK
<1>6. BulkInOrder' /\ AnswerStands' /\ RowsAreExplained' /\ ItemStands' /\ ItemsAreExplained'
  BY <1>3 DEF BulkInOrder, AnswerStands, RowsAreExplained, ItemStands, ItemsAreExplained, Working
<1> QED BY <1>4, <1>5, <1>6 DEF BulkInv

\* Every item is about a document, and the answer has its place.
LEMMA ItemsAreTyped ==
  ASSUME BulkInv, bulk # NoBulk, Working
  PROVE  /\ bulk \in BulkRecord /\ bulk.at \in 1 .. Len(bulk.items) /\ bulk.at \in Nat
         /\ Item.key \in Id /\ Item.content \in Content
<1>1. bulk \in BulkRecord /\ bulk.at \in 1 .. Len(bulk.items)
  <2>1. bulk \in BulkRecord /\ bulk.at \in 0 .. Len(bulk.items) /\ bulk.at >= 1
    BY DEF BulkInv, RowsTypeOK, BulkInOrder
  <2>2. Len(bulk.items) \in Nat
    BY <2>1 DEF BulkRecord, BulkPc
  <2> QED BY <2>1, <2>2
<1>2. bulk.items[bulk.at] \in BulkItem
  <2>1. bulk.items \in Seq(BulkItem)
    BY <1>1 DEF BulkRecord, BulkPc
  <2> QED BY <1>1, <2>1
<1> QED BY <1>1, <1>2 DEF BulkItem, Item

\* What the document of the item is now, when nothing has explained it, is what it was.
LEMMA RowsExplainItem ==
  ASSUME BulkInv, bulk # NoBulk, bulk.pc \in {"finding", "saving"}
  PROVE  rows[Item.key] = bulk.initial[Item.key] \/ Repeats(bulk.at) \/ Touched(bulk.at)
<1>1. Working /\ BulkInOrder /\ RowsAreExplained /\ bulk.at \notin bulk.done
  BY DEF Working, BulkInv, BulkInOrder
<1>2. Item.key \in Id /\ bulk.at \in Nat
  BY <1>1, ItemsAreTyped
<1>3. ASSUME NEW i \in bulk.done, bulk.items[i].key = Item.key PROVE Repeats(bulk.at)
  <2>1. i \in 1 .. bulk.at - 1
    BY <1>1, <1>2, <1>3 DEF BulkInOrder
  <2> QED BY <1>3, <2>1 DEF Repeats, Item
<1>4. ASSUME NEW o \in DOMAIN others, others[o].key = Item.key PROVE Touched(bulk.at)
  BY <1>1, <1>4 DEF BulkInOrder, Touched, Item
<1> QED BY <1>1, <1>2, <1>3, <1>4 DEF RowsAreExplained

\* An item that is over without a change or an answer, and why
LEMMA ItemOver ==
  ASSUME BulkInv, bulk # NoBulk, Working, UNCHANGED <<rows, others>>,
         NEW failed \in SUBSET Nat, bulk.failed \subseteq failed, NEW found \in SUBSET Content,
         bulk' = [bulk EXCEPT !.pc = "next", !.found = found, !.failed = failed],
         \/ bulk.at \in failed
         \/ bulk.at \notin bulk.done /\ UndoneIsExplained(bulk.at)
  PROVE  BulkInv'
<1>1. /\ bulk \in BulkRecord /\ bulk.at \in 1 .. Len(bulk.items) /\ bulk.at \in Nat
  BY ItemsAreTyped
<1>2. bulk' \in BulkRecord
  BY <1>1 DEF BulkRecord, BulkPc
<1>3. /\ bulk'.pc = "next" /\ bulk'.at = bulk.at /\ bulk'.done = bulk.done /\ bulk'.failed = failed
      /\ bulk'.answer = bulk.answer /\ bulk'.items = bulk.items /\ bulk'.action = bulk.action
  BY <1>1 DEF BulkRecord, BulkPc
<1>4. BulkKept
  BY <1>1 DEF BulkRecord, BulkPc, BulkKept
<1>5. BulkInOrder' /\ ItemStands' /\ ~Working'
  BY <1>1, <1>3 DEF BulkInv, BulkInOrder, ItemStands, Working
<1>6. \A i \in 1 .. bulk'.at : \/ i < bulk.at
                               \/ i \in bulk'.done /\ DoneIsExplained(i)'
                               \/ i \notin bulk'.done /\ UndoneIsExplained(i)'
  <2> SUFFICES ASSUME NEW i \in 1 .. bulk'.at, ~ i < bulk.at
               PROVE  \/ i \in bulk'.done /\ DoneIsExplained(i)'
                      \/ i \notin bulk'.done /\ UndoneIsExplained(i)'
    OBVIOUS
  <2>1. i = bulk.at
    BY <1>1, <1>3
  <2>2. CASE bulk.at \in failed
    BY <1>3, <2>1, <2>2 DEF DoneIsExplained, UndoneIsExplained
  <2>3. CASE bulk.at \notin bulk.done /\ UndoneIsExplained(bulk.at)
    BY <1>3, <1>4, <2>1, <2>3, ExplanationsLast
  <2> QED BY <2>2, <2>3
<1>7. bulk'.at >= bulk.at
  BY <1>1, <1>3
<1> QED BY <1>2, <1>3, <1>4, <1>5, <1>6, <1>7, BulkProgress

\* The next item, or the end
LEMMA NextItemStep == ASSUME BulkInv, NextItem PROVE BulkInv'
<1>1. bulk # NoBulk /\ bulk.pc = "next" /\ ~Working /\ UNCHANGED <<rows, others>>
  BY DEF NextItem, NoBulk, Working
<1>2. bulk \in BulkRecord /\ bulk.at \in Nat /\ Len(bulk.items) \in Nat /\ BulkInOrder
  BY <1>1 DEF BulkInv, RowsTypeOK, BulkRecord, BulkPc
<1>3. CASE bulk.at = Len(bulk.items)
  <2>1. bulk' = [bulk EXCEPT !.pc = "over"]
    BY <1>3 DEF NextItem
  <2>2. bulk' \in BulkRecord
    BY <1>2, <2>1 DEF BulkRecord, BulkPc
  <2>3. /\ bulk'.pc = "over" /\ bulk'.at = bulk.at /\ bulk'.done = bulk.done /\ bulk'.failed = bulk.failed
        /\ bulk'.answer = bulk.answer /\ bulk'.items = bulk.items /\ bulk'.action = bulk.action
    BY <1>2, <2>1 DEF BulkRecord, BulkPc
  <2>4. BulkKept
    BY <1>1, <1>2, <2>1 DEF BulkRecord, BulkPc, BulkKept
  <2>5. BulkInOrder' /\ ItemStands' /\ ~Working'
    BY <1>1, <1>2, <1>3, <2>3 DEF BulkInOrder, ItemStands, Working
  <2>6. bulk'.at >= bulk.at /\ \A i \in 1 .. bulk'.at : i < bulk.at \/ (i = bulk.at /\ ~Working)
    BY <1>1, <1>2, <2>3
  <2> QED BY <1>1, <2>2, <2>3, <2>4, <2>5, <2>6, BulkProgress
<1>4. CASE bulk.at # Len(bulk.items)
  <2>1. PICK pc : /\ bulk' = [bulk EXCEPT !.at = bulk.at + 1, !.found = Gone, !.pc = pc]
                  /\ pc = IF bulk.action = "create" THEN "saving" ELSE "finding"
    BY <1>4 DEF NextItem
  <2>2. bulk' \in BulkRecord
    <3>1. Gone \in SUBSET Content /\ bulk.at + 1 \in Nat /\ pc \in {"saving", "finding"}
      BY <1>2, <2>1 DEF Gone
    <3> QED BY <1>2, <2>1, <3>1 DEF BulkRecord, BulkPc
  <2>3. /\ bulk'.pc = pc /\ bulk'.at = bulk.at + 1 /\ bulk'.done = bulk.done /\ bulk'.failed = bulk.failed
        /\ bulk'.answer = bulk.answer /\ bulk'.items = bulk.items /\ bulk'.action = bulk.action
    BY <1>2, <2>1 DEF BulkRecord, BulkPc
  <2>4. BulkKept
    BY <1>1, <1>2, <2>1 DEF BulkRecord, BulkPc, BulkKept
  <2>5. BulkInOrder'
    <3>1. bulk.at \in 0 .. Len(bulk.items) /\ bulk.done \subseteq 1 .. bulk.at
      BY <1>2 DEF BulkInOrder
    <3>2. bulk.at + 1 \in 0 .. Len(bulk.items) /\ bulk.at + 1 \notin bulk.done
          /\ bulk.done \subseteq 1 .. bulk.at + 1 /\ bulk.at + 1 >= 1
      BY <1>2, <1>4, <3>1
    <3>3. \A o \in DOMAIN others : others[o].at <= bulk.at + 1
      <4> SUFFICES ASSUME NEW o \in DOMAIN others PROVE others[o].at <= bulk.at + 1
        OBVIOUS
      <4>1. others[o].at \in Nat /\ others[o].at <= bulk.at
        <5> DEFINE Change == [at : Nat, pc : BulkPc, key : Id, document : SUBSET Content]
        <5>1. others \in Seq(Change)
          BY DEF BulkInv, RowsTypeOK
        <5>2. others[o] \in Change
          <6> HIDE DEF Change
          <6> QED BY <5>1
        <5>3. others[o].at <= bulk.at
          BY <1>2 DEF BulkInOrder
        <5> QED BY <5>2, <5>3
      <4> QED BY <1>2, <4>1
    <3> QED BY <1>1, <2>1, <2>3, <3>2, <3>3 DEF BulkInOrder, Working
  <2>6. ItemStands'
    BY <2>1, <2>3 DEF ItemStands
  <2>7. /\ bulk'.at >= bulk.at /\ bulk'.at > bulk.at /\ Working'
        /\ \A i \in 1 .. bulk'.at : i < bulk.at \/ (i = bulk.at /\ ~Working) \/ (i = bulk'.at /\ Working')
    BY <1>1, <1>2, <2>1, <2>3 DEF Working
  <2> QED BY <1>1, <2>2, <2>3, <2>4, <2>5, <2>6, <2>7, BulkProgress
<1> QED BY <1>3, <1>4

\* findResource finds the document, or the item is over.
LEMMA FindItemStep == ASSUME BulkInv, FindItem PROVE BulkInv'
<1>1. bulk # NoBulk /\ bulk.pc = "finding" /\ Working /\ UNCHANGED <<rows, others>>
  BY DEF FindItem, NoBulk, Working
<1>2. /\ bulk \in BulkRecord /\ bulk.at \in 1 .. Len(bulk.items) /\ bulk.at \in Nat /\ Item.key \in Id
  BY <1>1, ItemsAreTyped
<1>3. BulkInOrder /\ bulk.action # "create" /\ bulk.at \notin bulk.done
  BY <1>1 DEF BulkInv, BulkInOrder
<1>4. DEFINE found == rows[Item.key] \cap bulk.writable
<1>5. bulk' = [bulk EXCEPT !.found = found, !.pc = IF found = Gone THEN "next" ELSE "saving"]
  BY DEF FindItem
<1>6. CASE found # Gone
  <2>1. bulk' = [bulk EXCEPT !.found = found, !.pc = "saving"]
    BY <1>5, <1>6
  <2>2. bulk' \in BulkRecord
    <3>1. found \in SUBSET Content
      BY <1>2 DEF BulkRecord, BulkPc
    <3> HIDE DEF found
    <3> QED BY <1>2, <2>1, <3>1 DEF BulkRecord, BulkPc
  <2>3. /\ bulk'.pc = "saving" /\ bulk'.at = bulk.at /\ bulk'.done = bulk.done /\ bulk'.failed = bulk.failed
        /\ bulk'.answer = bulk.answer /\ bulk'.items = bulk.items /\ bulk'.action = bulk.action /\ bulk'.found = found
    BY <1>2, <2>1 DEF BulkRecord, BulkPc
  <2>4. BulkKept
    BY <1>1, <1>2, <2>1 DEF BulkRecord, BulkPc, BulkKept
  <2>5. BulkInOrder'
    BY <1>1, <1>3, <1>6, <2>3 DEF BulkInOrder, Working
  <2>6. rows[Item.key] # Gone
    BY <1>6 DEF Gone
  <2>7. ItemStands'
    BY <1>1, <2>3, <2>6 DEF ItemStands, Item
  <2>8. RowsAreExplained' /\ RowsTypeOK' /\ bulk' # NoBulk
    <3>1. RowsAreExplained'
      BY <1>1, <2>3, <2>4 DEF RowsAreExplained, BulkInv, BulkKept
    <3>2. bulk' # NoBulk
      BY <2>2 DEF NoBulk, BulkRecord, BulkPc
    <3> QED BY <1>1, <2>2, <3>1, <3>2 DEF RowsTypeOK, BulkInv
  <2>9. AnswerStands'
    BY <1>1, <2>3, <2>4, ExplanationsLast DEF AnswerStands, BulkInv, Working
  <2>10. ItemsAreExplained'
    <3>1. AnsweredItems' = AnsweredItems /\ Working'
      BY <2>3 DEF AnsweredItems, Working
    <3> QED BY <2>3, <2>4, <3>1, <1>1, ExplanationsLast DEF ItemsAreExplained, BulkInv
  <2> QED BY <2>5, <2>7, <2>8, <2>9, <2>10 DEF BulkInv
<1>7. CASE found = Gone
  <2>1. bulk' = [bulk EXCEPT !.pc = "next", !.found = Gone, !.failed = bulk.failed]
    <3>1. bulk' = [bulk EXCEPT !.found = Gone, !.pc = "next"]
      BY <1>5, <1>7
    <3> QED BY <1>2, <3>1 DEF BulkRecord, BulkPc
  <2>2. UndoneIsExplained(bulk.at)
    <3>1. CASE rows[Item.key] = bulk.initial[Item.key]
      BY <1>3, <1>7, <3>1 DEF UndoneIsExplained, AllowedItem, Item, Gone
    <3> QED BY <1>1, <3>1, RowsExplainItem DEF UndoneIsExplained
  <2>3. bulk.failed \in SUBSET Nat /\ Gone \in SUBSET Content
    BY <1>2 DEF BulkRecord, BulkPc, Gone
  <2> QED BY <1>1, <1>3, <2>1, <2>2, <2>3, ItemOver
<1> QED BY <1>6, <1>7

\* Something fails.
LEMMA ItemFailsStep == ASSUME BulkInv, ItemFails PROVE BulkInv'
<1>1. bulk # NoBulk /\ Working /\ UNCHANGED <<rows, others>>
  BY DEF ItemFails, NoBulk, Working
<1>2. bulk \in BulkRecord /\ bulk.at \in Nat
  BY <1>1, ItemsAreTyped
<1>3. /\ bulk.failed \cup {bulk.at} \in SUBSET Nat /\ bulk.found \in SUBSET Content
      /\ bulk' = [bulk EXCEPT !.pc = "next", !.found = bulk.found, !.failed = bulk.failed \cup {bulk.at}]
  BY <1>2 DEF ItemFails, BulkRecord, BulkPc
<1> QED BY <1>1, <1>3, ItemOver

\* A step that changes the document of the item to what the item asks for
LEMMA ItemChanged ==
  ASSUME BulkInv, bulk # NoBulk, bulk.pc = "saving", UNCHANGED others, bulk' = Changed,
         NEW resource \in SUBSET Content, rows' = [rows EXCEPT ![Item.key] = resource],
         bulk.action # "delete" => resource = {Item.content}
  PROVE  BulkInv'
<1>1. /\ Working /\ bulk \in BulkRecord /\ bulk.at \in 1 .. Len(bulk.items) /\ bulk.at \in Nat
      /\ Item.key \in Id /\ BulkInOrder /\ bulk.at \notin bulk.done
  BY ItemsAreTyped DEF Working, BulkInv, BulkInOrder
<1>2. bulk' = [bulk EXCEPT !.pc = "changed", !.done = bulk.done \cup {bulk.at}]
  BY DEF Changed
<1>3. bulk' \in BulkRecord
  <2>1. bulk.done \cup {bulk.at} \in SUBSET Nat
    BY <1>1 DEF BulkRecord, BulkPc
  <2> QED BY <1>1, <1>2, <2>1 DEF BulkRecord, BulkPc
<1>4. /\ bulk'.pc = "changed" /\ bulk'.at = bulk.at /\ bulk'.done = bulk.done \cup {bulk.at}
      /\ bulk'.failed = bulk.failed /\ bulk'.found = bulk.found
      /\ bulk'.answer = bulk.answer /\ bulk'.items = bulk.items /\ bulk'.action = bulk.action
      /\ bulk'.initial = bulk.initial
  BY <1>1, <1>2 DEF BulkRecord, BulkPc
<1>5. BulkKept
  BY <1>1, <1>2 DEF BulkRecord, BulkPc, BulkKept
<1>6. rows' \in [Id -> SUBSET Content] /\ rows'[Item.key] = resource
      /\ \A k \in Id : k # Item.key => rows'[k] = rows[k]
  BY <1>1 DEF BulkInv, RowsTypeOK
<1>7. RowsTypeOK' /\ bulk' # NoBulk
  BY <1>3, <1>6 DEF RowsTypeOK, BulkInv, NoBulk, BulkRecord, BulkPc
<1>8. BulkInOrder'
  BY <1>1, <1>4 DEF BulkInOrder, Working
<1>9. AnswerStands'
  BY <1>1, <1>4, <1>5, ExplanationsLast DEF AnswerStands, BulkInv, Working
<1>10. RowsAreExplained'
  BY <1>1, <1>4, <1>6 DEF RowsAreExplained, BulkInv, Item
<1>11. ItemStands'
  BY <1>4, <1>6 DEF ItemStands, Item
<1>12. ItemsAreExplained'
  <2>1. AnsweredItems' = AnsweredItems /\ Working'
    BY <1>4 DEF AnsweredItems, Working
  <2>2. \A i : DoneIsExplained(i) => DoneIsExplained(i)'
    BY <1>4, <1>5, ExplanationsLast
  <2>3. \A i : UndoneIsExplained(i) => UndoneIsExplained(i)'
    BY <1>4, <1>5, ExplanationsLast
  <2>4. ItemsAreExplained
    BY DEF BulkInv
  <2> QED BY <1>4, <2>1, <2>2, <2>3, <2>4 DEF ItemsAreExplained
<1> QED BY <1>7, <1>8, <1>9, <1>10, <1>11, <1>12 DEF BulkInv

\* What an item cannot save, since another is there or it is gone, is over.
LEMMA SavingOver ==
  ASSUME BulkInv, bulk # NoBulk, bulk.pc = "saving", UNCHANGED <<rows, others>>,
         bulk' = [bulk EXCEPT !.pc = "next"],
         \/ bulk.action = "create" /\ rows[Item.key] # Gone
         \/ bulk.action = "update" /\ rows[Item.key] = Gone
  PROVE  BulkInv'
<1>1. /\ Working /\ bulk \in BulkRecord /\ bulk.at \notin bulk.done /\ ItemStands
  BY ItemsAreTyped DEF Working, BulkInv, BulkInOrder
<1>2. /\ bulk.failed \in SUBSET Nat /\ bulk.found \in SUBSET Content
      /\ bulk' = [bulk EXCEPT !.pc = "next", !.found = bulk.found, !.failed = bulk.failed]
  BY <1>1 DEF BulkRecord, BulkPc
<1>3. CASE bulk.action = "create" /\ rows[Item.key] # Gone
  <2>1. UndoneIsExplained(bulk.at)
    <3>1. CASE rows[Item.key] = bulk.initial[Item.key]
      BY <1>3, <3>1 DEF UndoneIsExplained, AllowedItem, Item
    <3> QED BY <3>1, RowsExplainItem DEF UndoneIsExplained
  <2> QED BY <1>1, <1>2, <2>1, ItemOver
<1>4. CASE bulk.action = "update" /\ rows[Item.key] = Gone
  <2>1. UndoneIsExplained(bulk.at)
    BY <1>1, <1>4 DEF ItemStands, UndoneIsExplained
  <2> QED BY <1>1, <1>2, <2>1, ItemOver
<1> QED BY <1>3, <1>4

\* What is done to the document of an item
LEMMA SavingStep == ASSUME BulkInv, CreateItem \/ UpdateItem \/ DeleteItem PROVE BulkInv'
<1>1. bulk # NoBulk /\ bulk.pc = "saving" /\ Working /\ UNCHANGED others
  BY DEF CreateItem, UpdateItem, DeleteItem, NoBulk, Working
<1>2. {Item.content} \in SUBSET Content /\ Gone \in SUBSET Content
  BY <1>1, ItemsAreTyped DEF Gone
<1>3. CASE CreateItem
  <2>1. CASE rows[Item.key] # Gone
    BY <1>1, <1>3, <2>1, SavingOver DEF CreateItem
  <2>2. CASE rows[Item.key] = Gone
    BY <1>1, <1>2, <1>3, <2>2, ItemChanged DEF CreateItem
  <2> QED BY <2>1, <2>2
<1>4. CASE UpdateItem
  <2>1. CASE rows[Item.key] = Gone /\ bulk.orm = "mongoose"
    BY <1>1, <1>4, <2>1, SavingOver DEF UpdateItem
  <2>2. CASE ~(rows[Item.key] = Gone /\ bulk.orm = "mongoose")
    BY <1>1, <1>2, <1>4, <2>2, ItemChanged DEF UpdateItem
  <2> QED BY <2>1, <2>2
<1>5. CASE DeleteItem
  BY <1>1, <1>2, <1>5, ItemChanged DEF DeleteItem
<1> QED BY <1>3, <1>4, <1>5

\* The answer, with the document of the item or without one
LEMMA ReplyStep == ASSUME BulkInv, Reply PROVE BulkInv'
<1>1. bulk # NoBulk /\ bulk.pc = "changed" /\ Working /\ UNCHANGED <<rows, others>>
  BY DEF Reply, NoBulk, Working
<1>2. /\ bulk \in BulkRecord /\ bulk.at \in 1 .. Len(bulk.items) /\ bulk.at \in Nat
      /\ Item.key \in Id /\ Item.content \in Content
  BY <1>1, ItemsAreTyped
<1>3. BulkInOrder /\ ItemStands /\ AnswerStands /\ RowsAreExplained /\ ItemsAreExplained /\ bulk.at \in bulk.done
  BY <1>1 DEF BulkInv, BulkInOrder
<1>4. PICK resource : /\ resource = CASE bulk.action = "delete"                          -> bulk.found
                                      [] bulk.action # "delete" /\ bulk.orm = "mongoose" -> {Item.content}
                                      [] OTHER                                           -> rows[Item.key] \cap bulk.readable
                      /\ bulk' = [bulk EXCEPT !.pc = "next",
                                              !.answer = IF resource = Gone THEN bulk.answer
                                                         ELSE Append(bulk.answer, Answered(resource))]
  BY DEF Reply
<1>5. resource \in SUBSET Content
  BY <1>2, <1>4 DEF BulkInv, RowsTypeOK, BulkRecord, BulkPc
<1>6. bulk.action # "delete" /\ resource # Gone => resource = {Item.content} \/ Meddled(bulk.at)
  BY <1>1, <1>3, <1>4 DEF ItemStands, Gone
<1>7. resource = Gone => DoneIsExplained(bulk.at)
  <2> SUFFICES ASSUME resource = Gone PROVE DoneIsExplained(bulk.at)
    OBVIOUS
  <2>1. bulk.action # "delete"
    BY <1>1, <1>3, <1>4 DEF BulkInOrder
  <2>2. bulk.orm = "typeorm"
    BY <1>2, <1>4, <2>1 DEF BulkRecord, BulkPc, Gone
  <2>3. rows[Item.key] \cap bulk.readable = Gone
    BY <1>4, <2>1, <2>2
  <2>4. Meddled(bulk.at) \/ Item.content \notin bulk.readable
    BY <1>1, <1>3, <2>1, <2>3 DEF ItemStands, Gone
  <2> QED BY <2>1, <2>2, <2>4 DEF DoneIsExplained, Item
<1>8. PICK answer : /\ bulk' = [bulk EXCEPT !.pc = "next", !.answer = answer]
                    /\ answer = IF resource = Gone THEN bulk.answer ELSE Append(bulk.answer, Answered(resource))
  BY <1>4
<1> DEFINE Part == [at : Nat, key : Id, document : SUBSET Content]
<1>9. Answered(resource) \in Part
  BY <1>2, <1>5 DEF Answered
<1>10. bulk.answer \in Seq(Part)
  BY <1>2 DEF BulkRecord, BulkPc
<1>11. /\ DOMAIN bulk.answer = 1 .. Len(bulk.answer) /\ Len(bulk.answer) \in Nat
       /\ DOMAIN answer = 1 .. Len(answer) /\ Len(answer) \in Nat
       /\ \A a \in 1 .. Len(bulk.answer) : answer[a] = bulk.answer[a]
       /\ resource = Gone => answer = bulk.answer
       /\ resource # Gone => /\ Len(answer) = Len(bulk.answer) + 1
                             /\ answer[Len(answer)] = Answered(resource)
  <2> HIDE DEF Part
  <2> QED BY <1>8, <1>9, <1>10
<1>12. bulk' \in BulkRecord
  <2>1. answer \in Seq(Part)
    <3> HIDE DEF Part
    <3> QED BY <1>8, <1>9, <1>10
  <2> QED BY <1>2, <1>8, <2>1 DEF BulkRecord, BulkPc
<1>13. /\ bulk'.pc = "next" /\ bulk'.at = bulk.at /\ bulk'.done = bulk.done
       /\ bulk'.failed = bulk.failed /\ bulk'.found = bulk.found /\ bulk'.answer = answer
       /\ bulk'.items = bulk.items /\ bulk'.action = bulk.action /\ ~Working'
  BY <1>2, <1>8 DEF BulkRecord, BulkPc, Working
<1>14. BulkKept
  BY <1>1, <1>2, <1>8 DEF BulkRecord, BulkPc, BulkKept
<1>15. RowsTypeOK' /\ bulk' # NoBulk
  BY <1>1, <1>12 DEF RowsTypeOK, BulkInv, NoBulk, BulkRecord, BulkPc
<1>16. BulkInOrder' /\ ItemStands'
  BY <1>1, <1>3, <1>13 DEF BulkInOrder, ItemStands, Working
<1>17. RowsAreExplained'
  BY <1>1, <1>3, <1>13, <1>14 DEF RowsAreExplained, BulkKept
<1>18. \A a \in DOMAIN bulk.answer : a \in DOMAIN answer /\ answer[a] = bulk.answer[a]
  <2>1. CASE resource = Gone
    BY <1>11, <2>1
  <2>2. CASE resource # Gone
    <3>1. /\ DOMAIN answer = 1 .. Len(bulk.answer) + 1 /\ DOMAIN bulk.answer = 1 .. Len(bulk.answer)
          /\ Len(bulk.answer) \in Nat
      BY <1>11, <2>2
    <3>2. DOMAIN bulk.answer \subseteq DOMAIN answer
      BY <3>1
    <3> QED BY <1>11, <3>2
  <2> QED BY <2>1, <2>2
<1>19. resource # Gone => Len(bulk.answer) + 1 \in DOMAIN answer /\ answer[Len(bulk.answer) + 1] = Answered(resource)
  <2> SUFFICES ASSUME resource # Gone
               PROVE  Len(bulk.answer) + 1 \in DOMAIN answer /\ answer[Len(bulk.answer) + 1] = Answered(resource)
    OBVIOUS
  <2>1. DOMAIN answer = 1 .. Len(bulk.answer) + 1 /\ Len(bulk.answer) \in Nat
    BY <1>11
  <2>2. Len(answer) = Len(bulk.answer) + 1 /\ answer[Len(answer)] = Answered(resource)
    BY <1>11
  <2>3. Len(bulk.answer) + 1 \in 1 .. Len(bulk.answer) + 1
    BY <2>1
  <2> QED BY <2>1, <2>2, <2>3
<1>20. AnswerStands'
  <2>1. \A a \in DOMAIN answer : a \in DOMAIN bulk.answer \/ (resource # Gone /\ a = Len(bulk.answer) + 1)
    <3>1. CASE resource = Gone
      BY <1>11, <3>1
    <3>2. CASE resource # Gone
      <4>1. DOMAIN answer = 1 .. Len(bulk.answer) + 1 /\ DOMAIN bulk.answer = 1 .. Len(bulk.answer) /\ Len(bulk.answer) \in Nat
        BY <1>11, <3>2
      <4> QED BY <3>2, <4>1
    <3> QED BY <3>1, <3>2
  <2>3. Answered(resource).at = bulk.at /\ Answered(resource).document = resource
    BY DEF Answered
  <2>4. ASSUME NEW a \in DOMAIN answer
        PROVE  /\ answer[a].at \in bulk.done /\ answer[a].document # Gone
               /\ bulk.action # "delete" => answer[a].document = {bulk.items[answer[a].at].content} \/ Meddled(answer[a].at)
    <3>1. CASE a \in DOMAIN bulk.answer
      BY <1>3, <1>18, <3>1 DEF AnswerStands
    <3>2. CASE resource # Gone /\ a = Len(bulk.answer) + 1
      BY <1>3, <1>6, <1>19, <2>3, <3>2 DEF Item
    <3> QED BY <2>1, <2>4, <3>1, <3>2
  <2>5. ASSUME NEW a \in 1 .. Len(answer) - 1 PROVE answer[a].at < answer[a + 1].at
    <3>1. CASE resource = Gone
      BY <1>3, <1>11, <2>5, <3>1 DEF AnswerStands
    <3>2. CASE resource # Gone
      <4>1. Len(answer) = Len(bulk.answer) + 1 /\ Len(bulk.answer) \in Nat /\ DOMAIN bulk.answer = 1 .. Len(bulk.answer)
        BY <1>11, <3>2
      <4>2. a \in DOMAIN bulk.answer /\ (a \in 1 .. Len(bulk.answer) - 1 \/ a = Len(bulk.answer))
        BY <2>5, <4>1
      <4>3. CASE a \in 1 .. Len(bulk.answer) - 1
        <5>1. a + 1 \in DOMAIN bulk.answer
          BY <4>1, <4>3
        <5> QED BY <1>3, <1>18, <4>2, <4>3, <5>1 DEF AnswerStands
      <4>4. CASE a = Len(bulk.answer)
        <5>1. answer[a + 1].at = bulk.at
          BY <1>19, <2>3, <3>2, <4>4
        <5>2. answer[a].at < bulk.at
          BY <1>1, <1>3, <1>18, <4>2 DEF AnswerStands
        <5> QED BY <5>1, <5>2
      <4> QED BY <4>2, <4>3, <4>4
    <3> QED BY <3>1, <3>2
  <2>6. \A i : Meddled(i) => Meddled(i)'
    BY <1>13, <1>14, ExplanationsLast
  <2> QED BY <1>13, <2>4, <2>5, <2>6 DEF AnswerStands
<1>21. ItemsAreExplained'
  <2>1. /\ \A i : DoneIsExplained(i) => DoneIsExplained(i)'
        /\ \A i : UndoneIsExplained(i) => UndoneIsExplained(i)'
    BY <1>13, <1>14, ExplanationsLast
  <2>2. AnsweredItems \subseteq AnsweredItems'
    BY <1>13, <1>18 DEF AnsweredItems
  <2>3. resource # Gone => bulk.at \in AnsweredItems'
    <3> SUFFICES ASSUME resource # Gone PROVE bulk.at \in AnsweredItems'
      OBVIOUS
    <3>1. Len(bulk.answer) + 1 \in DOMAIN answer /\ answer[Len(bulk.answer) + 1].at = bulk.at
      BY <1>19 DEF Answered
    <3> QED BY <1>13, <3>1 DEF AnsweredItems
  <2> SUFFICES ASSUME NEW i \in 1 .. bulk.at
               PROVE  \/ i \in AnsweredItems'
                      \/ i \in bulk.done /\ DoneIsExplained(i)'
                      \/ i \notin bulk.done /\ UndoneIsExplained(i)'
    BY <1>13 DEF ItemsAreExplained
  <2>4. CASE i = bulk.at
    BY <1>3, <1>7, <2>1, <2>3, <2>4
  <2>5. CASE i # bulk.at
    BY <1>3, <2>1, <2>2, <2>5 DEF ItemsAreExplained
  <2> QED BY <2>4, <2>5
<1> QED BY <1>15, <1>16, <1>17, <1>20, <1>21 DEF BulkInv

\* Another request changes a document.
LEMMA OtherStep == ASSUME BulkInv, Other PROVE BulkInv'
<1> DEFINE Change == [at : Nat, pc : BulkPc, key : Id, document : SUBSET Content]
<1>1. bulk # NoBulk /\ bulk' = bulk /\ bulk.pc \notin {"refused", "over"}
  BY DEF Other, NoBulk
<1>2. /\ bulk \in BulkRecord /\ bulk.at \in Nat /\ others \in Seq(Change) /\ rows \in [Id -> SUBSET Content]
  BY <1>1 DEF BulkInv, RowsTypeOK, BulkRecord, BulkPc
<1>3. BulkInOrder /\ ItemStands /\ AnswerStands /\ RowsAreExplained /\ ItemsAreExplained
  BY <1>1 DEF BulkInv
<1>4. PICK k \in Id, resource \in {Gone} \cup {{c} : c \in Content} :
        /\ rows' = [rows EXCEPT ![k] = resource]
        /\ others' = Append(others, [at |-> bulk.at, pc |-> bulk.pc, key |-> k, document |-> resource])
  BY DEF Other
<1> DEFINE change == [at |-> bulk.at, pc |-> bulk.pc, key |-> k, document |-> resource]
<1>5. resource \in SUBSET Content
  BY DEF Gone
<1>6. change \in Change /\ change.at = bulk.at /\ change.pc = bulk.pc /\ change.key = k
  <2>1. bulk.pc \in BulkPc
    BY <1>2 DEF BulkRecord, BulkPc
  <2> QED BY <1>2, <1>5, <2>1
<1>7. /\ others' \in Seq(Change) /\ DOMAIN others = 1 .. Len(others) /\ DOMAIN others' = 1 .. Len(others) + 1
      /\ Len(others) \in Nat
      /\ \A o \in DOMAIN others : others'[o] = others[o]
      /\ others'[Len(others) + 1] = change
  <2>1. others' = Append(others, change)
    BY <1>4
  <2> HIDE DEF Change, change
  <2> QED BY <1>2, <1>6, <2>1
<1>8. BulkKept
  BY <1>1, <1>7 DEF BulkKept
<1>9. rows' \in [Id -> SUBSET Content] /\ \A j \in Id : j # k => rows'[j] = rows[j]
  BY <1>2, <1>4, <1>5
<1>10. RowsTypeOK'
  BY <1>1, <1>2, <1>7, <1>9 DEF RowsTypeOK
<1>11. \A i : /\ Touched(i) => Touched(i)'
              /\ Meddled(i) => Meddled(i)'
              /\ DoneIsExplained(i) => DoneIsExplained(i)'
              /\ UndoneIsExplained(i) => UndoneIsExplained(i)'
  BY <1>1, <1>8, ExplanationsLast
<1>12. BulkInOrder'
  <2>1. \A o \in DOMAIN others' : others'[o].at <= bulk.at
    <3> SUFFICES ASSUME NEW o \in DOMAIN others' PROVE others'[o].at <= bulk.at
      OBVIOUS
    <3>1. CASE o \in DOMAIN others
      BY <1>3, <1>7, <3>1 DEF BulkInOrder
    <3>2. CASE o = Len(others) + 1
      BY <1>2, <1>6, <1>7, <3>2
    <3> QED BY <1>7, <3>1, <3>2
  <2> QED BY <1>1, <1>3, <2>1 DEF BulkInOrder, Working
<1>13. AnswerStands'
  BY <1>1, <1>3, <1>11 DEF AnswerStands, Working
<1>14. RowsAreExplained'
  <2>1. Len(others) + 1 \in DOMAIN others' /\ others'[Len(others) + 1].key = k
    BY <1>6, <1>7
  <2> QED BY <1>1, <1>3, <1>7, <1>9, <2>1 DEF RowsAreExplained
<1>15. ItemStands'
  <2>1. CASE Item.key = k
    <3>1. Len(others) + 1 \in DOMAIN others' /\ others'[Len(others) + 1].key = k
          /\ others'[Len(others) + 1].at = bulk.at /\ others'[Len(others) + 1].pc = bulk.pc
      BY <1>6, <1>7
    <3>2. Touched(bulk.at)'
      BY <1>1, <1>2, <2>1, <3>1 DEF Touched, Item
    <3>3. bulk.pc # "next" => Meddled(bulk.at)'
      BY <1>1, <2>1, <3>1 DEF Meddled, Item
    <3> QED BY <1>1, <3>2, <3>3 DEF ItemStands
  <2>2. CASE Item.key # k
    <3>1. Item' = Item
      BY <1>1 DEF Item
    <3>2. bulk.pc \in {"saving", "changed"} => rows'[Item.key] = rows[Item.key]
      BY <1>1, <1>9, <2>2, ItemsAreTyped DEF Working
    <3> QED BY <1>1, <1>3, <1>11, <3>1, <3>2 DEF ItemStands
  <2> QED BY <2>1, <2>2
<1>16. ItemsAreExplained'
  <2>1. AnsweredItems' = AnsweredItems /\ Working' = Working
    BY <1>1 DEF AnsweredItems, Working
  <2> QED BY <1>1, <1>3, <1>11, <2>1 DEF ItemsAreExplained
<1> QED BY <1>1, <1>10, <1>12, <1>13, <1>14, <1>15, <1>16 DEF BulkInv

\* The inductive invariant explains every answer.
LEMMA BulkInvHolds == BulkInv => BulkAnswersAreExplained
<1> SUFFICES ASSUME BulkInv, bulk.pc = "over" PROVE BulkAnswersAreExplained
  BY DEF BulkAnswersAreExplained
<1>1. /\ bulk # NoBulk /\ BulkInOrder /\ AnswerStands /\ ItemsAreExplained /\ ~Working
      /\ bulk \in BulkRecord
  BY DEF BulkInv, RowsTypeOK, NoBulk, Working
<1>2. bulk.at = Len(bulk.items) /\ DOMAIN bulk.items = 1 .. bulk.at /\ bulk.done \subseteq 1 .. bulk.at
  BY <1>1 DEF BulkInOrder, BulkRecord, BulkPc
<1>3. \A i \in 1 .. bulk.at : \/ i \in AnsweredItems
                              \/ i \in bulk.done /\ DoneIsExplained(i)
                              \/ i \notin bulk.done /\ UndoneIsExplained(i)
  BY <1>1 DEF ItemsAreExplained
<1>4. \A i \in bulk.done \ AnsweredItems : DoneIsExplained(i)
  BY <1>2, <1>3
<1>5. \A i \in AnsweredItems : i \in bulk.done
  BY <1>1 DEF AnswerStands, AnsweredItems
<1>6. \A i \in DOMAIN bulk.items \ bulk.done : UndoneIsExplained(i)
  BY <1>2, <1>3, <1>5
<1> QED BY <1>1, <1>4, <1>6
        DEF BulkAnswersAreExplained, AnswerStands, AnsweredItems, DoneIsExplained, UndoneIsExplained, AllowedItem

(* Whatever a bulk operation is about, whatever the policy lets through and whatever fails or is changed by   *)
(* other requests meanwhile, the answer has the documents of the items that were done, in their order, and    *)
(* what it leaves out is explained (createBulk, updateBulk and deleteBulk of both resource services).         *)
THEOREM BulkExplained == BulkSpec => []BulkAnswersAreExplained
<1>1. BulkInit => BulkInv
  <2> SUFFICES ASSUME BulkInit PROVE BulkInv
    OBVIOUS
  <2>1. rows \in [Id -> SUBSET Content] /\ others = <<>> /\ bulk = NoBulk
    BY DEF BulkInit, Gone
  <2> QED BY <2>1 DEF BulkInv, RowsTypeOK
<1>2. ASSUME BulkInv, Receives \/ BulkNext PROVE BulkInv'
  BY <1>2, BulkReceived, NextItemStep, FindItemStep, SavingStep, ItemFailsStep, ReplyStep, OtherStep DEF BulkNext
<1>3. BulkInv /\ UNCHANGED bulkVars => BulkInv'
  <2> SUFFICES ASSUME BulkInv, UNCHANGED bulkVars PROVE BulkInv'
    OBVIOUS
  <2>1. UNCHANGED <<rows, bulk, others>>
    BY DEF bulkVars
  <2>2. RowsTypeOK' = RowsTypeOK /\ BulkInOrder' = BulkInOrder /\ AnswerStands' = AnswerStands
        /\ RowsAreExplained' = RowsAreExplained /\ ItemStands' = ItemStands
    BY <2>1 DEF RowsTypeOK, BulkInOrder, Working, AnswerStands, Meddled, RowsAreExplained, ItemStands, Item, Touched
  <2>3. ItemsAreExplained' = ItemsAreExplained
    BY <2>1 DEF ItemsAreExplained, Working, AnsweredItems, DoneIsExplained, UndoneIsExplained, Meddled, AllowedItem, Repeats, Touched
  <2> QED BY <2>1, <2>2, <2>3 DEF BulkInv
<1>4. BulkInv /\ [Receives \/ BulkNext]_bulkVars => BulkInv'
  BY <1>2, <1>3
<1> QED BY <1>1, <1>4, BulkInvHolds, PTL DEF BulkSpec

-----------------------------------------------------------------------------
(* Directories *)

CONSTANT Word \* what the patterns of names are put together of, and what they are given for it

Letter == Word \cup Caller
Dir == Seq(Letter)
Name == [dir : Dir, file : Dir]

Patterns ==
  [dirPattern : Seq(Word), namePattern : Seq(Word),
   props : [dirname : Seq(Word) \cup {Default}, filename : Seq(Word) \cup {Default}]]

\* The names of files that are there from the beginning bear the uuid of no call to come.
Earlier == [dir : Seq(Word), file : Seq(Word \ Caller)]

\* Calls over any patterns and any files; what is deleted is known by its metadata (deleteFile).
DirectoriesNext ==
  \/ \E patterns \in Patterns, stored \in SUBSET Earlier : Arrange(patterns, stored)
  \/ /\ layout # NoLayout
     /\ \E c \in Caller :
          \/ \E original \in Word, field \in Word : StoreFile(c, original, [field |-> field])
          \/ \E name \in DOMAIN recorded : DeleteFile(c, name)
          \/ DirectoriesStep(c)

DirectoriesSpec == DirectoriesInit /\ [][DirectoriesNext]_directoriesVars

\* A directory, and those above it
Path(dir) == {<<>>} \cup Above(dir)

Listings == UNION {[D -> {"called", "waiting", "empty"}] : D \in SUBSET Dir}

CallState ==
  [pc : {"idle", "storing", "writing", "saving", "deleting", "sweeping", "forgetting", "over"},
   name : Name, walks : Listings, probes : SUBSET Name,
   met : SUBSET {"mkdir", "write", "unlink", "rmdir"},
   end : {"none", "stored", "thrown", "failed", "kept", "deleted"}]

DirectoriesTypeOK ==
  /\ layout \in Patterns \cup {NoLayout}
  /\ dirs \subseteq Dir
  /\ DOMAIN content \subseteq Name /\ DOMAIN recorded \subseteq Name
  /\ caller \in [Caller -> CallState]

\* A directory is in one that is there.
DirsFormTree == \A d \in dirs : d # <<>> /\ Above(d) \subseteq dirs

\* What a call has at its step.  A sweep that nothing has ended has the directories above each that it
\* looks at, looks at files of directories that wait, and has nothing below a directory that does not.
InOrderOfCall(q) ==
  /\ q.pc \notin {"sweeping", "over"} => DOMAIN q.walks = {} /\ q.probes = {}
  /\ q.pc = "sweeping" <=> <<>> \in DOMAIN q.walks
  /\ q.pc = "over" <=> q.end # "none"
  /\ q.pc = "over" /\ (DOMAIN q.walks # {} \/ q.probes # {}) => q.end = "kept" /\ q.met # {}

SweepInOrder(q) ==
  q.pc = "sweeping" =>
    /\ \A d \in DOMAIN q.walks : Path(d) \subseteq DOMAIN q.walks
    /\ \A name \in q.probes : name.dir \in DOMAIN q.walks /\ q.walks[name.dir] = "waiting"
    /\ \A d, e \in DOMAIN q.walks : d \in Path(e) /\ d # e => q.walks[d] = "waiting"
    /\ q.walks[<<>>] # "empty"

\* A sweep that has met no other call finds everything as it has been listed.
SweepIsCalm(q) ==
  q.pc = "sweeping" /\ q.met = {} =>
    /\ \A d \in DOMAIN q.walks : d = <<>> \/ d \in dirs
    /\ \A d \in DOMAIN q.walks : q.walks[d] = "empty" => IsEmpty(d)
    /\ q.probes \subseteq DOMAIN content

\* Another call has the name of c.
Shared(c) == \E p \in Caller \ {c} : caller[p].pc # "idle" /\ caller[p].name = caller[c].name

\* Why a call fails
FailuresAreMet(c) ==
  LET q == caller[c] IN
  /\ q.pc = "writing" => q.name.dir \in dirs \cup {<<>>} \/ "rmdir" \in q.met
  /\ q.end = "failed" => "rmdir" \in q.met
  /\ q.pc = "deleting" => q.name \in DOMAIN content \/ q.met # {} \/ Shared(c)
  /\ q.end = "kept" => q.met # {} \/ Shared(c)

Effective == IF layout.props.filename = Default THEN layout.namePattern ELSE layout.props.filename

\* The uuid of call c is in the name.
Signed(name, c) ==
  \A i \in DOMAIN Effective : Effective[i] = "uuid" => i \in DOMAIN name.file /\ name.file[i] = c

\* A pattern with a uuid gives each call a name that nobody else has heard of before it has saved the
\* metadata.
NamesAreNew ==
  layout # NoLayout /\ Unique =>
    /\ \A c \in Caller : Stores(c) => Signed(caller[c].name, c)
    /\ \A c \in Caller : caller[c].end # "stored" =>
         /\ \A name \in DOMAIN recorded : ~Signed(name, c)
         /\ \A p \in Caller : caller[p].pc # "idle" /\ ~Stores(p) => ~Signed(caller[p].name, c)
    /\ \A c \in Caller : caller[c].pc = "saving" =>
         caller[c].name \in DOMAIN content /\ content[caller[c].name] = c

NothingBefore == layout = NoLayout => dirs = {} /\ DOMAIN recorded = {} /\ \A c \in Caller : caller[c].pc = "idle"

\* The call has deleted the file of the name, or written it as well.
Excuses(c, name) ==
  \/ c \in Deleting(name)
  \/ caller[c].name = name /\ (Unanswered(c) \/ (~Unique /\ Stores(c)))

Intact(name) == name \in DOMAIN content /\ content[name] = recorded[name]

RecordedNamesStand == \A name \in DOMAIN recorded : Intact(name) \/ \E c \in Caller : Excuses(c, name)

\* There is a file in the directory, or below it.
HasFiles(d) == \E name \in DOMAIN content : d \in Path(name.dir)

\* Call c is about to write into the directory, or below it, and may.
Fills(c, d) ==
  LET q == caller[c] IN q.pc = "writing" /\ q.name.dir \in dirs \cup {<<>>} /\ d \in Path(q.name.dir)

\* The sweep of call c is at the directory, or has yet to list one above it.
Sweeps(c, d) ==
  LET q == caller[c] IN
  /\ q.pc = "sweeping"
  /\ d \in DOMAIN q.walks \/ \E e \in DOMAIN q.walks : e \in Path(d) /\ q.walks[e] = "called"

\* Somebody takes care of each directory without files.
LookedAfter(d) == HasFiles(d) \/ \E c \in Caller : Fills(c, d) \/ Sweeps(c, d)

EmptyDirsAreLookedAfter == (\E c \in Caller : Unanswered(c)) \/ \A d \in dirs : LookedAfter(d)

CallsInOrder == \A c \in Caller : InOrderOfCall(caller[c]) /\ SweepInOrder(caller[c]) /\ SweepIsCalm(caller[c])

DirectoriesInv ==
  /\ DirectoriesTypeOK /\ NothingBefore /\ DirsFormTree /\ CallsInOrder
  /\ \A c \in Caller : FailuresAreMet(c)
  /\ NamesAreNew /\ RecordedNamesStand /\ EmptyDirsAreLookedAfter

-----------------------------------------------------------------------------
(* Paths *)

\* A path consists of the beginnings of a directory.
LEMMA PathIsBeginnings ==
  ASSUME NEW d \in Dir, NEW e
  PROVE  e \in Path(d) <=> e \in Dir /\ Len(e) <= Len(d) /\ \A i \in 1 .. Len(e) : e[i] = d[i]
<1>1. Len(d) \in Nat /\ \A i \in 1 .. Len(d) : d[i] \in Letter
  BY ElementOfSeq DEF Dir
<1>2. ASSUME NEW n \in 1 .. Len(d)
      PROVE  SubSeq(d, 1, n) \in Dir /\ Len(SubSeq(d, 1, n)) = n /\ \A i \in 1 .. n : SubSeq(d, 1, n)[i] = d[i]
  <2>1. \A i \in 1 .. n : d[i] \in Letter
    BY <1>1
  <2>2. /\ SubSeq(d, 1, n) \in Seq(Letter)
        /\ Len(SubSeq(d, 1, n)) = IF 1 <= n THEN n - 1 + 1 ELSE 0
        /\ \A i \in 1 .. n - 1 + 1 : SubSeq(d, 1, n)[i] = d[1 + i - 1]
    BY <2>1, SubSeqProperties DEF Dir
  <2> QED BY <2>2, <1>1 DEF Dir
<1>3. <<>> \in Dir /\ Len(<<>>) = 0
  BY EmptySeq DEF Dir
<1>4. ASSUME e \in Path(d)
      PROVE  e \in Dir /\ Len(e) <= Len(d) /\ \A i \in 1 .. Len(e) : e[i] = d[i]
  <2>1. CASE e = <<>>
    BY <1>1, <1>3, <2>1
  <2>2. CASE e \in Above(d)
    <3>1. PICK n \in 1 .. Len(d) : e = SubSeq(d, 1, n)
      BY <2>2 DEF Above
    <3>2. e \in Dir /\ Len(e) = n /\ \A i \in 1 .. n : e[i] = d[i]
      BY <1>2, <3>1
    <3> QED BY <1>1, <3>2
  <2> QED BY <1>4, <2>1, <2>2 DEF Path
<1>5. ASSUME e \in Dir, Len(e) <= Len(d), \A i \in 1 .. Len(e) : e[i] = d[i]
      PROVE  e \in Path(d)
  <2>1. CASE e = <<>>
    BY <2>1 DEF Path
  <2>2. CASE e # <<>>
    <3>1. Len(e) \in 1 .. Len(d)
      BY <1>1, <1>5, <2>2, EmptySeq DEF Dir
    <3>2. e = SubSeq(d, 1, Len(e))
      BY <1>2, <1>5, <3>1, SeqEqual DEF Dir
    <3> QED BY <3>1, <3>2 DEF Path, Above
  <2> QED BY <2>1, <2>2
<1> QED BY <1>4, <1>5

\* Directories form a tree under their paths.
LEMMA Paths ==
  ASSUME NEW d \in Dir
  PROVE  /\ <<>> \in Dir /\ Path(<<>>) = {<<>>}
         /\ Path(d) \subseteq Dir /\ <<>> \in Path(d) /\ d \in Path(d)
         /\ <<>> \notin Above(d) /\ Above(d) \subseteq Path(d) /\ Path(d) \ {<<>>} \subseteq Above(d)
         /\ \A e \in Path(d) : Path(e) \subseteq Path(d)
         /\ \A e \in Path(d) : d \in Path(e) => e = d
         /\ \A e, f \in Path(d) : e \in Path(f) \/ f \in Path(e)
<1>0. <<>> \in Dir /\ Len(<<>>) = 0
  BY EmptySeq DEF Dir
<1>1. Path(<<>>) = {<<>>}
  BY <1>0 DEF Path, Above
<1>2. Len(d) \in Nat /\ \A e \in Dir : Len(e) \in Nat
  BY DEF Dir
<1>3. Path(d) \subseteq Dir /\ <<>> \in Path(d) /\ d \in Path(d)
  BY <1>0, <1>2, PathIsBeginnings DEF Path
<1>4. <<>> \notin Above(d) /\ Above(d) \subseteq Path(d) /\ Path(d) \ {<<>>} \subseteq Above(d)
  <2>1. ASSUME NEW n \in 1 .. Len(d) PROVE SubSeq(d, 1, n) # <<>>
    <3>1. \A i \in 1 .. n : d[i] \in Letter
      BY ElementOfSeq, <1>2 DEF Dir
    <3>2. Len(SubSeq(d, 1, n)) = IF 1 <= n THEN n - 1 + 1 ELSE 0
      BY <3>1, SubSeqProperties
    <3> QED BY <1>0, <1>2, <3>2
  <2> QED BY <2>1 DEF Path, Above
<1>5. ASSUME NEW e \in Path(d) PROVE Path(e) \subseteq Path(d)
  BY <1>2, <1>3, PathIsBeginnings
<1>6. ASSUME NEW e \in Path(d), d \in Path(e) PROVE e = d
  BY <1>2, <1>3, <1>6, PathIsBeginnings, SeqEqual DEF Dir
<1>7. ASSUME NEW e \in Path(d), NEW f \in Path(d) PROVE e \in Path(f) \/ f \in Path(e)
  <2>1. /\ e \in Dir /\ f \in Dir /\ Len(e) \in Nat /\ Len(f) \in Nat
        /\ Len(e) <= Len(d) /\ Len(f) <= Len(d)
        /\ \A i \in 1 .. Len(e) : e[i] = d[i]
        /\ \A i \in 1 .. Len(f) : f[i] = d[i]
    BY <1>2, <1>3, PathIsBeginnings
  <2>2. CASE Len(e) <= Len(f)
    BY <1>2, <2>1, <2>2, PathIsBeginnings
  <2>3. CASE Len(f) <= Len(e)
    BY <1>2, <2>1, <2>3, PathIsBeginnings
  <2> QED BY <2>1, <2>2, <2>3
<1> QED BY <1>0, <1>1, <1>3, <1>4, <1>5, <1>6, <1>7

\* The directory of a directory is the last on its path.
LEMMA Fronts ==
  ASSUME NEW d \in Dir, d # <<>>
  PROVE  /\ Front(d) \in Path(d) /\ Front(d) # d
         /\ \A e \in Path(d) : e # d => e \in Path(Front(d))
<1>1. Len(d) \in Nat \ {0} /\ \A i \in 1 .. Len(d) : d[i] \in Letter
  BY EmptySeq, ElementOfSeq DEF Dir
<1>2. /\ Front(d) \in Seq(Letter)
      /\ Len(Front(d)) = IF 1 <= Len(d) - 1 THEN (Len(d) - 1) - 1 + 1 ELSE 0
      /\ \A i \in 1 .. (Len(d) - 1) - 1 + 1 : Front(d)[i] = d[1 + i - 1]
  <2>1. \A i \in 1 .. Len(d) - 1 : d[i] \in Letter
    BY <1>1
  <2>2. Len(d) - 1 \in Int
    BY <1>1
  <2> QED BY <2>1, <2>2, SubSeqProperties DEF Front
<1>3. Front(d) \in Dir /\ Len(Front(d)) = Len(d) - 1 /\ \A i \in 1 .. Len(d) - 1 : Front(d)[i] = d[i]
  <2>1. Front(d) \in Dir
    BY <1>2 DEF Dir
  <2>2. Len(Front(d)) = Len(d) - 1
    <3>1. Len(d) \in Nat \ {0}
      BY <1>1
    <3>2. (IF 1 <= Len(d) - 1 THEN (Len(d) - 1) - 1 + 1 ELSE 0) = Len(d) - 1
      BY <3>1
    <3> QED BY <1>2, <3>2
  <2>3. ASSUME NEW i \in 1 .. Len(d) - 1 PROVE Front(d)[i] = d[i]
    <3>1. i \in 1 .. (Len(d) - 1) - 1 + 1 /\ 1 + i - 1 = i
      BY <1>1
    <3> QED BY <1>2, <3>1
  <2> QED BY <2>1, <2>2, <2>3
<1>4. Front(d) \in Path(d) /\ Front(d) # d
  BY <1>1, <1>3, PathIsBeginnings
<1>5. ASSUME NEW e \in Path(d), e # d PROVE e \in Path(Front(d))
  <2>1. e \in Dir /\ Len(e) \in Nat /\ Len(e) <= Len(d) /\ \A i \in 1 .. Len(e) : e[i] = d[i]
    BY PathIsBeginnings DEF Dir
  <2>2. Len(e) # Len(d)
    BY <1>5, <2>1, SeqEqual DEF Dir
  <2> QED BY <1>1, <1>3, <2>1, <2>2, PathIsBeginnings
<1> QED BY <1>4, <1>5

\* On the path from one directory to another below it there is a step down.
LEMMA StepDown ==
  ASSUME NEW d \in Dir, NEW e \in Path(d), e # d
  PROVE  \E f \in Path(d) : f # <<>> /\ f # e /\ Front(f) = e
<1>1. /\ e \in Dir /\ Len(e) \in Nat /\ Len(d) \in Nat /\ Len(e) <= Len(d)
      /\ \A i \in 1 .. Len(e) : e[i] = d[i]
  BY PathIsBeginnings DEF Dir
<1>2. Len(e) < Len(d)
  <2>1. Len(e) # Len(d)
    BY <1>1, SeqEqual DEF Dir
  <2> QED BY <1>1, <2>1
<1> DEFINE n == Len(e) + 1
           f == SubSeq(d, 1, n)
<1>3. n \in 1 .. Len(d) /\ f \in Above(d)
  BY <1>1, <1>2 DEF Above
<1>4. f \in Path(d) /\ f # <<>>
  BY <1>3, Paths
<1>5. Len(f) = n
  <2>1. \A i \in 1 .. n : d[i] \in Letter
    BY <1>3, ElementOfSeq DEF Dir
  <2>2. n \in Int
    BY <1>1
  <2>3. Len(f) = IF 1 <= n THEN n - 1 + 1 ELSE 0
    BY <2>1, <2>2, SubSeqProperties
  <2> QED BY <1>1, <2>3
<1>6. f \in Dir /\ \A i \in 1 .. n : f[i] = d[i]
  BY <1>4, <1>5, PathIsBeginnings
<1> HIDE DEF f
<1>7. e \in Path(f) /\ e # f
  BY <1>1, <1>5, <1>6, PathIsBeginnings
<1>8. e \in Path(Front(f)) /\ Front(f) \in Path(f)
  BY <1>4, <1>6, <1>7, Fronts
<1>9. Len(Front(f)) = Len(e)
  <2>1. Front(f) # f /\ Front(f) \in Dir
    BY <1>4, <1>6, <1>8, Fronts, Paths
  <2>2. Len(Front(f)) <= Len(f) /\ Len(Front(f)) \in Nat /\ \A i \in 1 .. Len(Front(f)) : Front(f)[i] = f[i]
    BY <1>6, <1>8, <2>1, PathIsBeginnings DEF Dir
  <2>3. Len(Front(f)) # Len(f)
    BY <1>6, <2>1, <2>2, SeqEqual DEF Dir
  <2>4. Len(e) <= Len(Front(f))
    BY <1>8, <2>1, PathIsBeginnings
  <2> QED BY <1>1, <1>5, <2>2, <2>3, <2>4
<1>10. Front(f) = e
  <2>1. Front(f) \in Dir
    BY <1>6, <1>8, Paths
  <2>2. \A i \in 1 .. Len(e) : e[i] = Front(f)[i]
    BY <1>8, <2>1, PathIsBeginnings
  <2> QED BY <1>1, <1>9, <2>1, <2>2, SeqEqual DEF Dir
<1> QED BY <1>4, <1>7, <1>10

-----------------------------------------------------------------------------
(* Steps of the calls *)

\* The calls other than c are where they were, and may have met something.
OthersStay(c) ==
  \A p \in Caller \ {c} :
    /\ caller'[p].pc = caller[p].pc /\ caller'[p].name = caller[p].name /\ caller'[p].end = caller[p].end
    /\ caller'[p].walks = caller[p].walks /\ caller'[p].probes = caller[p].probes
    /\ caller[p].met \subseteq caller'[p].met

\* Those on their way have met what has been done.
OthersMeet(c, what) == \A p \in Caller \ {c} : caller[p].pc \notin {"idle", "over"} => what \in caller'[p].met

\* A step of call c that changes directories or files is met by the others.
Moves(c) ==
  /\ layout' = layout /\ OthersStay(c)
  /\ caller'[c].pc # "idle" /\ (caller[c].pc # "idle" => caller'[c].name = caller[c].name)
  /\ dirs' = dirs \/ OthersMeet(c, "mkdir") \/ OthersMeet(c, "rmdir")
  /\ content' = content \/ OthersMeet(c, "write") \/ OthersMeet(c, "unlink")
  /\ dirs \subseteq dirs' \/ OthersMeet(c, "rmdir")

\* Walks as functions
LEMMA ListingsOf ==
  /\ \A f \in Listings : /\ DOMAIN f \subseteq Dir
                         /\ \A d \in DOMAIN f : f[d] \in {"called", "waiting", "empty"}
  /\ \A D \in SUBSET Dir : [D -> {"called", "waiting", "empty"}] \subseteq Listings
  /\ \A f \in Listings : f = [d \in DOMAIN f |-> f[d]]
  /\ <<>> \in Listings /\ DOMAIN <<>> = {}
<1>1. <<>> \in Listings /\ DOMAIN <<>> = {}
  <2>1. <<>> \in Seq({"called", "waiting", "empty"}) /\ Len(<<>>) = 0
    BY EmptySeq
  <2>2. <<>> \in [1 .. 0 -> {"called", "waiting", "empty"}] /\ DOMAIN <<>> = 1 .. 0
    BY <2>1, LenProperties
  <2>3. 1 .. 0 = {}
    OBVIOUS
  <2> QED BY <2>2, <2>3 DEF Listings
<1>2. ASSUME NEW f \in Listings
      PROVE  /\ DOMAIN f \subseteq Dir /\ \A d \in DOMAIN f : f[d] \in {"called", "waiting", "empty"}
             /\ f = [d \in DOMAIN f |-> f[d]]
  <2>1. PICK D \in SUBSET Dir : f \in [D -> {"called", "waiting", "empty"}]
    BY DEF Listings
  <2> QED BY <2>1
<1>3. \A D \in SUBSET Dir : [D -> {"called", "waiting", "empty"}] \subseteq Listings
  BY DEF Listings
<1> QED BY <1>1, <1>2, <1>3

\* A walk that has gone, and what is put in.
LEMMA DropListing ==
  ASSUME NEW f \in Listings, NEW keys
  PROVE  /\ Drop(f, keys) \in Listings /\ DOMAIN Drop(f, keys) = DOMAIN f \ keys
         /\ \A d \in DOMAIN f \ keys : Drop(f, keys)[d] = f[d]
<1>1. DOMAIN f \ keys \in SUBSET Dir /\ \A d \in DOMAIN f \ keys : f[d] \in {"called", "waiting", "empty"}
  BY ListingsOf
<1>2. Drop(f, keys) \in [DOMAIN f \ keys -> {"called", "waiting", "empty"}]
  BY <1>1 DEF Drop
<1>3. [DOMAIN f \ keys -> {"called", "waiting", "empty"}] \subseteq Listings
  BY <1>1, ListingsOf
<1> QED BY <1>2, <1>3 DEF Drop

\* A call goes on, and no other hears of it.
LEMMA GoesOn ==
  ASSUME DirectoriesTypeOK, NEW c \in Caller, NEW q \in CallState, Goes(c, q)
  PROVE  /\ caller' \in [Caller -> CallState] /\ caller'[c] = q
         /\ \A p \in Caller \ {c} : caller'[p] = caller[p]
         /\ OthersStay(c)
<1>1. caller \in [Caller -> CallState] /\ caller' = [caller EXCEPT ![c] = q]
  BY DEF DirectoriesTypeOK, Goes
<1>2. /\ caller' \in [Caller -> CallState] /\ caller'[c] = q
      /\ \A p \in Caller \ {c} : caller'[p] = caller[p]
  BY <1>1
<1> QED BY <1>2 DEF OthersStay

\* A call goes on, and those on their way have met it.
LEMMA GoesOnMet ==
  ASSUME DirectoriesTypeOK, NEW c \in Caller, NEW q \in CallState,
         NEW what \in {"mkdir", "write", "unlink", "rmdir"}, Disturbs(c, q, what)
  PROVE  /\ caller' \in [Caller -> CallState] /\ caller'[c] = q
         /\ OthersStay(c) /\ OthersMeet(c, what)
<1> DEFINE told(p) == [caller[p] EXCEPT !.met = caller[p].met \cup {what}]
<1>1. caller \in [Caller -> CallState]
  BY DEF DirectoriesTypeOK
<1>2. \A p \in Caller : /\ p = c => caller'[p] = q
                        /\ p # c /\ caller[p].pc \in {"idle", "over"} => caller'[p] = caller[p]
                        /\ p # c /\ caller[p].pc \notin {"idle", "over"} => caller'[p] = told(p)
  BY DEF Disturbs
<1>3. \A p \in Caller : told(p) \in CallState
  BY <1>1 DEF CallState
<1>4. \A p \in Caller : /\ told(p).pc = caller[p].pc /\ told(p).name = caller[p].name /\ told(p).end = caller[p].end
                        /\ told(p).walks = caller[p].walks /\ told(p).probes = caller[p].probes
                        /\ told(p).met = caller[p].met \cup {what}
  BY <1>1 DEF CallState
<1> HIDE DEF told
<1>5. \A p \in Caller : caller'[p] \in CallState
  BY <1>1, <1>2, <1>3
<1>6. caller' \in [Caller -> CallState]
  <2>1. caller' = [p \in Caller |-> caller'[p]]
    BY DEF Disturbs
  <2> QED BY <1>5, <2>1
<1>7. OthersStay(c)
  BY <1>2, <1>4 DEF OthersStay
<1>8. OthersMeet(c, what)
  BY <1>2, <1>4 DEF OthersMeet
<1> QED BY <1>2, <1>6, <1>7, <1>8

\* What a step of a call leaves to the others
LEMMA OthersInOrder ==
  ASSUME DirectoriesInv, NEW c \in Caller, Moves(c), NEW p \in Caller \ {c}
  PROVE  /\ InOrderOfCall(caller'[p]) /\ SweepInOrder(caller'[p]) /\ SweepIsCalm(caller[p])'
         /\ FailuresAreMet(p)'
<1> DEFINE q == caller[p]
           r == caller'[p]
<1>1. /\ r.pc = q.pc /\ r.name = q.name /\ r.end = q.end /\ r.walks = q.walks /\ r.probes = q.probes
      /\ q.met \subseteq r.met
  BY DEF Moves, OthersStay
<1>2. InOrderOfCall(q) /\ SweepInOrder(q) /\ SweepIsCalm(q) /\ FailuresAreMet(p)
  BY DEF DirectoriesInv, CallsInOrder
<1>3. InOrderOfCall(r)
  <2>1. q.met # {} => r.met # {}
    BY <1>1
  <2> QED BY <1>1, <1>2, <2>1 DEF InOrderOfCall
<1>4. SweepInOrder(r)
  BY <1>1, <1>2 DEF SweepInOrder
<1>5. SweepIsCalm(q)'
  <2> SUFFICES ASSUME r.pc = "sweeping", r.met = {}
               PROVE  /\ \A d \in DOMAIN r.walks : d = <<>> \/ d \in dirs'
                      /\ \A d \in DOMAIN r.walks : r.walks[d] = "empty" => IsEmpty(d)'
                      /\ r.probes \subseteq DOMAIN content'
    BY DEF SweepIsCalm
  <2>1. dirs' = dirs /\ content' = content
    BY <1>1 DEF Moves, OthersMeet
  <2>2. \A d : IsEmpty(d)' = IsEmpty(d)
    BY <2>1 DEF IsEmpty, Files, Subdirectories
  <2> QED BY <1>1, <1>2, <2>1, <2>2 DEF SweepIsCalm
<1>6. FailuresAreMet(p)'
  <2>1. Shared(p) => Shared(p)'
    BY <1>1 DEF Shared, Moves, OthersStay
  <2>2. r.pc = "writing" => r.name.dir \in dirs' \cup {<<>>} \/ "rmdir" \in r.met
    <3> SUFFICES ASSUME r.pc = "writing" PROVE r.name.dir \in dirs' \cup {<<>>} \/ "rmdir" \in r.met
      OBVIOUS
    <3>1. q.name.dir \in dirs \cup {<<>>} \/ "rmdir" \in q.met
      BY <1>1, <1>2 DEF FailuresAreMet
    <3>2. dirs \subseteq dirs' \/ "rmdir" \in r.met
      BY <1>1 DEF Moves, OthersMeet
    <3> QED BY <1>1, <3>1, <3>2
  <2>3. r.pc = "deleting" => r.name \in DOMAIN content' \/ r.met # {} \/ Shared(p)'
    <3> SUFFICES ASSUME r.pc = "deleting" PROVE r.name \in DOMAIN content' \/ r.met # {} \/ Shared(p)'
      OBVIOUS
    <3>1. q.name \in DOMAIN content \/ q.met # {} \/ Shared(p)
      BY <1>1, <1>2 DEF FailuresAreMet
    <3>2. content' = content \/ r.met # {}
      BY <1>1 DEF Moves, OthersMeet
    <3> QED BY <1>1, <2>1, <3>1, <3>2
  <2>4. r.end = "failed" => "rmdir" \in r.met
    BY <1>1, <1>2 DEF FailuresAreMet
  <2>5. r.end = "kept" => r.met # {} \/ Shared(p)'
    BY <1>1, <1>2, <2>1 DEF FailuresAreMet
  <2> QED BY <2>2, <2>3, <2>4, <2>5 DEF FailuresAreMet
<1> QED BY <1>3, <1>4, <1>5, <1>6

\* A pattern with a uuid gives different calls different names.
LEMMA SignedOnce ==
  ASSUME Unique, NEW name, NEW c, NEW p, Signed(name, c), Signed(name, p)
  PROVE  c = p
<1>1. \E i \in DOMAIN Effective : Effective[i] = "uuid"
  BY DEF Unique, Effective, ToSet
<1> QED BY <1>1 DEF Signed

\* A call that stores is not idle, and a call that is saving stores and is not over.
LEMMA StoringCalls ==
  ASSUME DirectoriesInv, NEW c \in Caller
  PROVE  /\ Stores(c) => caller[c].pc # "idle"
         /\ caller[c].pc = "saving" => Stores(c) /\ caller[c].end # "stored"
         /\ Unanswered(c) => caller[c].pc = "over" /\ ~Stores(c)
<1>1. InOrderOfCall(caller[c])
  BY DEF DirectoriesInv, CallsInOrder
<1> QED BY <1>1 DEF InOrderOfCall, Stores, Unanswered

\* A step that leaves the names of the others alone, and records a name only if the call has stored it
LEMMA NamesKeep ==
  ASSUME DirectoriesInv, layout # NoLayout, NEW c \in Caller, Moves(c),
         caller[c].pc # "idle" => (Stores(c)' <=> Stores(c)),
         caller[c].end = "stored" => caller'[c].end = "stored",
         \A name \in DOMAIN recorded' \ DOMAIN recorded :
           Stores(c) /\ caller'[c].end = "stored" /\ name = caller[c].name,
         \A name : name # caller[c].name \/ caller[c].pc = "idle" =>
           (name \in DOMAIN content => name \in DOMAIN content' /\ content'[name] = content[name]),
         caller[c].pc = "idle" =>
           IF Stores(c)' THEN Unique => Signed(caller'[c].name, c) ELSE caller'[c].name \in DOMAIN recorded,
         caller'[c].pc = "saving" => caller'[c].name \in DOMAIN content' /\ content'[caller'[c].name] = c
  PROVE  NamesAreNew'
<1> SUFFICES ASSUME Unique'
             PROVE  /\ \A p \in Caller : Stores(p)' => Signed(caller[p].name, p)'
                    /\ \A p \in Caller : caller'[p].end # "stored" =>
                         /\ \A name \in DOMAIN recorded' : ~Signed(name, p)'
                         /\ \A r \in Caller : caller'[r].pc # "idle" /\ ~Stores(r)' => ~Signed(caller[r].name, p)'
                    /\ \A p \in Caller : caller'[p].pc = "saving" =>
                         caller'[p].name \in DOMAIN content' /\ content'[caller'[p].name] = p
  BY DEF NamesAreNew
<1>1. /\ layout' = layout /\ Unique /\ \A name, p : Signed(name, p)' <=> Signed(name, p)
  BY DEF Moves, Unique, Signed, Effective
<1>2. \A p \in Caller \ {c} : /\ caller'[p].pc = caller[p].pc /\ caller'[p].name = caller[p].name
                              /\ caller'[p].end = caller[p].end /\ (Stores(p)' <=> Stores(p))
  BY DEF Moves, OthersStay, Stores
<1>3. /\ \A p \in Caller : Stores(p) => Signed(caller[p].name, p)
      /\ \A p \in Caller : caller[p].end # "stored" =>
           /\ \A name \in DOMAIN recorded : ~Signed(name, p)
           /\ \A r \in Caller : caller[r].pc # "idle" /\ ~Stores(r) => ~Signed(caller[r].name, p)
      /\ \A p \in Caller : caller[p].pc = "saving" =>
           caller[p].name \in DOMAIN content /\ content[caller[p].name] = p
  BY <1>1 DEF DirectoriesInv, NamesAreNew
<1>4. caller[c].pc # "idle" => caller'[c].name = caller[c].name
  BY DEF Moves
<1>5. \A p \in Caller : Stores(p)' => Signed(caller'[p].name, p)
  BY <1>1, <1>2, <1>3, <1>4
<1>6. ASSUME NEW p \in Caller, caller'[p].end # "stored"
      PROVE  /\ \A name \in DOMAIN recorded' : ~Signed(name, p)
             /\ \A r \in Caller : caller'[r].pc # "idle" /\ ~Stores(r)' => ~Signed(caller'[r].name, p)
  <2>1. caller[p].end # "stored"
    BY <1>2, <1>6
  <2>2. ASSUME NEW name \in DOMAIN recorded' PROVE ~Signed(name, p)
    <3>1. CASE name \in DOMAIN recorded
      BY <1>3, <2>1, <3>1
    <3>2. CASE name \notin DOMAIN recorded
      <4>1. Stores(c) /\ caller'[c].end = "stored" /\ name = caller[c].name
        BY <3>2
      <4>2. Signed(name, c) /\ c # p
        BY <1>3, <1>6, <4>1
      <4> QED BY <1>1, <4>2, SignedOnce
    <3> QED BY <3>1, <3>2
  <2>3. ASSUME NEW r \in Caller, caller'[r].pc # "idle", ~Stores(r)' PROVE ~Signed(caller'[r].name, p)
    <3>1. CASE r # c
      BY <1>2, <1>3, <2>1, <2>3, <3>1
    <3>2. CASE r = c /\ caller[c].pc # "idle"
      BY <1>3, <1>4, <2>1, <2>3, <3>2
    <3>3. CASE r = c /\ caller[c].pc = "idle"
      BY <1>3, <2>1, <2>3, <3>3
    <3> QED BY <3>1, <3>2, <3>3
  <2> QED BY <2>2, <2>3
<1>7. ASSUME NEW p \in Caller, caller'[p].pc = "saving"
      PROVE  caller'[p].name \in DOMAIN content' /\ content'[caller'[p].name] = p
  <2>1. CASE p = c
    BY <1>7, <2>1
  <2>2. CASE p # c
    <3>1. caller[p].pc = "saving" /\ caller'[p].name = caller[p].name
      BY <1>2, <1>7, <2>2
    <3>2. caller[p].name \in DOMAIN content /\ content[caller[p].name] = p
      BY <1>3, <3>1
    <3>3. Stores(p) /\ caller[p].end # "stored" /\ Signed(caller[p].name, p)
      BY <1>3, <3>1, StoringCalls
    <3>4. caller[p].name # caller[c].name \/ caller[c].pc = "idle"
      <4>1. CASE Stores(c)
        BY <1>1, <1>3, <2>2, <3>3, <4>1, SignedOnce
      <4>2. CASE ~Stores(c)
        BY <1>3, <3>3, <4>2
      <4> QED BY <4>1, <4>2
    <3> QED BY <3>1, <3>2, <3>4
  <2> QED BY <2>1, <2>2
<1> QED BY <1>1, <1>5, <1>6, <1>7

\* A step that keeps the files of the names that are recorded, or excuses what it does
LEMMA RecordedKeep ==
  ASSUME DirectoriesInv, NEW c \in Caller, Moves(c),
         caller[c].pc # "idle" => (Stores(c)' <=> Stores(c)),
         Unanswered(c) => Unanswered(c)',
         \A name \in DOMAIN recorded' :
           \/ name \in DOMAIN recorded /\ (Intact(name) => Intact(name)')
           \/ Intact(name)'
           \/ Excuses(c, name)',
         \A name \in DOMAIN recorded' : c \in Deleting(name) => c \in Deleting(name)' \/ Unanswered(c)'
  PROVE  RecordedNamesStand'
<1> SUFFICES ASSUME NEW name \in DOMAIN recorded', ~Intact(name)', ~Excuses(c, name)'
             PROVE  \E p \in Caller : Excuses(p, name)'
  BY DEF RecordedNamesStand
<1>1. name \in DOMAIN recorded /\ ~Intact(name)
  OBVIOUS
<1>2. PICK p \in Caller : Excuses(p, name)
  BY <1>1 DEF DirectoriesInv, RecordedNamesStand
<1>3. Unique' <=> Unique
  BY DEF Moves, Unique
<1>4. CASE p # c
  <2>1. /\ caller'[p].pc = caller[p].pc /\ caller'[p].name = caller[p].name /\ caller'[p].end = caller[p].end
        /\ caller[p].met \subseteq caller'[p].met
    BY <1>4 DEF Moves, OthersStay
  <2>2. (p \in Deleting(name) => p \in Deleting(name)') /\ (Unanswered(p) => Unanswered(p)') /\ (Stores(p)' <=> Stores(p))
    BY <2>1 DEF Deleting, Unanswered, Stores
  <2> QED BY <1>2, <1>3, <2>1, <2>2 DEF Excuses
<1>5. CASE p = c
  <2>1. caller[c].pc # "idle" /\ caller[c].name = name
    BY <1>2, <1>5, StoringCalls DEF Excuses, Deleting
  <2>2. caller'[c].name = name
    BY <2>1 DEF Moves
  <2> QED BY <1>2, <1>3, <1>5, <2>1, <2>2 DEF Excuses
<1> QED BY <1>4, <1>5

\* A step that looks after what the call has looked after, and after what it makes or leaves without files
LEMMA LookedAfterKeep ==
  ASSUME DirectoriesInv, NEW c \in Caller, Moves(c),
         Unanswered(c) => Unanswered(c)',
         (\E p \in Caller : Unanswered(p)) \/ Unanswered(c)' \/ \A d \in dirs' :
           /\ d \notin dirs \/ HasFiles(d) \/ Fills(c, d) \/ Sweeps(c, d) => LookedAfter(d)'
           /\ dirs' = dirs \/ \A p \in Caller \ {c} : Fills(p, d) => LookedAfter(d)'
  PROVE  EmptyDirsAreLookedAfter'
<1>1. ASSUME NEW p \in Caller, Unanswered(p) PROVE Unanswered(p)'
  <2>1. CASE p = c
    BY <1>1, <2>1
  <2>2. CASE p # c
    BY <1>1, <2>2 DEF Unanswered, Moves, OthersStay
  <2> QED BY <2>1, <2>2
<1>2. CASE \E p \in Caller : Unanswered(p)
  BY <1>1, <1>2 DEF EmptyDirsAreLookedAfter
<1>3. CASE Unanswered(c)'
  BY <1>3 DEF EmptyDirsAreLookedAfter
<1>4. CASE (\A p \in Caller : ~Unanswered(p)) /\ ~Unanswered(c)'
  <2>1. ASSUME NEW d \in dirs', d \in dirs, NEW p \in Caller \ {c}, Fills(p, d) \/ Sweeps(p, d)
        PROVE  LookedAfter(d)'
    <3>1. /\ caller'[p].pc = caller[p].pc /\ caller'[p].name = caller[p].name /\ caller'[p].walks = caller[p].walks
      BY DEF Moves, OthersStay
    <3>2. CASE Sweeps(p, d)
      BY <3>1, <3>2 DEF Sweeps, LookedAfter
    <3>3. CASE Fills(p, d) /\ dirs' = dirs
      BY <3>1, <3>3 DEF Fills, LookedAfter
    <3>4. CASE Fills(p, d) /\ dirs' # dirs
      BY <1>4, <3>4
    <3> QED BY <2>1, <3>2, <3>3, <3>4
  <2>2. ASSUME NEW d \in dirs' PROVE LookedAfter(d)'
    <3>1. CASE d \notin dirs \/ HasFiles(d) \/ Fills(c, d) \/ Sweeps(c, d)
      BY <1>4, <3>1
    <3>2. CASE d \in dirs /\ ~HasFiles(d) /\ ~Fills(c, d) /\ ~Sweeps(c, d)
      <4>1. LookedAfter(d)
        BY <1>4, <3>2 DEF DirectoriesInv, EmptyDirsAreLookedAfter
      <4>2. PICK p \in Caller : Fills(p, d) \/ Sweeps(p, d)
        BY <3>2, <4>1 DEF LookedAfter
      <4>3. p # c
        BY <3>2, <4>2
      <4> QED BY <2>1, <3>2, <4>2, <4>3
    <3> QED BY <3>1, <3>2
  <2> QED BY <2>2 DEF EmptyDirsAreLookedAfter
<1> QED BY <1>2, <1>3, <1>4

\* What a step has to show of its own
LEMMA MoveHolds ==
  ASSUME DirectoriesInv, layout # NoLayout, NEW c \in Caller, Moves(c),
         DirectoriesTypeOK', DirsFormTree',
         InOrderOfCall(caller'[c]), SweepInOrder(caller'[c]), SweepIsCalm(caller[c])', FailuresAreMet(c)',
         NamesAreNew', RecordedNamesStand', EmptyDirsAreLookedAfter'
  PROVE  DirectoriesInv'
<1>1. CallsInOrder' /\ \A p \in Caller : FailuresAreMet(p)'
  <2>1. \A p \in Caller \ {c} : InOrderOfCall(caller'[p]) /\ SweepInOrder(caller'[p]) /\ SweepIsCalm(caller[p])' /\ FailuresAreMet(p)'
    BY OthersInOrder
  <2>2. \A p \in Caller : InOrderOfCall(caller'[p]) /\ SweepInOrder(caller'[p]) /\ SweepIsCalm(caller[p])' /\ FailuresAreMet(p)'
    BY <2>1
  <2> QED BY <2>2 DEF CallsInOrder
<1>2. NothingBefore'
  BY DEF NothingBefore, Moves
<1> QED BY <1>1, <1>2 DEF DirectoriesInv

-----------------------------------------------------------------------------
(* storeFile *)

\* The patterns give a name, with the uuid of the call where they have one.
LEMMA StoredName ==
  ASSUME layout \in Patterns, NEW c \in Caller, NEW original \in Word, NEW field \in Word
  PROVE  LET name == [dir |-> DirectoryName(c, [field |-> field]), file |-> FileName(c, original, [field |-> field])]
         IN name \in Name /\ Signed(name, c)
<1> DEFINE meta == [field |-> field]
           some == Variables(c, meta)
           all == [v \in {"fieldName", "uuid", "name"} |-> IF v = "name" THEN original ELSE some[v]]
           dirPattern == IF layout.props.dirname = Default THEN layout.dirPattern ELSE layout.props.dirname
<1>1. dirPattern \in Seq(Word) /\ Effective \in Seq(Word)
  BY DEF Patterns, Effective
<1>2. /\ DOMAIN some = {"fieldName", "uuid"} /\ some["fieldName"] = field /\ some["uuid"] = c
  BY DEF Variables
<1>3. /\ DOMAIN all = {"fieldName", "uuid", "name"}
      /\ all["fieldName"] = field /\ all["uuid"] = c /\ all["name"] = original
  BY <1>2
<1>4. ASSUME NEW pattern \in Seq(Word), NEW f, \A v \in DOMAIN f : f[v] \in Letter
      PROVE  Replaced(pattern, f) \in Dir
  <2> DEFINE letter(i) == IF pattern[i] \in DOMAIN f THEN f[pattern[i]] ELSE pattern[i]
  <2>1. Len(pattern) \in Nat /\ DOMAIN pattern = 1 .. Len(pattern) /\ \A i \in 1 .. Len(pattern) : letter(i) \in Letter
    <3>1. Len(pattern) \in Nat /\ DOMAIN pattern = 1 .. Len(pattern) /\ \A i \in 1 .. Len(pattern) : pattern[i] \in Word
      BY LenProperties, ElementOfSeq
    <3> QED BY <1>4, <3>1 DEF Letter
  <2>2. Replaced(pattern, f) = [i \in 1 .. Len(pattern) |-> letter(i)]
    BY <2>1 DEF Replaced
  <2> HIDE DEF letter
  <2>3. [i \in 1 .. Len(pattern) |-> letter(i)] \in Seq(Letter)
    BY <2>1, IsASeq
  <2> QED BY <2>2, <2>3 DEF Dir
<1>5. \A v \in DOMAIN some : some[v] \in Letter
  BY <1>2 DEF Letter
<1>6. \A v \in DOMAIN all : all[v] \in Letter
  BY <1>3 DEF Letter
<1>7. DirectoryName(c, meta) = Replaced(dirPattern, some) /\ FileName(c, original, meta) = Replaced(Effective, all)
  BY DEF DirectoryName, FileName, Effective
<1> HIDE DEF some, all, dirPattern
<1>8. DirectoryName(c, meta) \in Dir /\ FileName(c, original, meta) \in Dir
  BY <1>1, <1>4, <1>5, <1>6, <1>7
<1>9. \A i \in DOMAIN Effective : Effective[i] = "uuid" =>
        i \in DOMAIN FileName(c, original, meta) /\ FileName(c, original, meta)[i] = c
  BY <1>3, <1>7 DEF Replaced
<1> QED BY <1>8, <1>9 DEF Name, Signed

\* What the invariant says of a call at work
LEMMA CallFacts ==
  ASSUME DirectoriesInv, NEW c \in Caller
  PROVE  /\ caller \in [Caller -> CallState] /\ caller[c] \in CallState
         /\ InOrderOfCall(caller[c]) /\ SweepInOrder(caller[c]) /\ SweepIsCalm(caller[c]) /\ FailuresAreMet(c)
         /\ Resting \in CallState /\ Resting.pc = "idle" /\ Resting.end = "none" /\ Resting.met = {}
         /\ Resting.walks = <<>> /\ DOMAIN Resting.walks = {} /\ Resting.probes = {}
<1>1. <<>> \in Dir
  BY EmptySeq DEF Dir
<1> QED BY <1>1, ListingsOf DEF DirectoriesInv, DirectoriesTypeOK, CallsInOrder, Resting, CallState, Name

\* A call of storeFile or deleteFile begins.
LEMMA BeginStep ==
  ASSUME DirectoriesInv, layout # NoLayout, NEW c \in Caller,
         \/ \E original \in Word, field \in Word : StoreFile(c, original, [field |-> field])
         \/ \E name \in DOMAIN recorded : DeleteFile(c, name)
  PROVE  DirectoriesInv'
<1>1. layout \in Patterns /\ DOMAIN recorded \subseteq Name
  BY DEF DirectoriesInv, DirectoriesTypeOK
<1>2. PICK q : /\ caller[c].pc = "idle" /\ Goes(c, q) /\ UNCHANGED <<layout, dirs, content, recorded>>
               /\ q \in CallState /\ q.pc \in {"storing", "deleting"} /\ q.end = "none" /\ q.met = {}
               /\ DOMAIN q.walks = {} /\ q.probes = {}
               /\ q.pc = "storing" => Signed(q.name, c)
               /\ q.pc = "deleting" => q.name \in DOMAIN recorded
  <2>1. CASE \E original \in Word, field \in Word : StoreFile(c, original, [field |-> field])
    <3>1. PICK original \in Word, field \in Word : StoreFile(c, original, [field |-> field])
      BY <2>1
    <3> DEFINE name == [dir |-> DirectoryName(c, [field |-> field]), file |-> FileName(c, original, [field |-> field])]
               q == [Resting EXCEPT !.pc = "storing", !.name = name]
    <3>2. name \in Name /\ Signed(name, c)
      BY <1>1, StoredName
    <3>3. caller[c].pc = "idle" /\ Goes(c, q) /\ UNCHANGED <<layout, dirs, content, recorded>>
      BY <3>1 DEF StoreFile
    <3> HIDE DEF name
    <3>4. q \in CallState /\ q.pc = "storing" /\ q.end = "none" /\ q.met = {} /\ DOMAIN q.walks = {} /\ q.probes = {}
          /\ q.name = name
      BY <3>2, CallFacts DEF CallState
    <3> HIDE DEF q
    <3> QED BY <3>2, <3>3, <3>4
  <2>2. CASE \E name \in DOMAIN recorded : DeleteFile(c, name)
    <3>1. PICK name \in DOMAIN recorded : DeleteFile(c, name)
      BY <2>2
    <3> DEFINE q == [Resting EXCEPT !.pc = "deleting", !.name = name]
    <3>2. caller[c].pc = "idle" /\ Goes(c, q) /\ UNCHANGED <<layout, dirs, content, recorded>>
      BY <3>1 DEF DeleteFile
    <3>3. q \in CallState /\ q.pc = "deleting" /\ q.end = "none" /\ q.met = {} /\ DOMAIN q.walks = {} /\ q.probes = {}
          /\ q.name = name
      BY <1>1, CallFacts DEF CallState
    <3> HIDE DEF q
    <3> QED BY <3>2, <3>3
  <2> QED BY <2>1, <2>2
<1>3. /\ caller' \in [Caller -> CallState] /\ caller'[c] = q
      /\ \A p \in Caller \ {c} : caller'[p] = caller[p]
      /\ OthersStay(c)
  BY <1>2, GoesOn DEF DirectoriesInv
<1>4. Moves(c)
  BY <1>2, <1>3 DEF Moves
<1>5. DirectoriesTypeOK' /\ DirsFormTree'
  BY <1>2, <1>3 DEF DirectoriesInv, DirectoriesTypeOK, DirsFormTree
<1>6. InOrderOfCall(caller'[c]) /\ SweepInOrder(caller'[c]) /\ SweepIsCalm(caller[c])'
  BY <1>2, <1>3 DEF InOrderOfCall, SweepInOrder, SweepIsCalm
<1>7. caller[c].end = "none"
  BY <1>2, CallFacts DEF InOrderOfCall
<1>8. FailuresAreMet(c)'
  <2>1. CASE q.pc = "storing"
    BY <1>2, <1>3, <2>1 DEF FailuresAreMet
  <2>2. CASE q.pc = "deleting"
    <3>1. q.name \in DOMAIN recorded
      BY <1>2, <2>2
    <3>2. Intact(q.name) \/ \E p \in Caller : Excuses(p, q.name)
      BY <3>1 DEF DirectoriesInv, RecordedNamesStand
    <3>3. ASSUME NEW p \in Caller, Excuses(p, q.name) PROVE p # c /\ caller[p].pc # "idle" /\ caller[p].name = q.name
      BY <1>2, <3>3, StoringCalls DEF Excuses, Deleting
    <3>4. q.name \in DOMAIN content' \/ Shared(c)'
      BY <1>2, <1>3, <3>2, <3>3 DEF Intact, Shared
    <3> QED BY <1>2, <1>3, <2>2, <3>4 DEF FailuresAreMet
  <2> QED BY <1>2, <2>1, <2>2
<1>9. NamesAreNew'
  <2>1. caller[c].pc = "idle" =>
          IF Stores(c)' THEN Unique => Signed(caller'[c].name, c) ELSE caller'[c].name \in DOMAIN recorded
    BY <1>2, <1>3 DEF Stores
  <2>2. caller'[c].pc # "saving"
    BY <1>2, <1>3
  <2> QED BY <1>2, <1>4, <1>7, <2>1, <2>2, NamesKeep
<1>10. RecordedNamesStand'
  <2>1. c \notin Deleting(q.name) /\ \A name : c \notin Deleting(name)
    BY <1>2 DEF Deleting
  <2>2. \A name : Intact(name) => Intact(name)'
    BY <1>2 DEF Intact
  <2>3. ~Unanswered(c)
    BY <1>7 DEF Unanswered
  <2> QED BY <1>2, <1>4, <2>1, <2>2, <2>3, RecordedKeep
<1>11. EmptyDirsAreLookedAfter'
  <2>1. ASSUME NEW d \in dirs' PROVE d \notin dirs \/ HasFiles(d) \/ Fills(c, d) \/ Sweeps(c, d) => LookedAfter(d)'
    BY <1>2, <2>1 DEF HasFiles, Fills, Sweeps, LookedAfter
  <2>2. ~Unanswered(c)
    BY <1>7 DEF Unanswered
  <2> QED BY <1>2, <1>4, <2>1, <2>2, LookedAfterKeep
<1> QED BY <1>4, <1>5, <1>6, <1>8, <1>9, <1>10, <1>11, MoveHolds

\* The directories of a file are made.
LEMMA EnsureDirectoryStep ==
  ASSUME DirectoriesInv, layout # NoLayout, NEW c \in Caller, EnsureDirectory(c)
  PROVE  DirectoriesInv'
<1> DEFINE q == caller[c]
           r == [q EXCEPT !.pc = "writing"]
<1>1. /\ q.pc = "storing" /\ dirs' = dirs \cup Above(q.name.dir) /\ Disturbs(c, r, "mkdir")
      /\ UNCHANGED <<layout, content, recorded>>
  BY DEF EnsureDirectory
<1>2. q \in CallState /\ InOrderOfCall(q) /\ q.end = "none" /\ DOMAIN q.walks = {} /\ q.probes = {}
  BY <1>1, CallFacts DEF InOrderOfCall
<1>3. /\ r \in CallState /\ r.pc = "writing" /\ r.name = q.name /\ r.end = "none" /\ r.met = q.met
      /\ DOMAIN r.walks = {} /\ r.probes = {}
  BY <1>2 DEF CallState
<1> HIDE DEF r
<1>4. /\ caller' \in [Caller -> CallState] /\ caller'[c] = r
      /\ OthersStay(c) /\ OthersMeet(c, "mkdir")
  BY <1>1, <1>3, GoesOnMet DEF DirectoriesInv
<1>5. Moves(c)
  BY <1>1, <1>3, <1>4 DEF Moves
<1>6. q.name.dir \in Dir
  BY <1>2 DEF CallState, Name
<1>7. /\ Above(q.name.dir) \subseteq Dir /\ q.name.dir \in dirs' \cup {<<>>}
      /\ \A d \in Above(q.name.dir) : d # <<>> /\ Above(d) \subseteq Above(q.name.dir) /\ d \in Path(q.name.dir)
  BY <1>1, <1>6, Paths DEF Path
<1>8. DirectoriesTypeOK' /\ DirsFormTree'
  BY <1>1, <1>4, <1>7 DEF DirectoriesInv, DirectoriesTypeOK, DirsFormTree
<1>9. InOrderOfCall(caller'[c]) /\ SweepInOrder(caller'[c]) /\ SweepIsCalm(caller[c])' /\ FailuresAreMet(c)'
  BY <1>3, <1>4, <1>7 DEF InOrderOfCall, SweepInOrder, SweepIsCalm, FailuresAreMet
<1>10. Stores(c) /\ Stores(c)' /\ ~Unanswered(c) /\ \A name : c \notin Deleting(name)
  BY <1>1, <1>2, <1>3, <1>4 DEF Stores, Unanswered, Deleting
<1>11. NamesAreNew'
  BY <1>1, <1>2, <1>3, <1>4, <1>5, <1>10, NamesKeep
<1>12. RecordedNamesStand'
  <2>1. \A name : Intact(name) => Intact(name)'
    BY <1>1 DEF Intact
  <2> QED BY <1>1, <1>5, <1>10, <2>1, RecordedKeep
<1>13. EmptyDirsAreLookedAfter'
  <2>1. ASSUME NEW d \in dirs', d \notin dirs \/ HasFiles(d) \/ Fills(c, d) \/ Sweeps(c, d) PROVE LookedAfter(d)'
    <3>1. CASE d \notin dirs
      <4>1. d \in Above(q.name.dir)
        BY <1>1, <3>1
      <4>2. Fills(c, d)'
        BY <1>3, <1>4, <1>7, <4>1 DEF Fills, Path
      <4> QED BY <4>2 DEF LookedAfter
    <3>2. CASE HasFiles(d)
      BY <1>1, <3>2 DEF HasFiles, LookedAfter
    <3>3. ~Fills(c, d) /\ ~Sweeps(c, d)
      BY <1>1 DEF Fills, Sweeps
    <3> QED BY <2>1, <3>1, <3>2, <3>3
  <2>2. ASSUME NEW d \in dirs', NEW p \in Caller \ {c}, Fills(p, d) PROVE LookedAfter(d)'
    <3>1. Fills(p, d)'
      BY <1>1, <1>4, <2>2 DEF Fills, OthersStay, Path
    <3> QED BY <3>1 DEF LookedAfter
  <2> QED BY <1>5, <1>10, <2>1, <2>2, LookedAfterKeep
<1> QED BY <1>5, <1>8, <1>9, <1>11, <1>12, <1>13, MoveHolds

\* A file is written, or its directory is gone.
LEMMA WriteFileStep ==
  ASSUME DirectoriesInv, layout # NoLayout, NEW c \in Caller, WriteFile(c)
  PROVE  DirectoriesInv'
<1> DEFINE q == caller[c]
<1>1. q.pc = "writing" /\ UNCHANGED <<layout, dirs, recorded>>
  BY DEF WriteFile
<1>2. q \in CallState /\ q.end = "none" /\ DOMAIN q.walks = {} /\ q.probes = {} /\ FailuresAreMet(c)
  BY <1>1, CallFacts DEF InOrderOfCall
<1>3. q.name \in Name /\ q.name.dir \in Dir
  BY <1>2 DEF CallState, Name
<1>4. Stores(c) /\ ~Unanswered(c) /\ \A name : c \notin Deleting(name)
  BY <1>1, <1>2 DEF Stores, Unanswered, Deleting
<1>5. DirsFormTree'
  BY <1>1 DEF DirectoriesInv, DirsFormTree
<1>6. CASE q.name.dir \in dirs \cup {<<>>}
  <2> DEFINE r == [q EXCEPT !.pc = "saving"]
  <2>1. content' = Put(content, q.name, c) /\ Disturbs(c, r, "write")
    BY <1>6 DEF WriteFile
  <2>2. /\ r \in CallState /\ r.pc = "saving" /\ r.name = q.name /\ r.end = "none" /\ r.met = q.met
        /\ DOMAIN r.walks = {} /\ r.probes = {}
    BY <1>2 DEF CallState
  <2> HIDE DEF r
  <2>3. /\ caller' \in [Caller -> CallState] /\ caller'[c] = r
        /\ OthersStay(c) /\ OthersMeet(c, "write")
    BY <2>1, <2>2, GoesOnMet DEF DirectoriesInv
  <2>4. Moves(c)
    BY <1>1, <2>2, <2>3 DEF Moves
  <2>5. /\ DOMAIN content' = DOMAIN content \cup {q.name} /\ content'[q.name] = c
        /\ \A name \in DOMAIN content \ {q.name} : content'[name] = content[name]
    BY <2>1 DEF Put
  <2>6. DirectoriesTypeOK'
    BY <1>1, <1>3, <2>3, <2>5 DEF DirectoriesInv, DirectoriesTypeOK
  <2>7. InOrderOfCall(caller'[c]) /\ SweepInOrder(caller'[c]) /\ SweepIsCalm(caller[c])' /\ FailuresAreMet(c)'
    BY <2>2, <2>3 DEF InOrderOfCall, SweepInOrder, SweepIsCalm, FailuresAreMet
  <2>8. Stores(c)'
    BY <2>2, <2>3 DEF Stores
  <2>9. NamesAreNew'
    BY <1>1, <1>2, <1>4, <2>2, <2>3, <2>4, <2>5, <2>8, NamesKeep
  <2>10. RecordedNamesStand'
    <3>1. ASSUME NEW name \in DOMAIN recorded'
          PROVE  (name \in DOMAIN recorded /\ (Intact(name) => Intact(name)')) \/ Excuses(c, name)'
      <4>1. CASE name # q.name
        BY <1>1, <2>5, <4>1 DEF Intact
      <4>2. CASE name = q.name
        <5>1. ~Unique
          <6> SUFFICES ASSUME Unique PROVE FALSE
            OBVIOUS
          <6>1. Signed(q.name, c) /\ ~Signed(name, c)
            BY <1>1, <1>2, <1>4 DEF DirectoriesInv, NamesAreNew
          <6> QED BY <4>2, <6>1
        <5>2. ~Unique'
          BY <1>1, <5>1 DEF Unique
        <5> QED BY <2>2, <2>3, <2>8, <4>2, <5>2 DEF Excuses
      <4> QED BY <4>1, <4>2
    <3> QED BY <1>4, <2>4, <2>8, <3>1, RecordedKeep
  <2>11. EmptyDirsAreLookedAfter'
    <3>1. ASSUME NEW d \in dirs', d \notin dirs \/ HasFiles(d) \/ Fills(c, d) \/ Sweeps(c, d) PROVE LookedAfter(d)'
      <4>1. d \in dirs /\ ~Sweeps(c, d)
        BY <1>1 DEF Sweeps
      <4>2. HasFiles(d)'
        BY <2>5, <3>1, <4>1 DEF HasFiles, Fills, Path
      <4> QED BY <4>2 DEF LookedAfter
    <3> QED BY <1>1, <1>4, <2>4, <3>1, LookedAfterKeep
  <2> QED BY <1>5, <2>4, <2>6, <2>7, <2>9, <2>10, <2>11, MoveHolds
<1>7. CASE q.name.dir \notin dirs \cup {<<>>}
  <2> DEFINE r == [q EXCEPT !.pc = "over", !.end = "failed"]
  <2>1. content' = content /\ Goes(c, r)
    BY <1>7 DEF WriteFile
  <2>2. /\ r \in CallState /\ r.pc = "over" /\ r.name = q.name /\ r.end = "failed" /\ r.met = q.met
        /\ DOMAIN r.walks = {} /\ r.probes = {}
    BY <1>2 DEF CallState
  <2> HIDE DEF r
  <2>3. caller' \in [Caller -> CallState] /\ caller'[c] = r /\ OthersStay(c)
    BY <2>1, <2>2, GoesOn DEF DirectoriesInv
  <2>4. Moves(c)
    BY <1>1, <2>1, <2>2, <2>3 DEF Moves
  <2>5. DirectoriesTypeOK'
    BY <1>1, <2>1, <2>3 DEF DirectoriesInv, DirectoriesTypeOK
  <2>6. "rmdir" \in q.met
    BY <1>1, <1>2, <1>7 DEF FailuresAreMet
  <2>7. InOrderOfCall(caller'[c]) /\ SweepInOrder(caller'[c]) /\ SweepIsCalm(caller[c])' /\ FailuresAreMet(c)'
    BY <2>2, <2>3, <2>6 DEF InOrderOfCall, SweepInOrder, SweepIsCalm, FailuresAreMet
  <2>8. Stores(c)'
    BY <2>2, <2>3 DEF Stores
  <2>9. NamesAreNew'
    BY <1>1, <1>2, <1>4, <2>1, <2>2, <2>3, <2>4, <2>8, NamesKeep
  <2>10. RecordedNamesStand'
    <3>1. \A name : Intact(name) => Intact(name)'
      BY <1>1, <2>1 DEF Intact
    <3> QED BY <1>1, <1>4, <2>4, <2>8, <3>1, RecordedKeep
  <2>11. EmptyDirsAreLookedAfter'
    <3>1. ASSUME NEW d \in dirs', d \notin dirs \/ HasFiles(d) \/ Fills(c, d) \/ Sweeps(c, d) PROVE LookedAfter(d)'
      BY <1>1, <1>7, <2>1, <3>1 DEF HasFiles, Fills, Sweeps, LookedAfter
    <3> QED BY <1>1, <1>4, <2>4, <3>1, LookedAfterKeep
  <2> QED BY <1>5, <2>4, <2>5, <2>7, <2>9, <2>10, <2>11, MoveHolds
<1> QED BY <1>6, <1>7

\* The metadata are saved, or the name has some.
LEMMA SaveMetaStep ==
  ASSUME DirectoriesInv, layout # NoLayout, NEW c \in Caller, SaveMeta(c)
  PROVE  DirectoriesInv'
<1> DEFINE q == caller[c]
<1>1. q.pc = "saving" /\ UNCHANGED <<layout, dirs, content>>
  BY DEF SaveMeta
<1>2. q \in CallState /\ q.end = "none" /\ DOMAIN q.walks = {} /\ q.probes = {}
  BY <1>1, CallFacts DEF InOrderOfCall
<1>3. q.name \in Name
  BY <1>2 DEF CallState
<1>4. Stores(c) /\ ~Unanswered(c) /\ \A name : c \notin Deleting(name)
  BY <1>1, <1>2 DEF Stores, Unanswered, Deleting
<1>5. PICK end \in {"stored", "thrown"} :
        /\ Goes(c, [q EXCEPT !.pc = "over", !.end = end])
        /\ end = "thrown" => recorded' = recorded
        /\ end = "stored" => q.name \notin DOMAIN recorded /\ recorded' = Put(recorded, q.name, c)
  BY DEF SaveMeta
<1> DEFINE r == [q EXCEPT !.pc = "over", !.end = end]
<1>6. /\ r \in CallState /\ r.pc = "over" /\ r.name = q.name /\ r.end = end /\ r.met = q.met
      /\ DOMAIN r.walks = {} /\ r.probes = {}
  BY <1>2 DEF CallState
<1> HIDE DEF r
<1>7. caller' \in [Caller -> CallState] /\ caller'[c] = r /\ OthersStay(c)
  BY <1>5, <1>6, GoesOn DEF DirectoriesInv, r
<1>8. Moves(c)
  BY <1>1, <1>6, <1>7 DEF Moves
<1>9. /\ \A name \in DOMAIN recorded : name \in DOMAIN recorded' /\ recorded'[name] = recorded[name]
      /\ \A name \in DOMAIN recorded' \ DOMAIN recorded : end = "stored" /\ name = q.name /\ recorded'[name] = c
  BY <1>5 DEF Put
<1>10. DirectoriesTypeOK' /\ DirsFormTree'
  BY <1>1, <1>3, <1>7, <1>9 DEF DirectoriesInv, DirectoriesTypeOK, DirsFormTree
<1>11. InOrderOfCall(caller'[c]) /\ SweepInOrder(caller'[c]) /\ SweepIsCalm(caller[c])' /\ FailuresAreMet(c)'
  BY <1>6, <1>7 DEF InOrderOfCall, SweepInOrder, SweepIsCalm, FailuresAreMet
<1>12. Stores(c)'
  BY <1>6, <1>7 DEF Stores
<1>13. NamesAreNew'
  BY <1>1, <1>2, <1>4, <1>6, <1>7, <1>8, <1>9, <1>12, NamesKeep
<1>14. RecordedNamesStand'
  <2>1. ASSUME NEW name \in DOMAIN recorded'
        PROVE  (name \in DOMAIN recorded /\ (Intact(name) => Intact(name)')) \/ Intact(name)' \/ Excuses(c, name)'
    <3>1. CASE name \in DOMAIN recorded
      BY <1>1, <1>9, <3>1 DEF Intact
    <3>2. CASE name \notin DOMAIN recorded /\ Unique
      <4>1. q.name \in DOMAIN content /\ content[q.name] = c
        BY <1>1, <3>2 DEF DirectoriesInv, NamesAreNew
      <4> QED BY <1>1, <1>9, <3>2, <4>1 DEF Intact
    <3>3. CASE name \notin DOMAIN recorded /\ ~Unique
      <4>1. ~Unique' /\ name = q.name
        BY <1>1, <1>9, <3>3 DEF Unique
      <4> QED BY <1>6, <1>7, <1>12, <4>1 DEF Excuses
    <3> QED BY <3>1, <3>2, <3>3
  <2> QED BY <1>4, <1>8, <1>12, <2>1, RecordedKeep
<1>15. EmptyDirsAreLookedAfter'
  <2>1. ASSUME NEW d \in dirs', d \notin dirs \/ HasFiles(d) \/ Fills(c, d) \/ Sweeps(c, d) PROVE LookedAfter(d)'
    BY <1>1, <2>1 DEF HasFiles, Fills, Sweeps, LookedAfter
  <2> QED BY <1>1, <1>4, <1>8, <2>1, LookedAfterKeep
<1> QED BY <1>8, <1>10, <1>11, <1>13, <1>14, <1>15, MoveHolds

-----------------------------------------------------------------------------
(* deleteFile *)

\* The file goes, and a sweep begins; or there is no such file.
LEMMA UnlinkFileStep ==
  ASSUME DirectoriesInv, layout # NoLayout, NEW c \in Caller, UnlinkFile(c)
  PROVE  DirectoriesInv'
<1> DEFINE q == caller[c]
<1>1. q.pc = "deleting" /\ UNCHANGED <<layout, dirs, recorded>>
  BY DEF UnlinkFile
<1>2. q \in CallState /\ q.end = "none" /\ DOMAIN q.walks = {} /\ q.probes = {} /\ FailuresAreMet(c)
  BY <1>1, CallFacts DEF InOrderOfCall
<1>3. ~Stores(c) /\ ~Unanswered(c) /\ \A name : c \notin Deleting(name)
  BY <1>1, <1>2 DEF Stores, Unanswered, Deleting
<1>4. DirsFormTree'
  BY <1>1 DEF DirectoriesInv, DirsFormTree
<1>5. CASE q.name \in DOMAIN content
  <2> DEFINE walks == [d \in {<<>>} |-> "called"]
             r == [q EXCEPT !.pc = "sweeping", !.walks = walks]
  <2>1. content' = Drop(content, {q.name}) /\ Disturbs(c, r, "unlink")
    BY <1>5 DEF UnlinkFile
  <2>2. walks \in Listings /\ DOMAIN walks = {<<>>} /\ walks[<<>>] = "called" /\ <<>> \in Dir
    <3>1. <<>> \in Dir
      BY EmptySeq DEF Dir
    <3>2. walks = [d \in {<<>>} |-> "called"]
      OBVIOUS
    <3>3. {<<>>} \in SUBSET Dir
      BY <3>1
    <3> HIDE DEF walks
    <3>4. walks \in [{<<>>} -> {"called", "waiting", "empty"}]
      BY <3>2
    <3>5. walks \in Listings
      BY <3>3, <3>4, ListingsOf
    <3> QED BY <3>1, <3>2, <3>5
  <2> HIDE DEF walks
  <2>3. /\ r \in CallState /\ r.pc = "sweeping" /\ r.name = q.name /\ r.end = "none" /\ r.met = q.met
        /\ r.walks = walks /\ r.probes = {}
    BY <1>2, <2>2 DEF CallState
  <2> HIDE DEF r
  <2>4. /\ caller' \in [Caller -> CallState] /\ caller'[c] = r
        /\ OthersStay(c) /\ OthersMeet(c, "unlink")
    BY <2>1, <2>3, GoesOnMet DEF DirectoriesInv
  <2>5. Moves(c)
    BY <1>1, <2>3, <2>4 DEF Moves
  <2>6. /\ DOMAIN content' = DOMAIN content \ {q.name}
        /\ \A name \in DOMAIN content \ {q.name} : content'[name] = content[name]
    BY <2>1 DEF Drop
  <2>7. DirectoriesTypeOK'
    BY <1>1, <2>4, <2>6 DEF DirectoriesInv, DirectoriesTypeOK
  <2>8. Path(<<>>) = {<<>>}
    BY <2>2, Paths
  <2>9. InOrderOfCall(caller'[c]) /\ SweepInOrder(caller'[c]) /\ SweepIsCalm(caller[c])' /\ FailuresAreMet(c)'
    BY <2>2, <2>3, <2>4, <2>8 DEF InOrderOfCall, SweepInOrder, SweepIsCalm, FailuresAreMet
  <2>10. ~Stores(c)'
    BY <2>3, <2>4 DEF Stores
  <2>11. NamesAreNew'
    BY <1>1, <1>2, <1>3, <2>3, <2>4, <2>5, <2>6, <2>10, NamesKeep
  <2>12. RecordedNamesStand'
    <3>1. ASSUME NEW name \in DOMAIN recorded'
          PROVE  (name \in DOMAIN recorded /\ (Intact(name) => Intact(name)')) \/ Excuses(c, name)'
      <4>1. CASE name # q.name
        BY <1>1, <2>6, <4>1 DEF Intact
      <4>2. CASE name = q.name
        BY <2>3, <2>4, <4>2 DEF Excuses, Deleting
      <4> QED BY <4>1, <4>2
    <3> QED BY <1>3, <2>5, <2>10, <3>1, RecordedKeep
  <2>13. EmptyDirsAreLookedAfter'
    <3>1. ASSUME NEW d \in dirs' PROVE LookedAfter(d)'
      <4>1. Sweeps(c, d)'
        BY <2>2, <2>3, <2>4 DEF Sweeps, Path
      <4> QED BY <4>1 DEF LookedAfter
    <3> QED BY <1>1, <1>3, <2>5, <3>1, LookedAfterKeep
  <2> QED BY <1>4, <2>5, <2>7, <2>9, <2>11, <2>12, <2>13, MoveHolds
<1>6. CASE q.name \notin DOMAIN content
  <2> DEFINE r == [q EXCEPT !.pc = "over", !.end = "kept"]
  <2>1. content' = content /\ Goes(c, r)
    BY <1>6 DEF UnlinkFile
  <2>2. /\ r \in CallState /\ r.pc = "over" /\ r.name = q.name /\ r.end = "kept" /\ r.met = q.met
        /\ DOMAIN r.walks = {} /\ r.probes = {}
    BY <1>2 DEF CallState
  <2> HIDE DEF r
  <2>3. /\ caller' \in [Caller -> CallState] /\ caller'[c] = r /\ OthersStay(c)
        /\ \A p \in Caller \ {c} : caller'[p] = caller[p]
    BY <2>1, <2>2, GoesOn DEF DirectoriesInv
  <2>4. Moves(c)
    BY <1>1, <2>1, <2>2, <2>3 DEF Moves
  <2>5. DirectoriesTypeOK'
    BY <1>1, <2>1, <2>3 DEF DirectoriesInv, DirectoriesTypeOK
  <2>6. r.met # {} \/ Shared(c)'
    <3>1. q.met # {} \/ Shared(c)
      BY <1>1, <1>2, <1>6 DEF FailuresAreMet
    <3> QED BY <2>2, <2>3, <3>1 DEF Shared
  <2>7. InOrderOfCall(caller'[c]) /\ SweepInOrder(caller'[c]) /\ SweepIsCalm(caller[c])' /\ FailuresAreMet(c)'
    BY <2>2, <2>3, <2>6 DEF InOrderOfCall, SweepInOrder, SweepIsCalm, FailuresAreMet
  <2>8. ~Stores(c)'
    BY <2>2, <2>3 DEF Stores
  <2>9. NamesAreNew'
    BY <1>1, <1>2, <1>3, <2>1, <2>2, <2>3, <2>4, <2>8, NamesKeep
  <2>10. RecordedNamesStand'
    <3>1. \A name : Intact(name) => Intact(name)'
      BY <1>1, <2>1 DEF Intact
    <3> QED BY <1>1, <1>3, <2>4, <2>8, <3>1, RecordedKeep
  <2>11. EmptyDirsAreLookedAfter'
    <3>1. ASSUME NEW d \in dirs', d \notin dirs \/ HasFiles(d) \/ Fills(c, d) \/ Sweeps(c, d) PROVE LookedAfter(d)'
      BY <1>1, <2>1, <3>1 DEF HasFiles, Fills, Sweeps, LookedAfter
    <3> QED BY <1>1, <1>3, <2>4, <3>1, LookedAfterKeep
  <2> QED BY <1>4, <2>4, <2>5, <2>7, <2>9, <2>10, <2>11, MoveHolds
<1> QED BY <1>5, <1>6

\* The metadata go after the sweep.
LEMMA DeleteMetaStep ==
  ASSUME DirectoriesInv, layout # NoLayout, NEW c \in Caller, DeleteMeta(c)
  PROVE  DirectoriesInv'
<1> DEFINE q == caller[c]
           r == [q EXCEPT !.pc = "over", !.end = "deleted"]
<1>1. /\ q.pc = "forgetting" /\ UNCHANGED <<layout, dirs, content>>
      /\ recorded' = Drop(recorded, {q.name}) /\ Goes(c, r)
  BY DEF DeleteMeta
<1>2. q \in CallState /\ q.end = "none" /\ DOMAIN q.walks = {} /\ q.probes = {}
  BY <1>1, CallFacts DEF InOrderOfCall
<1>3. ~Stores(c) /\ ~Unanswered(c) /\ \A name : c \in Deleting(name) => name = q.name
  BY <1>1, <1>2 DEF Stores, Unanswered, Deleting
<1>4. /\ r \in CallState /\ r.pc = "over" /\ r.name = q.name /\ r.end = "deleted" /\ r.met = q.met
      /\ DOMAIN r.walks = {} /\ r.probes = {}
  BY <1>2 DEF CallState
<1> HIDE DEF r
<1>5. caller' \in [Caller -> CallState] /\ caller'[c] = r /\ OthersStay(c)
  BY <1>1, <1>4, GoesOn DEF DirectoriesInv
<1>6. Moves(c)
  BY <1>1, <1>4, <1>5 DEF Moves
<1>7. /\ DOMAIN recorded' = DOMAIN recorded \ {q.name}
      /\ \A name \in DOMAIN recorded \ {q.name} : recorded'[name] = recorded[name]
  BY <1>1 DEF Drop
<1>8. DirectoriesTypeOK' /\ DirsFormTree'
  BY <1>1, <1>5, <1>7 DEF DirectoriesInv, DirectoriesTypeOK, DirsFormTree
<1>9. InOrderOfCall(caller'[c]) /\ SweepInOrder(caller'[c]) /\ SweepIsCalm(caller[c])' /\ FailuresAreMet(c)'
  BY <1>4, <1>5 DEF InOrderOfCall, SweepInOrder, SweepIsCalm, FailuresAreMet
<1>10. ~Stores(c)'
  BY <1>4, <1>5 DEF Stores
<1>11. NamesAreNew'
  BY <1>1, <1>2, <1>3, <1>4, <1>5, <1>6, <1>7, <1>10, NamesKeep
<1>12. RecordedNamesStand'
  <2>1. ASSUME NEW name \in DOMAIN recorded'
        PROVE  (name \in DOMAIN recorded /\ (Intact(name) => Intact(name)')) /\ c \notin Deleting(name)
    BY <1>1, <1>3, <1>7 DEF Intact
  <2> QED BY <1>3, <1>6, <1>10, <2>1, RecordedKeep
<1>13. EmptyDirsAreLookedAfter'
  <2>1. ASSUME NEW d \in dirs', d \notin dirs \/ HasFiles(d) \/ Fills(c, d) \/ Sweeps(c, d) PROVE LookedAfter(d)'
    BY <1>1, <2>1 DEF HasFiles, Fills, Sweeps, LookedAfter
  <2> QED BY <1>1, <1>3, <1>6, <2>1, LookedAfterKeep
<1> QED BY <1>6, <1>8, <1>9, <1>11, <1>12, <1>13, MoveHolds

-----------------------------------------------------------------------------
(* removeEmptyDirectories *)

\* A call that sweeps, or whose sweep another call has ended
Sweeping(q) == DOMAIN q.walks # {} \/ q.probes # {}

\* What the invariant says of a call that sweeps, or has
LEMMA SweepFacts ==
  ASSUME DirectoriesInv, NEW c \in Caller, Sweeping(caller[c])
  PROVE  LET q == caller[c]
         IN /\ q \in CallState /\ InOrderOfCall(q) /\ SweepInOrder(q) /\ SweepIsCalm(q)
            /\ q.walks \in Listings /\ DOMAIN q.walks \subseteq Dir /\ q.probes \subseteq Name
            /\ \/ q.pc = "sweeping" /\ q.end = "none" /\ <<>> \in DOMAIN q.walks
               \/ q.pc = "over" /\ q.end = "kept" /\ q.met # {} /\ <<>> \notin DOMAIN q.walks
            /\ ~Stores(c)
<1> DEFINE q == caller[c]
<1>1. q \in CallState /\ InOrderOfCall(q) /\ SweepInOrder(q) /\ SweepIsCalm(q)
  BY CallFacts
<1>2. q.walks \in Listings /\ q.probes \subseteq Name /\ DOMAIN q.walks \subseteq Dir
  BY <1>1, ListingsOf DEF CallState
<1>3. \/ q.pc = "sweeping" /\ q.end = "none" /\ <<>> \in DOMAIN q.walks
      \/ q.pc = "over" /\ q.end = "kept" /\ q.met # {} /\ <<>> \notin DOMAIN q.walks
  <2>1. q.pc \in {"sweeping", "over"}
    BY <1>1 DEF Sweeping, InOrderOfCall
  <2> QED BY <1>1, <2>1 DEF Sweeping, InOrderOfCall
<1>4. ~Stores(c)
  BY <1>3 DEF Stores
<1> QED BY <1>1, <1>2, <1>3, <1>4

\* The tree below what is there, and below what is empty
LEMMA TreeFacts ==
  ASSUME dirs \subseteq Dir, DirsFormTree
  PROVE  /\ \A d \in dirs : d \in Dir /\ d # <<>> /\ Path(d) \subseteq dirs \cup {<<>>}
         /\ \A d \in dirs : \A e \in Path(d) : e # d => \E f \in Subdirectories(e) : f \in Path(d)
         /\ \A d \in dirs : \A e \in Path(d) : IsEmpty(e) => e = d
<1>1. \A d \in dirs : d \in Dir /\ d # <<>> /\ Path(d) \subseteq dirs \cup {<<>>}
  BY DEF DirsFormTree, Path
<1>2. ASSUME NEW d \in dirs, NEW e \in Path(d), e # d PROVE \E f \in Subdirectories(e) : f \in Path(d)
  <2>1. PICK f \in Path(d) : f # <<>> /\ f # e /\ Front(f) = e
    BY <1>1, <1>2, StepDown
  <2> QED BY <1>1, <2>1 DEF Subdirectories
<1>3. \A d \in dirs : \A e \in Path(d) : IsEmpty(e) => e = d
  BY <1>2 DEF IsEmpty
<1> QED BY <1>1, <1>2, <1>3

\* A sweep goes on, or is over: what remains to show is the order of its walks, and that what it lets go
\* is looked after.
LEMMA SweepStep ==
  ASSUME DirectoriesInv, layout # NoLayout, NEW c \in Caller, Sweeping(caller[c]),
         UNCHANGED <<layout, content, recorded>>,
         NEW r \in CallState, caller' \in [Caller -> CallState], caller'[c] = r, OthersStay(c),
         dirs' = dirs \/ (dirs' \subseteq dirs /\ OthersMeet(c, "rmdir")),
         r.name = caller[c].name, r.met = caller[c].met,
         \/ r.end = caller[c].end /\ r.pc = caller[c].pc
         \/ r.end = caller[c].end /\ r.pc = "forgetting" /\ caller[c].pc = "sweeping"
         \/ r.end = "kept" /\ r.pc = "over" /\ r.met # {},
         DirsFormTree', InOrderOfCall(r), SweepInOrder(r), SweepIsCalm(caller[c])',
         (\E p \in Caller : Unanswered(p)) \/ Unanswered(c)' \/ \A d \in dirs' :
           /\ Sweeps(c, d) => LookedAfter(d)'
           /\ dirs' = dirs \/ \A p \in Caller \ {c} : Fills(p, d) => LookedAfter(d)'
  PROVE  DirectoriesInv'
<1> DEFINE q == caller[c]
<1>1. /\ q \in CallState /\ ~Stores(c) /\ dirs' \subseteq dirs
      /\ \/ q.pc = "sweeping" /\ q.end = "none" /\ <<>> \in DOMAIN q.walks
         \/ q.pc = "over" /\ q.end = "kept" /\ q.met # {} /\ <<>> \notin DOMAIN q.walks
  BY SweepFacts
<1>2. r.pc \in {"sweeping", "forgetting", "over"} /\ (r.pc = "over" => r.end = "kept" /\ r.met # {})
      /\ (r.pc # "over" => r.end = "none")
  BY <1>1
<1>3. Moves(c)
  BY <1>1, <1>2 DEF Moves
<1>4. DirectoriesTypeOK'
  BY <1>1 DEF DirectoriesInv, DirectoriesTypeOK
<1>5. FailuresAreMet(c)'
  BY <1>2 DEF FailuresAreMet
<1>6. ~Stores(c)' /\ (Unanswered(c) => Unanswered(c)')
  BY <1>1, <1>2 DEF Stores, Unanswered
<1>7. NamesAreNew'
  BY <1>1, <1>2, <1>3, <1>6, NamesKeep
<1>8. RecordedNamesStand'
  <2>1. \A name : Intact(name) => Intact(name)'
    BY DEF Intact
  <2>2. \A name : c \in Deleting(name) => c \in Deleting(name)' \/ Unanswered(c)'
    BY <1>1, <1>2 DEF Deleting, Unanswered
  <2> QED BY <1>1, <1>3, <1>6, <2>1, <2>2, RecordedKeep
<1>9. EmptyDirsAreLookedAfter'
  <2>1. ASSUME NEW d \in dirs'
        PROVE  d \in dirs /\ (HasFiles(d) => LookedAfter(d)') /\ ~Fills(c, d)
    BY <1>1 DEF HasFiles, LookedAfter, Fills
  <2> QED BY <1>1, <1>3, <1>6, <2>1, LookedAfterKeep
<1> QED BY <1>3, <1>4, <1>5, <1>7, <1>8, <1>9, MoveHolds

\* An error ends the sweep, which has met another call.
LEMMA RejectedStep ==
  ASSUME DirectoriesInv, layout # NoLayout, NEW c \in Caller, Sweeping(caller[c]),
         UNCHANGED <<layout, dirs, content, recorded>>,
         NEW q \in CallState, NEW dir,
         q.name = caller[c].name, q.met = caller[c].met, q.walks = caller[c].walks, q.met # {},
         Goes(c, Rejected(q, dir))
  PROVE  DirectoriesInv'
<1> DEFINE keys == {<<>>} \cup Above(dir)
           walks == Drop(q.walks, keys)
           r == [q EXCEPT !.walks = walks, !.pc = "over", !.end = "kept"]
<1>1. q.walks \in Listings /\ walks \in Listings /\ DOMAIN walks = DOMAIN q.walks \ keys
  BY DropListing DEF CallState
<1>2. Goes(c, r)
  BY DEF Rejected
<1> HIDE DEF walks
<1>3. r \in CallState /\ r.pc = "over" /\ r.end = "kept" /\ r.name = q.name /\ r.met = q.met /\ r.walks = walks
  BY <1>1 DEF CallState
<1> HIDE DEF r
<1>4. caller' \in [Caller -> CallState] /\ caller'[c] = r /\ OthersStay(c)
  BY <1>2, <1>3, GoesOn DEF DirectoriesInv
<1>5. InOrderOfCall(r) /\ SweepInOrder(r) /\ SweepIsCalm(caller[c])'
  BY <1>1, <1>3, <1>4 DEF InOrderOfCall, SweepInOrder, SweepIsCalm
<1>6. DirsFormTree' /\ Unanswered(c)'
  BY <1>3, <1>4 DEF DirectoriesInv, DirsFormTree, Unanswered
<1> QED BY <1>3, <1>4, <1>5, <1>6, SweepStep

\* A sweep that has to be done with a directory has nothing below it.
LEMMA Leaves ==
  ASSUME DirectoriesInv, NEW c \in Caller, caller[c].pc = "sweeping", NEW dir \in DOMAIN caller[c].walks,
         \/ caller[c].walks[dir] # "waiting"
         \/ \A d \in DOMAIN caller[c].walks : d # <<>> => Front(d) # dir
  PROVE  \A e \in DOMAIN caller[c].walks : dir \in Path(e) => e = dir
<1> DEFINE q == caller[c]
<1>1. SweepInOrder(q) /\ DOMAIN q.walks \subseteq Dir
  BY SweepFacts DEF Sweeping
<1> SUFFICES ASSUME NEW e \in DOMAIN q.walks, dir \in Path(e), e # dir PROVE FALSE
  OBVIOUS
<1>2. q.walks[dir] = "waiting"
  BY <1>1 DEF SweepInOrder
<1>3. PICK f \in Path(e) : f # <<>> /\ f # dir /\ Front(f) = dir
  BY <1>1, StepDown
<1>4. f \in DOMAIN q.walks
  BY <1>1, <1>3 DEF SweepInOrder
<1> QED BY <1>2, <1>3, <1>4

\* The sweep is done with a directory that has nothing below it any more.
LEMMA ReturnedStep ==
  ASSUME DirectoriesInv, layout # NoLayout, NEW c \in Caller,
         UNCHANGED <<layout, content, recorded>>,
         NEW dir \in DOMAIN caller[c].walks,
         \/ dirs' = dirs /\ Goes(c, Returned(caller[c], dir))
         \/ /\ dir \in dirs /\ IsEmpty(dir) /\ dirs' = dirs \ {dir}
            /\ Disturbs(c, Returned(caller[c], dir), "rmdir"),
         caller[c].pc = "sweeping" =>
           /\ \A e \in DOMAIN caller[c].walks : dir \in Path(e) => e = dir
           /\ \A name \in caller[c].probes : name.dir # dir,
         (\E p \in Caller : Unanswered(p)) \/ caller[c].pc = "over" \/ \A d \in dirs' :
           d = dir \/ (caller[c].walks[dir] = "called" /\ dir \in Path(d)) => LookedAfter(d)'
  PROVE  DirectoriesInv'
<1> DEFINE q == caller[c]
           walks == Drop(q.walks, {dir})
           pc == IF dir = <<>> THEN "forgetting" ELSE q.pc
           r == [q EXCEPT !.walks = walks, !.pc = pc]
<1>0. Sweeping(q)
  BY DEF Sweeping
<1>1. /\ q \in CallState /\ InOrderOfCall(q) /\ SweepInOrder(q) /\ SweepIsCalm(q)
      /\ q.walks \in Listings /\ DOMAIN q.walks \subseteq Dir
      /\ \/ q.pc = "sweeping" /\ q.end = "none" /\ <<>> \in DOMAIN q.walks
         \/ q.pc = "over" /\ q.end = "kept" /\ q.met # {} /\ <<>> \notin DOMAIN q.walks
  BY <1>0, SweepFacts
<1>2. /\ walks \in Listings /\ DOMAIN walks = DOMAIN q.walks \ {dir}
      /\ \A d \in DOMAIN q.walks \ {dir} : walks[d] = q.walks[d]
  BY <1>1, DropListing
<1>3. Returned(q, dir) = r
  BY DEF Returned
<1> HIDE DEF walks
<1>4. pc \in {"sweeping", "forgetting", "over"} /\ (dir = <<>> => q.pc = "sweeping" /\ pc = "forgetting") /\ (dir # <<>> => pc = q.pc)
  BY <1>1
<1> HIDE DEF pc
<1>5. /\ r \in CallState /\ r.pc = pc /\ r.end = q.end /\ r.name = q.name /\ r.met = q.met /\ r.walks = walks
      /\ r.probes = q.probes
  BY <1>1, <1>2, <1>4 DEF CallState
<1> HIDE DEF r
<1>6. /\ caller' \in [Caller -> CallState] /\ caller'[c] = r /\ OthersStay(c)
      /\ dirs' = dirs \/ OthersMeet(c, "rmdir")
  BY <1>3, <1>5, GoesOn, GoesOnMet DEF DirectoriesInv
<1>7. \A e \in DOMAIN q.walks : <<>> \in Path(e)
  BY DEF Path
<1>8. InOrderOfCall(r)
  <2>1. CASE dir = <<>>
    <3>1. DOMAIN walks = {}
      BY <1>2, <1>4, <1>7, <2>1
    <3>2. q.probes = {}
      BY <1>1, <1>2, <1>4, <2>1, <3>1 DEF SweepInOrder
    <3> QED BY <1>1, <1>4, <1>5, <2>1, <3>1, <3>2 DEF InOrderOfCall
  <2>2. CASE dir # <<>>
    BY <1>1, <1>2, <1>4, <1>5, <2>2 DEF InOrderOfCall
  <2> QED BY <2>1, <2>2
<1>9. SweepInOrder(r)
  <2> SUFFICES ASSUME r.pc = "sweeping" PROVE SweepInOrder(r)
    BY DEF SweepInOrder
  <2>1. q.pc = "sweeping" /\ dir # <<>>
    BY <1>4, <1>5
  <2>2. ASSUME NEW d \in DOMAIN walks PROVE Path(d) \subseteq DOMAIN walks
    BY <1>1, <1>2, <2>1 DEF SweepInOrder
  <2>3. ASSUME NEW name \in r.probes PROVE name.dir \in DOMAIN walks /\ walks[name.dir] = "waiting"
    BY <1>1, <1>2, <1>5, <2>1 DEF SweepInOrder
  <2>4. ASSUME NEW d \in DOMAIN walks, NEW e \in DOMAIN walks, d \in Path(e), d # e PROVE walks[d] = "waiting"
    BY <1>1, <1>2, <2>1, <2>4 DEF SweepInOrder
  <2>5. walks[<<>>] # "empty"
    BY <1>1, <1>2, <2>1 DEF SweepInOrder
  <2> QED BY <1>5, <2>2, <2>3, <2>4, <2>5 DEF SweepInOrder
<1>10. dirs' \subseteq dirs /\ dirs \subseteq dirs' \cup {dir}
  OBVIOUS
<1>11. SweepIsCalm(caller[c])'
  <2> SUFFICES ASSUME r.pc = "sweeping", r.met = {}
               PROVE  /\ \A d \in DOMAIN walks : d = <<>> \/ d \in dirs'
                      /\ \A d \in DOMAIN walks : walks[d] = "empty" => IsEmpty(d)'
                      /\ r.probes \subseteq DOMAIN content'
    BY <1>5, <1>6 DEF SweepIsCalm
  <2>1. q.pc = "sweeping" /\ q.met = {}
    BY <1>4, <1>5
  <2>2. \A d : IsEmpty(d) => IsEmpty(d)'
    BY <1>10 DEF IsEmpty, Files, Subdirectories
  <2> QED BY <1>1, <1>2, <1>5, <1>10, <2>1, <2>2 DEF SweepIsCalm
<1>12. dirs \subseteq Dir /\ DirsFormTree
  BY DEF DirectoriesInv, DirectoriesTypeOK
<1>13. DirsFormTree'
  <2>1. CASE dirs' = dirs
    BY <1>12, <2>1 DEF DirsFormTree
  <2>2. CASE IsEmpty(dir) /\ dirs' = dirs \ {dir}
    <3>1. \A d \in dirs' : dir \notin Path(d)
      BY <1>12, <2>2, TreeFacts
    <3> QED BY <1>12, <2>2, <3>1 DEF DirsFormTree, Path
  <2> QED BY <2>1, <2>2
<1>14. (\E p \in Caller : Unanswered(p)) \/ Unanswered(c)' \/ \A d \in dirs' :
         /\ Sweeps(c, d) => LookedAfter(d)'
         /\ dirs' = dirs \/ \A p \in Caller \ {c} : Fills(p, d) => LookedAfter(d)'
  <2>1. CASE q.pc = "over"
    BY <1>1, <1>4, <1>5, <1>6, <2>1 DEF Unanswered
  <2>2. CASE \E p \in Caller : Unanswered(p)
    BY <2>2
  <2>3. CASE q.pc # "over" /\ \A p \in Caller : ~Unanswered(p)
    <3>1. q.pc = "sweeping"
      BY <1>1, <2>3
    <3>2. ASSUME NEW d \in dirs', Sweeps(c, d) PROVE LookedAfter(d)'
      <4>1. CASE d = dir \/ (q.walks[dir] = "called" /\ dir \in Path(d))
        BY <2>3, <4>1
      <4>2. CASE d # dir /\ ~(q.walks[dir] = "called" /\ dir \in Path(d)) /\ dir # <<>>
        <5>1. r.pc = "sweeping"
          BY <1>4, <1>5, <3>1, <4>2
        <5>2. d \in DOMAIN walks \/ \E e \in DOMAIN walks : e \in Path(d) /\ walks[e] = "called"
          BY <1>2, <3>2, <4>2 DEF Sweeps
        <5>3. Sweeps(c, d)'
          BY <1>5, <1>6, <5>1, <5>2 DEF Sweeps, Path, Above
        <5> QED BY <5>3 DEF LookedAfter
      <4>3. CASE d # dir /\ ~(q.walks[dir] = "called" /\ dir \in Path(d)) /\ dir = <<>>
        <5>1. \A e \in DOMAIN q.walks : e = dir
          BY <1>7, <3>1, <4>3
        <5> QED BY <3>2, <4>3, <5>1 DEF Sweeps
      <4> QED BY <4>1, <4>2, <4>3
    <3>3. ASSUME dirs' # dirs, NEW d \in dirs', NEW p \in Caller \ {c}, Fills(p, d) PROVE LookedAfter(d)'
      <4>1. dir \in dirs /\ dirs' = dirs \ {dir}
        BY <3>3
      <4>2. caller'[p].pc = caller[p].pc /\ caller'[p].name = caller[p].name
        BY <1>6 DEF OthersStay
      <4>3. CASE caller[p].name.dir # dir
        <5>1. Fills(p, d)'
          BY <3>3, <4>1, <4>2, <4>3 DEF Fills, Path, Above
        <5> QED BY <5>1 DEF LookedAfter
      <4>4. CASE caller[p].name.dir = dir
        <5>1. d \in Path(dir) /\ d # dir /\ dir # <<>>
          BY <1>12, <3>3, <4>1, <4>4 DEF Fills, DirsFormTree
        <5>2. d \in DOMAIN walks /\ r.pc = "sweeping"
          BY <1>1, <1>2, <1>4, <1>5, <3>1, <5>1 DEF SweepInOrder
        <5>3. Sweeps(c, d)'
          BY <1>5, <1>6, <5>2 DEF Sweeps
        <5> QED BY <5>3 DEF LookedAfter
      <4> QED BY <4>3, <4>4
    <3> QED BY <3>2, <3>3
  <2> QED BY <2>1, <2>2, <2>3
<1>15. \/ r.end = q.end /\ r.pc = q.pc
       \/ r.end = q.end /\ r.pc = "forgetting" /\ q.pc = "sweeping"
  BY <1>4, <1>5
<1> QED BY <1>0, <1>5, <1>6, <1>8, <1>9, <1>10, <1>11, <1>13, <1>14, <1>15, SweepStep

\* The sweep marks an empty directory.
LEMMA MarkedStep ==
  ASSUME DirectoriesInv, layout # NoLayout, NEW c \in Caller,
         UNCHANGED <<layout, dirs, content, recorded>>,
         NEW dir \in DOMAIN caller[c].walks, dir \in dirs, IsEmpty(dir),
         Goes(c, [caller[c] EXCEPT !.walks[dir] = "empty"]),
         caller[c].pc = "sweeping" =>
           /\ \A e \in DOMAIN caller[c].walks : dir \in Path(e) => e = dir
           /\ \A name \in caller[c].probes : name.dir # dir
  PROVE  DirectoriesInv'
<1> DEFINE q == caller[c]
           walks == [q.walks EXCEPT ![dir] = "empty"]
           r == [q EXCEPT !.walks = walks]
<1>0. Sweeping(q)
  BY DEF Sweeping
<1>1. /\ q \in CallState /\ InOrderOfCall(q) /\ SweepInOrder(q) /\ SweepIsCalm(q)
      /\ q.walks \in Listings /\ DOMAIN q.walks \subseteq Dir
      /\ \/ q.pc = "sweeping" /\ q.end = "none" /\ <<>> \in DOMAIN q.walks
         \/ q.pc = "over" /\ q.end = "kept" /\ q.met # {} /\ <<>> \notin DOMAIN q.walks
  BY <1>0, SweepFacts
<1>2. /\ walks \in Listings /\ DOMAIN walks = DOMAIN q.walks /\ walks[dir] = "empty"
      /\ \A d \in DOMAIN q.walks \ {dir} : walks[d] = q.walks[d]
  <2>1. /\ q.walks = [d \in DOMAIN q.walks |-> q.walks[d]]
        /\ \A d \in DOMAIN q.walks : q.walks[d] \in {"called", "waiting", "empty"}
    BY <1>1, ListingsOf
  <2>2. walks = [d \in DOMAIN q.walks |-> IF d = dir THEN "empty" ELSE q.walks[d]]
    BY <2>1
  <2> HIDE DEF walks
  <2>3. walks \in [DOMAIN q.walks -> {"called", "waiting", "empty"}]
    BY <2>1, <2>2
  <2>4. walks \in Listings
    BY <1>1, <2>3, ListingsOf
  <2> QED BY <2>2, <2>4
<1>3. Goes(c, r)
  <2>1. [q EXCEPT !.walks[dir] = "empty"] = r
    OBVIOUS
  <2> QED BY <2>1
<1> HIDE DEF walks
<1>4. /\ r \in CallState /\ r.pc = q.pc /\ r.end = q.end /\ r.name = q.name /\ r.met = q.met /\ r.walks = walks
      /\ r.probes = q.probes
  BY <1>1, <1>2 DEF CallState
<1> HIDE DEF r
<1>5. caller' \in [Caller -> CallState] /\ caller'[c] = r /\ OthersStay(c)
  BY <1>3, <1>4, GoesOn DEF DirectoriesInv
<1>6. InOrderOfCall(r)
  BY <1>1, <1>2, <1>4 DEF InOrderOfCall
<1>7. dirs \subseteq Dir /\ DirsFormTree /\ DirsFormTree' /\ dir # <<>>
  BY DEF DirectoriesInv, DirectoriesTypeOK, DirsFormTree
<1>8. SweepInOrder(r)
  <2> SUFFICES ASSUME q.pc = "sweeping" PROVE SweepInOrder(r)
    BY <1>4 DEF SweepInOrder
  <2>1. \A d \in DOMAIN walks : Path(d) \subseteq DOMAIN walks
    BY <1>1, <1>2 DEF SweepInOrder
  <2>2. \A name \in q.probes : name.dir \in DOMAIN walks /\ walks[name.dir] = "waiting"
    BY <1>1, <1>2 DEF SweepInOrder
  <2>3. ASSUME NEW d \in DOMAIN walks, NEW e \in DOMAIN walks, d \in Path(e), d # e PROVE walks[d] = "waiting"
    BY <1>1, <1>2, <2>3 DEF SweepInOrder
  <2>4. walks[<<>>] # "empty"
    BY <1>1, <1>2, <1>7 DEF SweepInOrder
  <2> QED BY <1>4, <2>1, <2>2, <2>3, <2>4 DEF SweepInOrder
<1>9. SweepIsCalm(caller[c])'
  <2> SUFFICES ASSUME q.pc = "sweeping", q.met = {}
               PROVE  /\ \A d \in DOMAIN walks : d = <<>> \/ d \in dirs
                      /\ \A d \in DOMAIN walks : walks[d] = "empty" => IsEmpty(d)'
                      /\ q.probes \subseteq DOMAIN content
    BY <1>4, <1>5 DEF SweepIsCalm
  <2>1. \A d : IsEmpty(d) <=> IsEmpty(d)'
    BY DEF IsEmpty, Files, Subdirectories
  <2> QED BY <1>1, <1>2, <2>1 DEF SweepIsCalm
<1>10. ASSUME NEW d \in dirs', Sweeps(c, d) PROVE LookedAfter(d)'
  <2>1. q.pc = "sweeping" /\ r.pc = "sweeping"
    BY <1>4, <1>10 DEF Sweeps
  <2>2. d \in DOMAIN walks \/ \E e \in DOMAIN walks : e \in Path(d) /\ walks[e] = "called"
    <3>1. CASE d \in DOMAIN q.walks
      BY <1>2, <3>1
    <3>2. CASE d \notin DOMAIN q.walks
      <4>1. PICK e \in DOMAIN q.walks : e \in Path(d) /\ q.walks[e] = "called"
        BY <1>10, <3>2 DEF Sweeps
      <4>2. e # dir
        BY <1>7, <3>2, <4>1, TreeFacts
      <4> QED BY <1>2, <4>1, <4>2
    <3> QED BY <3>1, <3>2
  <2>3. Sweeps(c, d)'
    BY <1>4, <1>5, <2>1, <2>2 DEF Sweeps, Path, Above
  <2> QED BY <2>3 DEF LookedAfter
<1> QED BY <1>0, <1>4, <1>5, <1>6, <1>7, <1>8, <1>9, <1>10, SweepStep

\* The sweep lists a directory that has something.
LEMMA ListedStep ==
  ASSUME DirectoriesInv, layout # NoLayout, NEW c \in Caller,
         UNCHANGED <<layout, dirs, content, recorded>>,
         NEW dir \in DOMAIN caller[c].walks, caller[c].walks[dir] = "called",
         Goes(c, [caller[c] EXCEPT !.walks = [d \in DOMAIN @ \cup Subdirectories(dir) |->
                                                CASE d = dir -> "waiting"
                                                  [] d # dir /\ d \in Subdirectories(dir) -> "called"
                                                  [] OTHER -> @[d]],
                                   !.probes = @ \cup Files(dir)])
  PROVE  DirectoriesInv'
<1> DEFINE q == caller[c]
           below == Subdirectories(dir)
           walks == [d \in DOMAIN q.walks \cup below |->
                       CASE d = dir -> "waiting"
                         [] d # dir /\ d \in below -> "called"
                         [] OTHER -> q.walks[d]]
           probes == q.probes \cup Files(dir)
           r == [q EXCEPT !.walks = walks, !.probes = probes]
<1>0. Sweeping(q)
  BY DEF Sweeping
<1>1. /\ q \in CallState /\ InOrderOfCall(q) /\ SweepInOrder(q) /\ SweepIsCalm(q)
      /\ q.walks \in Listings /\ DOMAIN q.walks \subseteq Dir /\ q.probes \subseteq Name
      /\ \/ q.pc = "sweeping" /\ q.end = "none" /\ <<>> \in DOMAIN q.walks
         \/ q.pc = "over" /\ q.end = "kept" /\ q.met # {} /\ <<>> \notin DOMAIN q.walks
  BY <1>0, SweepFacts
<1>2. /\ dirs \subseteq Dir /\ DirsFormTree /\ DirsFormTree' /\ DOMAIN content \subseteq Name
  BY DEF DirectoriesInv, DirectoriesTypeOK, DirsFormTree
<1>3. \A d \in below : d \in dirs /\ d \in Dir /\ d # <<>> /\ d # dir /\ dir \in Path(d)
                       /\ \A e \in Path(d) : e # d => e \in Path(dir)
  <2> SUFFICES ASSUME NEW d \in below
               PROVE  d \in dirs /\ d \in Dir /\ d # <<>> /\ d # dir /\ dir \in Path(d)
                      /\ \A e \in Path(d) : e # d => e \in Path(dir)
    OBVIOUS
  <2>1. d \in dirs /\ d \in Dir /\ d # <<>> /\ Front(d) = dir
    BY <1>2 DEF Subdirectories
  <2> QED BY <2>1, Fronts
<1>4. Files(dir) \subseteq DOMAIN content /\ \A name \in Files(dir) : name.dir = dir
  BY DEF Files
<1> HIDE DEF below
<1>5. /\ walks \in Listings /\ DOMAIN walks = DOMAIN q.walks \cup below /\ walks[dir] = "waiting"
      /\ \A d \in below : walks[d] = "called"
      /\ \A d \in DOMAIN q.walks : d # dir /\ d \notin below => walks[d] = q.walks[d]
  <2>1. \A d \in DOMAIN q.walks : q.walks[d] \in {"called", "waiting", "empty"}
    BY <1>1, ListingsOf
  <2>2. walks \in [DOMAIN q.walks \cup below -> {"called", "waiting", "empty"}]
    BY <2>1
  <2>3. DOMAIN q.walks \cup below \in SUBSET Dir
    BY <1>1, <1>3
  <2>4. walks \in Listings
    BY <2>2, <2>3, ListingsOf
  <2> QED BY <1>3, <2>4
<1>6. Goes(c, r)
  BY DEF below
<1> HIDE DEF walks
<1>7. /\ r \in CallState /\ r.pc = q.pc /\ r.end = q.end /\ r.name = q.name /\ r.met = q.met /\ r.walks = walks
      /\ r.probes = probes
  BY <1>1, <1>2, <1>4, <1>5 DEF CallState
<1> HIDE DEF r
<1>8. caller' \in [Caller -> CallState] /\ caller'[c] = r /\ OthersStay(c)
  BY <1>6, <1>7, GoesOn DEF DirectoriesInv
<1>9. InOrderOfCall(r)
  <2>1. <<>> \in DOMAIN walks <=> <<>> \in DOMAIN q.walks
    BY <1>3, <1>5
  <2> QED BY <1>1, <1>5, <1>7, <2>1 DEF InOrderOfCall
<1>10. q.pc = "sweeping" =>
         /\ \A e \in DOMAIN q.walks : dir \in Path(e) => e = dir
         /\ \A d \in below : d \notin DOMAIN q.walks
  BY <1>3, Leaves
<1>11. SweepInOrder(r)
  <2> SUFFICES ASSUME q.pc = "sweeping" PROVE SweepInOrder(r)
    BY <1>7 DEF SweepInOrder
  <2>0. \A d \in DOMAIN q.walks : d # dir => walks[d] = q.walks[d]
    BY <1>5, <1>10
  <2>1. ASSUME NEW d \in DOMAIN walks PROVE Path(d) \subseteq DOMAIN walks
    <3>1. Path(dir) \subseteq DOMAIN q.walks
      BY <1>1 DEF SweepInOrder
    <3>2. CASE d \in DOMAIN q.walks
      BY <1>1, <1>5, <3>2 DEF SweepInOrder
    <3>3. CASE d \in below
      BY <1>3, <1>5, <3>1, <3>3
    <3> QED BY <1>5, <3>2, <3>3
  <2>2. ASSUME NEW name \in probes PROVE name.dir \in DOMAIN walks /\ walks[name.dir] = "waiting"
    <3>1. CASE name \in q.probes
      BY <1>1, <1>5, <2>0, <3>1 DEF SweepInOrder
    <3>2. CASE name \in Files(dir)
      BY <1>4, <1>5, <3>2
    <3> QED BY <3>1, <3>2
  <2>3. ASSUME NEW d \in DOMAIN walks, NEW e \in DOMAIN walks, d \in Path(e), d # e PROVE walks[d] = "waiting"
    <3>1. CASE e \in below
      <4>1. d \in Path(dir)
        BY <1>3, <2>3, <3>1
      <4>2. d = dir \/ (d \in DOMAIN q.walks /\ q.walks[d] = "waiting")
        BY <1>1, <4>1 DEF SweepInOrder
      <4> QED BY <1>5, <2>0, <4>2
    <3>2. CASE e \in DOMAIN q.walks /\ d \in DOMAIN q.walks
      <4>1. q.walks[d] = "waiting"
        BY <1>1, <2>3, <3>2 DEF SweepInOrder
      <4> QED BY <1>5, <2>0, <3>2, <4>1
    <3>3. CASE e \in DOMAIN q.walks /\ d \in below
      <4>1. dir \in Path(e)
        BY <1>1, <1>3, <2>3, <3>3, Paths
      <4>2. e = dir
        BY <1>10, <3>3, <4>1
      <4> QED BY <1>1, <1>3, <2>3, <3>3, <4>2, Paths
    <3> QED BY <1>5, <3>1, <3>2, <3>3
  <2>4. walks[<<>>] # "empty"
    BY <1>1, <1>5, <2>0 DEF SweepInOrder
  <2> QED BY <1>7, <2>1, <2>2, <2>3, <2>4 DEF SweepInOrder
<1>12. SweepIsCalm(caller[c])'
  <2> SUFFICES ASSUME q.pc = "sweeping", q.met = {}
               PROVE  /\ \A d \in DOMAIN walks : d = <<>> \/ d \in dirs
                      /\ \A d \in DOMAIN walks : walks[d] = "empty" => IsEmpty(d)'
                      /\ probes \subseteq DOMAIN content
    BY <1>7, <1>8 DEF SweepIsCalm
  <2>1. \A d : IsEmpty(d) <=> IsEmpty(d)'
    BY DEF IsEmpty, Files, Subdirectories
  <2> QED BY <1>1, <1>3, <1>4, <1>5, <2>1 DEF SweepIsCalm
<1>13. ASSUME NEW d \in dirs', Sweeps(c, d) PROVE LookedAfter(d)'
  <2>1. q.pc = "sweeping" /\ r.pc = "sweeping"
    BY <1>7, <1>13 DEF Sweeps
  <2>2. d \in DOMAIN walks \/ \E e \in DOMAIN walks : e \in Path(d) /\ walks[e] = "called"
    <3>1. CASE d \in DOMAIN q.walks
      BY <1>5, <3>1
    <3>2. CASE d \notin DOMAIN q.walks
      <4>1. PICK e \in DOMAIN q.walks : e \in Path(d) /\ q.walks[e] = "called"
        BY <1>13, <3>2 DEF Sweeps
      <4>2. CASE e = dir
        <5>1. PICK f \in Subdirectories(dir) : f \in Path(d)
          BY <1>2, <3>2, <4>1, <4>2, TreeFacts
        <5> QED BY <1>5, <5>1 DEF below
      <4>3. CASE e # dir
        BY <1>5, <1>10, <2>1, <4>1, <4>3
      <4> QED BY <4>2, <4>3
    <3> QED BY <3>1, <3>2
  <2>3. Sweeps(c, d)'
    BY <1>7, <1>8, <2>1, <2>2 DEF Sweeps, Path, Above
  <2> QED BY <2>3 DEF LookedAfter
<1> QED BY <1>0, <1>2, <1>7, <1>8, <1>9, <1>11, <1>12, <1>13, SweepStep

\* A directory is listed.
LEMMA VisitStep ==
  ASSUME DirectoriesInv, layout # NoLayout, NEW c \in Caller, NEW dir \in DOMAIN caller[c].walks, Visit(c, dir)
  PROVE  DirectoriesInv'
<1> DEFINE q == caller[c]
<1>1. q.walks[dir] = "called" /\ UNCHANGED <<layout, dirs, content, recorded>>
  BY DEF Visit
<1>2. /\ Sweeping(q) /\ q \in CallState /\ SweepInOrder(q) /\ SweepIsCalm(q)
      /\ \/ q.pc = "sweeping" /\ q.end = "none" /\ <<>> \in DOMAIN q.walks
         \/ q.pc = "over" /\ q.end = "kept" /\ q.met # {} /\ <<>> \notin DOMAIN q.walks
  BY SweepFacts DEF Sweeping
<1>3. dirs \subseteq Dir /\ DirsFormTree
  BY DEF DirectoriesInv, DirectoriesTypeOK
<1>4. q.pc = "sweeping" =>
        /\ \A e \in DOMAIN q.walks : dir \in Path(e) => e = dir
        /\ \A name \in q.probes : name.dir # dir
  BY <1>1, <1>2, Leaves DEF SweepInOrder
<1>5. CASE dir \notin dirs \cup {<<>>}
  <2>1. Goes(c, Rejected(q, dir))
    BY <1>5 DEF Visit
  <2>2. q.met # {}
    BY <1>2, <1>5 DEF SweepIsCalm
  <2> QED BY <1>1, <1>2, <2>1, <2>2, RejectedStep
<1>6. CASE dir = <<>> /\ IsEmpty(dir)
  <2>1. Goes(c, Returned(q, dir))
    BY <1>3, <1>6 DEF Visit, DirsFormTree
  <2>2. \A d \in dirs' : FALSE
    <3>1. \A d \in dirs : <<>> \in Path(d) /\ d # <<>>
      BY <1>3 DEF Path, DirsFormTree
    <3> QED BY <1>1, <1>3, <1>6, <3>1, TreeFacts
  <2> QED BY <1>1, <1>4, <2>1, <2>2, ReturnedStep
<1>7. CASE dir \in dirs /\ IsEmpty(dir)
  <2>1. Goes(c, [q EXCEPT !.walks[dir] = "empty"])
    BY <1>3, <1>7 DEF Visit, DirsFormTree
  <2> QED BY <1>1, <1>4, <1>7, <2>1, MarkedStep
<1>8. CASE dir \in dirs \cup {<<>>} /\ ~IsEmpty(dir)
  <2>1. Goes(c, [q EXCEPT !.walks = [d \in DOMAIN @ \cup Subdirectories(dir) |->
                                       CASE d = dir -> "waiting"
                                         [] d # dir /\ d \in Subdirectories(dir) -> "called"
                                         [] OTHER -> @[d]],
                          !.probes = @ \cup Files(dir)])
    BY <1>8 DEF Visit
  <2> QED BY <1>1, <2>1, ListedStep
<1> QED BY <1>5, <1>6, <1>7, <1>8

\* A file is looked at.
LEMMA ProbeStep ==
  ASSUME DirectoriesInv, layout # NoLayout, NEW c \in Caller, NEW name \in caller[c].probes, Probe(c, name)
  PROVE  DirectoriesInv'
<1> DEFINE q == caller[c]
           r == [q EXCEPT !.probes = q.probes \ {name}]
<1>1. UNCHANGED <<layout, dirs, content, recorded>> /\ Goes(c, IF name \in DOMAIN content THEN r ELSE Rejected(r, name.dir))
  BY DEF Probe
<1>2. /\ Sweeping(q) /\ q \in CallState /\ InOrderOfCall(q) /\ SweepInOrder(q) /\ SweepIsCalm(q)
      /\ \/ q.pc = "sweeping" /\ q.end = "none" /\ <<>> \in DOMAIN q.walks
         \/ q.pc = "over" /\ q.end = "kept" /\ q.met # {} /\ <<>> \notin DOMAIN q.walks
  BY SweepFacts DEF Sweeping
<1>3. /\ r \in CallState /\ r.pc = q.pc /\ r.end = q.end /\ r.name = q.name /\ r.met = q.met /\ r.walks = q.walks
      /\ r.probes = q.probes \ {name}
  BY <1>2 DEF CallState
<1> HIDE DEF r
<1>4. CASE name \notin DOMAIN content
  <2>1. q.met # {}
    BY <1>2, <1>4 DEF SweepIsCalm
  <2> QED BY <1>1, <1>2, <1>3, <1>4, <2>1, RejectedStep
<1>5. CASE name \in DOMAIN content
  <2>1. caller' \in [Caller -> CallState] /\ caller'[c] = r /\ OthersStay(c)
    BY <1>1, <1>3, <1>5, GoesOn DEF DirectoriesInv
  <2>2. InOrderOfCall(r) /\ SweepInOrder(r)
    BY <1>2, <1>3 DEF InOrderOfCall, SweepInOrder
  <2>3. SweepIsCalm(caller[c])'
    <3>1. \A d : IsEmpty(d) <=> IsEmpty(d)'
      BY <1>1 DEF IsEmpty, Files, Subdirectories
    <3> QED BY <1>1, <1>2, <1>3, <2>1, <3>1 DEF SweepIsCalm
  <2>4. DirsFormTree'
    BY <1>1 DEF DirectoriesInv, DirsFormTree
  <2>5. ASSUME NEW d \in dirs', Sweeps(c, d) PROVE LookedAfter(d)'
    <3>1. Sweeps(c, d)'
      BY <1>3, <2>1, <2>5 DEF Sweeps, Path, Above
    <3> QED BY <3>1 DEF LookedAfter
  <2> QED BY <1>1, <1>2, <1>3, <2>1, <2>2, <2>3, <2>4, <2>5, SweepStep
<1> QED BY <1>4, <1>5

\* What a sweep leaves in a directory is looked after by others.
LEMMA LeftToOthers ==
  ASSUME DirectoriesInv, NEW c \in Caller, caller[c].pc = "sweeping",
         NEW dir \in DOMAIN caller[c].walks, caller[c].walks[dir] = "waiting",
         \A d \in DOMAIN caller[c].walks : d # <<>> => Front(d) # dir,
         \A p \in Caller : ~Unanswered(p),
         dir \in dirs, ~IsEmpty(dir)
  PROVE  HasFiles(dir) \/ \E p \in Caller \ {c} : Fills(p, dir) \/ Sweeps(p, dir)
<1> DEFINE q == caller[c]
<1>1. dirs \subseteq Dir /\ DirsFormTree /\ DOMAIN content \subseteq Name
  BY DEF DirectoriesInv, DirectoriesTypeOK
<1>2. \A p \in Caller : Sweeping(caller[p]) => SweepInOrder(caller[p]) /\ DOMAIN caller[p].walks \subseteq Dir
  BY SweepFacts
<1>3. \A name \in DOMAIN content : name.dir \in Dir
  BY <1>1 DEF Name
<1>4. CASE Files(dir) # {}
  <2>1. PICK name \in DOMAIN content : name.dir = dir
    BY <1>4 DEF Files
  <2>2. dir \in Path(name.dir)
    BY <1>3, <2>1, Paths
  <2> QED BY <2>2 DEF HasFiles
<1>5. CASE Files(dir) = {}
  <2>1. PICK d \in dirs : d # <<>> /\ Front(d) = dir
    BY <1>5 DEF IsEmpty, Subdirectories
  <2>2. /\ d \in Dir /\ dir \in Dir /\ dir \in Path(d) /\ dir # d
        /\ \A e \in Path(d) : e # d => e \in Path(dir)
    BY <1>1, <2>1, Fronts
  <2>3. d \notin DOMAIN q.walks
    BY <2>1
  <2>4. LookedAfter(d)
    BY DEF DirectoriesInv, EmptyDirsAreLookedAfter
  <2>5. CASE HasFiles(d)
    <3>1. PICK name \in DOMAIN content : d \in Path(name.dir)
      BY <2>5 DEF HasFiles
    <3>2. dir \in Path(name.dir)
      BY <1>3, <2>2, <3>1, Paths
    <3> QED BY <3>2 DEF HasFiles
  <2>6. ASSUME NEW p \in Caller, Fills(p, d)
        PROVE  p # c /\ Fills(p, dir)
    <3>1. caller[p].name.dir \in Dir
      BY CallFacts DEF CallState, Name
    <3> QED BY <2>2, <2>6, <3>1, Paths DEF Fills
  <2>7. ASSUME NEW p \in Caller, Sweeps(p, d)
        PROVE  p # c /\ Sweeps(p, dir)
    <3> DEFINE w == caller[p].walks
    <3>1. caller[p].pc = "sweeping" /\ DOMAIN w # {}
      BY <2>7 DEF Sweeps
    <3>2. SweepInOrder(caller[p])
      BY <1>2, <3>1 DEF Sweeping
    <3>3. CASE d \in DOMAIN w
      <4>1. dir \in DOMAIN w
        BY <2>2, <3>1, <3>2, <3>3 DEF SweepInOrder
      <4> QED BY <2>3, <3>1, <3>3, <4>1 DEF Sweeps
    <3>4. CASE d \notin DOMAIN w
      <4>1. PICK e \in DOMAIN w : e \in Path(d) /\ w[e] = "called"
        BY <2>7, <3>4 DEF Sweeps
      <4>2. e \in Path(dir)
        BY <2>2, <3>4, <4>1
      <4>3. Sweeps(p, dir)
        BY <3>1, <4>1, <4>2 DEF Sweeps
      <4>4. p # c
        <5> SUFFICES ASSUME p = c PROVE FALSE
          OBVIOUS
        <5>1. e # dir
          BY <4>1
        <5>2. w[e] = "waiting"
          BY <3>1, <3>2, <4>1, <4>2, <5>1 DEF SweepInOrder
        <5> QED BY <4>1, <5>2
      <4> QED BY <4>3, <4>4
    <3> QED BY <3>3, <3>4
  <2> QED BY <2>4, <2>5, <2>6, <2>7 DEF LookedAfter
<1> QED BY <1>4, <1>5

\* A directory is listed again.
LEMMA RevisitStep ==
  ASSUME DirectoriesInv, layout # NoLayout, NEW c \in Caller, NEW dir \in DOMAIN caller[c].walks, Revisit(c, dir)
  PROVE  DirectoriesInv'
<1> DEFINE q == caller[c]
<1>1. /\ q.walks[dir] = "waiting" /\ UNCHANGED <<layout, dirs, content, recorded>>
      /\ \A d \in DOMAIN q.walks : d # <<>> => Front(d) # dir
      /\ \A name \in q.probes : name.dir # dir
  BY DEF Revisit
<1>2. /\ Sweeping(q) /\ q \in CallState /\ SweepInOrder(q) /\ SweepIsCalm(q)
      /\ \/ q.pc = "sweeping" /\ q.end = "none" /\ <<>> \in DOMAIN q.walks
         \/ q.pc = "over" /\ q.end = "kept" /\ q.met # {} /\ <<>> \notin DOMAIN q.walks
  BY SweepFacts DEF Sweeping
<1>3. dirs \subseteq Dir /\ DirsFormTree
  BY DEF DirectoriesInv, DirectoriesTypeOK
<1>4. q.pc = "sweeping" =>
        /\ \A e \in DOMAIN q.walks : dir \in Path(e) => e = dir
        /\ \A name \in q.probes : name.dir # dir
  BY <1>1, Leaves
<1>5. CASE dir \notin dirs \cup {<<>>}
  <2>1. Goes(c, Rejected(q, dir))
    BY <1>5 DEF Revisit
  <2>2. q.met # {}
    BY <1>2, <1>5 DEF SweepIsCalm
  <2> QED BY <1>1, <1>2, <2>1, <2>2, RejectedStep
<1>6. CASE dir \in dirs /\ IsEmpty(dir)
  <2>1. Goes(c, [q EXCEPT !.walks[dir] = "empty"])
    BY <1>3, <1>6 DEF Revisit
  <2> QED BY <1>1, <1>4, <1>6, <2>1, MarkedStep
<1>7. CASE dir \in dirs \cup {<<>>} /\ ~(dir \in dirs /\ IsEmpty(dir))
  <2>1. Goes(c, Returned(q, dir))
    BY <1>7 DEF Revisit
  <2>2. ASSUME q.pc = "sweeping", \A p \in Caller : ~Unanswered(p), dir \in dirs
        PROVE  LookedAfter(dir)'
    <3>1. HasFiles(dir) \/ \E p \in Caller \ {c} : Fills(p, dir) \/ Sweeps(p, dir)
      BY <1>1, <1>7, <2>2, LeftToOthers
    <3>2. \A p \in Caller \ {c} : caller'[p] = caller[p]
      BY <2>1, CallFacts DEF Goes
    <3>3. CASE HasFiles(dir)
      BY <1>1, <3>3 DEF HasFiles, LookedAfter
    <3>4. CASE \E p \in Caller \ {c} : Fills(p, dir) \/ Sweeps(p, dir)
      BY <1>1, <3>2, <3>4 DEF Fills, Sweeps, LookedAfter
    <3> QED BY <3>1, <3>3, <3>4
  <2> QED BY <1>1, <1>2, <1>4, <2>1, <2>2, ReturnedStep
<1> QED BY <1>5, <1>6, <1>7

\* An empty directory is removed.
LEMMA RmdirStep ==
  ASSUME DirectoriesInv, layout # NoLayout, NEW c \in Caller, NEW dir \in DOMAIN caller[c].walks, Rmdir(c, dir)
  PROVE  DirectoriesInv'
<1> DEFINE q == caller[c]
<1>1. q.walks[dir] = "empty" /\ UNCHANGED <<layout, content, recorded>>
  BY DEF Rmdir
<1>2. /\ Sweeping(q) /\ q \in CallState /\ SweepInOrder(q) /\ SweepIsCalm(q)
      /\ \/ q.pc = "sweeping" /\ q.end = "none" /\ <<>> \in DOMAIN q.walks
         \/ q.pc = "over" /\ q.end = "kept" /\ q.met # {} /\ <<>> \notin DOMAIN q.walks
  BY SweepFacts DEF Sweeping
<1>3. CASE dir \in dirs /\ IsEmpty(dir)
  <2>1. dirs' = dirs \ {dir} /\ Disturbs(c, Returned(q, dir), "rmdir")
    BY <1>3 DEF Rmdir
  <2>2. q.pc = "sweeping" =>
          /\ \A e \in DOMAIN q.walks : dir \in Path(e) => e = dir
          /\ \A name \in q.probes : name.dir # dir
    BY <1>1, <1>2, Leaves DEF SweepInOrder
  <2>3. \A d \in dirs' : d # dir
    BY <2>1
  <2> QED BY <1>1, <1>3, <2>1, <2>2, <2>3, ReturnedStep
<1>4. CASE ~(dir \in dirs /\ IsEmpty(dir))
  <2>1. Goes(c, Rejected(q, dir)) /\ dirs' = dirs
    BY <1>4 DEF Rmdir
  <2>2. q.met # {}
    BY <1>1, <1>2, <1>4 DEF SweepIsCalm, SweepInOrder
  <2> QED BY <1>1, <1>2, <2>1, <2>2, RejectedStep
<1> QED BY <1>3, <1>4

-----------------------------------------------------------------------------
(* All together *)

\* In the beginning there is nothing.
LEMMA DirectoriesInit_Inv == DirectoriesInit => DirectoriesInv
<1> SUFFICES ASSUME DirectoriesInit PROVE DirectoriesInv
  OBVIOUS
<1>1. /\ layout = NoLayout /\ dirs = {} /\ content = <<>> /\ recorded = <<>>
      /\ caller = [c \in Caller |-> Resting]
  BY DEF DirectoriesInit
<1>2. DOMAIN content = {} /\ DOMAIN recorded = {}
  BY <1>1, ListingsOf
<1>3. /\ Resting \in CallState /\ Resting.pc = "idle" /\ Resting.end = "none" /\ Resting.met = {}
      /\ DOMAIN Resting.walks = {} /\ Resting.probes = {}
  <2>1. <<>> \in Dir
    BY EmptySeq DEF Dir
  <2> QED BY <2>1, ListingsOf DEF Resting, CallState, Name
<1>4. \A c \in Caller : caller[c] = Resting
  BY <1>1
<1>5. DirectoriesTypeOK /\ NothingBefore /\ DirsFormTree /\ NamesAreNew /\ RecordedNamesStand /\ EmptyDirsAreLookedAfter
  BY <1>1, <1>2, <1>3, <1>4
     DEF DirectoriesTypeOK, NothingBefore, DirsFormTree, NamesAreNew, RecordedNamesStand, EmptyDirsAreLookedAfter
<1>6. CallsInOrder
  BY <1>3, <1>4 DEF CallsInOrder, InOrderOfCall, SweepInOrder, SweepIsCalm
<1>7. \A c \in Caller : FailuresAreMet(c)
  BY <1>3, <1>4 DEF FailuresAreMet
<1> QED BY <1>5, <1>6, <1>7 DEF DirectoriesInv

\* Files are there before the first call.
LEMMA ArrangeStep ==
  ASSUME DirectoriesInv, NEW patterns \in Patterns, NEW stored \in SUBSET Earlier, Arrange(patterns, stored)
  PROVE  DirectoriesInv'
<1>1. /\ layout = NoLayout /\ layout' = patterns /\ UNCHANGED caller
      /\ dirs' = UNION {Above(name.dir) : name \in stored}
      /\ content' = [name \in stored |-> name] /\ recorded' = content'
  BY DEF Arrange
<1>2. DOMAIN content' = stored /\ DOMAIN recorded' = stored /\ \A name \in stored : content'[name] = recorded'[name]
  BY <1>1
<1>3. ASSUME NEW name \in stored
      PROVE  /\ name \in Name /\ name.dir \in Dir
             /\ \A i \in DOMAIN name.file : name.file[i] \in Word \ Caller
  <2>1. name.dir \in Seq(Word) /\ name.file \in Seq(Word \ Caller)
    BY DEF Earlier
  <2>2. Word \subseteq Letter /\ Word \ Caller \subseteq Letter
    BY DEF Letter
  <2>3. name.dir \in Dir /\ name.file \in Dir
    BY <2>1, <2>2, SeqMonotonic DEF Dir
  <2>4. \A i \in DOMAIN name.file : name.file[i] \in Word \ Caller
    BY <2>1, LenProperties, ElementOfSeq
  <2>5. name = [dir |-> name.dir, file |-> name.file]
    BY DEF Earlier
  <2> QED BY <2>3, <2>4, <2>5 DEF Name
<1>4. patterns # NoLayout
  <2>1. "props" \in DOMAIN patterns /\ "props" \notin DOMAIN NoLayout
    BY DEF Patterns, NoLayout
  <2> QED BY <2>1
<1>5. \A c \in Caller : caller[c].pc = "idle" /\ caller'[c] = caller[c]
  BY <1>1 DEF DirectoriesInv, NothingBefore
<1>6. \A c \in Caller : /\ caller[c] \in CallState /\ caller[c].end = "none" /\ DOMAIN caller[c].walks = {}
                        /\ caller[c].probes = {}
  BY <1>5, CallFacts DEF InOrderOfCall
<1>7. \A d \in dirs' : \E name \in stored : d \in Above(name.dir)
  BY <1>1
<1>8. DirectoriesTypeOK'
  <2>1. dirs' \subseteq Dir
    BY <1>3, <1>7, Paths
  <2> QED BY <1>1, <1>2, <1>3, <2>1 DEF DirectoriesInv, DirectoriesTypeOK
<1>9. NothingBefore'
  BY <1>1, <1>4 DEF NothingBefore
<1>10. DirsFormTree'
  <2>1. ASSUME NEW d \in dirs' PROVE d # <<>> /\ Above(d) \subseteq dirs'
    <3>1. PICK name \in stored : d \in Above(name.dir)
      BY <1>7
    <3>2. /\ name.dir \in Dir /\ d \in Path(name.dir) /\ d # <<>> /\ Path(d) \subseteq Path(name.dir)
          /\ Path(name.dir) \ {<<>>} \subseteq Above(name.dir)
      BY <1>3, <3>1, Paths
    <3>3. d \in Dir /\ Above(d) \subseteq Path(d) \ {<<>>}
      BY <3>2, Paths
    <3> QED BY <1>1, <3>2, <3>3
  <2> QED BY <2>1 DEF DirsFormTree
<1>11. CallsInOrder' /\ \A c \in Caller : FailuresAreMet(c)'
  BY <1>5, <1>6, <1>8 DEF CallsInOrder, InOrderOfCall, SweepInOrder, SweepIsCalm, FailuresAreMet
<1>12. NamesAreNew'
  <2> SUFFICES ASSUME Unique' PROVE NamesAreNew'
    BY DEF NamesAreNew
  <2>1. ASSUME NEW name \in stored, NEW c \in Caller PROVE ~Signed(name, c)'
    <3> SUFFICES ASSUME Signed(name, c)' PROVE FALSE
      OBVIOUS
    <3>1. PICK i \in DOMAIN Effective' : Effective'[i] = "uuid"
      BY DEF Unique, Effective, ToSet
    <3>2. i \in DOMAIN name.file /\ name.file[i] = c
      BY <3>1 DEF Signed
    <3> QED BY <1>3, <3>1, <3>2
  <2>2. \A c \in Caller : ~Stores(c)'
    BY <1>5, <1>6 DEF Stores
  <2> QED BY <1>2, <1>5, <2>1, <2>2 DEF NamesAreNew
<1>13. RecordedNamesStand'
  BY <1>2 DEF RecordedNamesStand, Intact
<1>14. EmptyDirsAreLookedAfter'
  <2>1. ASSUME NEW d \in dirs' PROVE HasFiles(d)'
    BY <1>2, <1>7 DEF HasFiles, Path
  <2> QED BY <2>1 DEF EmptyDirsAreLookedAfter, LookedAfter
<1> QED BY <1>8, <1>9, <1>10, <1>11, <1>12, <1>13, <1>14 DEF DirectoriesInv

\* A directory on the path of a file is a prefix of the file's.
LEMMA PathIsPrefix ==
  ASSUME NEW e \in Dir, NEW d \in Path(e)
  PROVE  IsPrefix(d, e)
<1>1. /\ d \in Dir /\ Len(d) \in Nat /\ Len(e) \in Nat /\ Len(d) <= Len(e)
      /\ \A i \in 1 .. Len(d) : d[i] = e[i] /\ d[i] \in Letter
  BY PathIsBeginnings, ElementOfSeq DEF Dir
<1>2. ASSUME NEW s, \A i \in 1 .. Len(d) : s[i] = d[i]
      PROVE  SubSeq(s, 1, Len(d)) = d
  <2>1. \A i \in 1 .. Len(d) : s[i] \in Letter
    BY <1>1, <1>2
  <2>2. Len(d) \in Int
    BY <1>1
  <2>3. /\ SubSeq(s, 1, Len(d)) \in Seq(Letter)
        /\ Len(SubSeq(s, 1, Len(d))) = IF 1 <= Len(d) THEN Len(d) - 1 + 1 ELSE 0
        /\ \A i \in 1 .. Len(d) - 1 + 1 : SubSeq(s, 1, Len(d))[i] = s[1 + i - 1]
    BY <2>1, <2>2, SubSeqProperties
  <2>4. Len(SubSeq(s, 1, Len(d))) = Len(d) /\ \A i \in 1 .. Len(d) : SubSeq(s, 1, Len(d))[i] = d[i]
    BY <1>1, <1>2, <2>3
  <2> QED BY <1>1, <2>3, <2>4, SeqEqual DEF Dir
<1>3. SubSeq(d, 1, Len(d)) = d /\ SubSeq(e, 1, Len(d)) = d
  BY <1>1, <1>2
<1> QED BY <1>1, <1>3 DEF IsPrefix

\* What the calls owe each other holds when each step has been taken.
LEMMA DirectoriesInv_Stands == DirectoriesInv => StoredFilesStand
<1> SUFFICES ASSUME DirectoriesInv PROVE StoredFilesStand
  OBVIOUS
<1>1. ASSUME NEW name \in DOMAIN recorded
      PROVE  \/ name \in DOMAIN content /\ content[name] = recorded[name]
             \/ Deleting(name) # {}
             \/ \E c \in Caller : caller[c].name = name /\ (Unanswered(c) \/ (~Unique /\ Stores(c)))
  BY DEF DirectoriesInv, RecordedNamesStand, Intact, Excuses
<1>2. ASSUME NEW c \in Caller
      PROVE  /\ caller[c].end = "failed" => "rmdir" \in caller[c].met
             /\ caller[c].end = "kept" => caller[c].met # {} \/ \E p \in Caller \ {c} : caller[p].name = caller[c].name
  BY DEF DirectoriesInv, FailuresAreMet, Shared
<1>3. ASSUME Settled, NEW dir \in dirs, \A c \in Caller : ~Unanswered(c)
      PROVE  \E name \in DOMAIN content : IsPrefix(dir, name.dir)
  <2>1. LookedAfter(dir)
    BY <1>3 DEF DirectoriesInv, EmptyDirsAreLookedAfter
  <2>2. \A c \in Caller : ~Fills(c, dir) /\ ~Sweeps(c, dir)
    BY <1>3 DEF Settled, Fills, Sweeps
  <2>3. PICK name \in DOMAIN content : dir \in Path(name.dir)
    BY <2>1, <2>2 DEF LookedAfter, HasFiles
  <2>4. name.dir \in Dir
    BY DEF DirectoriesInv, DirectoriesTypeOK, Name
  <2> QED BY <2>3, <2>4, PathIsPrefix
<1> QED BY <1>1, <1>2, <1>3 DEF StoredFilesStand

\* Every step keeps the invariant.
LEMMA DirectoriesInv_Next == DirectoriesInv /\ [DirectoriesNext]_directoriesVars => DirectoriesInv'
<1> SUFFICES ASSUME DirectoriesInv, [DirectoriesNext]_directoriesVars PROVE DirectoriesInv'
  OBVIOUS
<1>1. ASSUME NEW patterns \in Patterns, NEW stored \in SUBSET Earlier, Arrange(patterns, stored)
      PROVE  DirectoriesInv'
  BY <1>1, ArrangeStep
<1>2. ASSUME layout # NoLayout, NEW c \in Caller,
             \/ \E original \in Word, field \in Word : StoreFile(c, original, [field |-> field])
             \/ \E name \in DOMAIN recorded : DeleteFile(c, name)
      PROVE  DirectoriesInv'
  BY <1>2, BeginStep
<1>3. ASSUME layout # NoLayout, NEW c \in Caller, DirectoriesStep(c)
      PROVE  DirectoriesInv'
  <2>1. CASE EnsureDirectory(c)
    BY <1>3, <2>1, EnsureDirectoryStep
  <2>2. CASE WriteFile(c)
    BY <1>3, <2>2, WriteFileStep
  <2>3. CASE SaveMeta(c)
    BY <1>3, <2>3, SaveMetaStep
  <2>4. CASE UnlinkFile(c)
    BY <1>3, <2>4, UnlinkFileStep
  <2>5. CASE DeleteMeta(c)
    BY <1>3, <2>5, DeleteMetaStep
  <2>6. ASSUME NEW dir \in DOMAIN caller[c].walks, Visit(c, dir) \/ Revisit(c, dir) \/ Rmdir(c, dir)
        PROVE  DirectoriesInv'
    BY <1>3, <2>6, VisitStep, RevisitStep, RmdirStep
  <2>7. ASSUME NEW name \in caller[c].probes, Probe(c, name)
        PROVE  DirectoriesInv'
    BY <1>3, <2>7, ProbeStep
  <2> QED BY <1>3, <2>1, <2>2, <2>3, <2>4, <2>5, <2>6, <2>7 DEF DirectoriesStep
<1>4. CASE UNCHANGED directoriesVars
  <2>1. UNCHANGED <<layout, dirs, content, recorded, caller>>
    BY <1>4 DEF directoriesVars
  <2>2. DirectoriesTypeOK' /\ NothingBefore' /\ DirsFormTree'
    BY <2>1 DEF DirectoriesInv, DirectoriesTypeOK, NothingBefore, DirsFormTree
  <2>3. CallsInOrder' /\ \A c \in Caller : FailuresAreMet(c)'
    BY <2>1 DEF DirectoriesInv, CallsInOrder, InOrderOfCall, SweepInOrder, SweepIsCalm, FailuresAreMet, Shared,
                Path, Above, IsEmpty, Files, Subdirectories
  <2>4. NamesAreNew'
    BY <2>1 DEF DirectoriesInv, NamesAreNew, Unique, Signed, Effective, Stores
  <2>5. RecordedNamesStand'
    BY <2>1 DEF DirectoriesInv, RecordedNamesStand, Intact, Excuses, Deleting, Unanswered, Unique, Stores
  <2>6. EmptyDirsAreLookedAfter'
    BY <2>1 DEF DirectoriesInv, EmptyDirsAreLookedAfter, LookedAfter, HasFiles, Fills, Sweeps, Unanswered
  <2> QED BY <2>2, <2>3, <2>4, <2>5, <2>6 DEF DirectoriesInv
<1> QED BY <1>1, <1>2, <1>3, <1>4 DEF DirectoriesNext

\* Whatever calls run together, over any patterns and any files: what has metadata has its file, as the
\* call wrote it, a failure has met another call, and no directory stays behind empty without one.
THEOREM StoredFilesAlwaysStand == DirectoriesSpec => []StoredFilesStand
<1> QED BY DirectoriesInit_Inv, DirectoriesInv_Next, DirectoriesInv_Stands, PTL DEF DirectoriesSpec

-----------------------------------------------------------------------------
(* Uploads *)

\* A request to upload or to unlink, with any files and names
Uploading ==
  \/ library = "none" /\ \E orm \in {"mongoose", "typeorm"}, value \in [FileField -> Seq(Upload)], order \in Seq(Upload) :
       Apart(order) /\ Attach(orm, value, order)
  \/ library # "none" /\ \E c \in Client :
       \/ \E fields \in Seq(FileField) : ReceiveFiles(c, fields)
       \/ \E items \in Seq([field : FileField, file : Upload]) : AskUnlink(c, items)
       \/ UploadsStep(c)

\* Any requests for one document, with any files
UploadsSpec == UploadsInit /\ [][Uploading]_uploadsVars

FieldsOfRequest ==
  {"pc", "op", "items", "tried", "seen", "found", "value", "moved", "doomed", "hand", "stale", "crossed", "end", "answer"}

AreLists(value) == DOMAIN value = FileField /\ \A f \in FileField : IsList(value[f])

\* What update has found is the document, unless another request has written it since; with mongoose
\* even then in arrays, unless it has written one.
KnowsDocument(q) ==
  /\ ~q.crossed => q.found = document
  /\ library = "mongoose" /\ ~q.stale => \A f \in FileField \cap Many : q.found[f] = document[f]

\* Which names go: with an upload only those of a field of one file, which it sends
KeepsNames(q) ==
  \A f \in FileField :
    IF f \notin Many
      THEN Of(q, f) = <<>> => q.value[f] = q.found[f]
      ELSE ToSet(q.found[f]) \subseteq ToSet(q.value[f])

\* with an unlink only those that were asked for, of those that its first find had
KeepsOthers(q) == \A f \in FileField : Of(q, f) # <<>> => ToSet(q.seen[f]) \ ToSet(Of(q, f)) \subseteq ToSet(q.value[f])

RequestInv(q) ==
  /\ DOMAIN q = FieldsOfRequest /\ IsList(q.items)
  /\ q.pc \in {"received", "moving"} => q.op = "upload"
  /\ q.pc \in {"asked", "updating"} => q.op = "unlink"
  /\ q.pc = "saving" => q.op \in {"upload", "unlink"}
  /\ q.pc \in {"moving", "updating", "saving"} => AreLists(q.value)
  /\ q.pc \in {"moving", "saving"} => AreLists(q.found) /\ KnowsDocument(q)
  /\ q.pc \in {"moving", "saving"} /\ q.op = "upload" => KeepsNames(q)
  /\ q.pc \in {"updating", "saving"} /\ q.op = "unlink" => KeepsOthers(q)
  /\ q.pc = "saving" /\ q.op = "unlink" => \A f \in FileField : Of(q, f) = <<>> => q.value[f] = q.found[f]

UploadsInv ==
  /\ library \in {"none", "mongoose", "typeorm"}
  /\ DOMAIN client = Client /\ AreLists(document)
  /\ library = "none" => document = Nothing /\ \A c \in Client : client[c] = Idle
  /\ \A c \in Client : RequestInv(client[c])

\* A set of numbers has a least one.
LEMMA LeastNumber ==
  ASSUME NEW S \in SUBSET Nat, S # {}
  PROVE  \E n \in S : \A m \in S : n <= m
<1> DEFINE less == OpToRel(<, Nat)
<1>1. IsWellFoundedOn(less, Nat)
  BY NatLessThanWellFounded
<1>2. \A m, n \in Nat : <<m, n>> \in less <=> m < n
  BY DEF OpToRel
<1> HIDE DEF less
<1>3. PICK n \in S : \A m \in S : ~(<<m, n>> \in less)
  BY <1>1, WFMin
<1>4. ASSUME NEW m \in S PROVE n <= m
  <2>1. m \in Nat /\ n \in Nat /\ ~(<<m, n>> \in less)
    BY <1>3
  <2>2. ~(m < n)
    BY <1>2, <2>1
  <2> QED BY <2>1, <2>2
<1> QED BY <1>4

\* What mergeFileArrays appends
LEMMA Appended ==
  ASSUME NEW s, NEW t, IsList(s), IsList(t)
  PROVE  IsList(s \o t) /\ ToSet(s) \subseteq ToSet(s \o t)
<1> DEFINE S == {s[i] : i \in DOMAIN s} \cup {t[i] : i \in DOMAIN t}
<1>1. s \in Seq(S) /\ t \in Seq(S)
  BY DEF IsList
<1> HIDE DEF S
<1>2. s \o t \in Seq(S) /\ Len(s \o t) = Len(s) + Len(t) /\ \A i \in 1 .. Len(s) : (s \o t)[i] = s[i]
  BY <1>1
<1>3. IsList(s \o t)
  BY <1>2, SequencesAreLists
<1>4. ASSUME NEW i \in DOMAIN s PROVE s[i] \in ToSet(s \o t)
  <2>1. i \in 1 .. Len(s \o t) /\ (s \o t)[i] = s[i]
    BY <1>1, <1>2
  <2> QED BY <1>2, <2>1 DEF ToSet
<1> QED BY <1>3, <1>4 DEF ToSet

\* What is picked of a list is a list, with what it has at each of the positions.
LEMMA Picks ==
  ASSUME NEW s, IsList(s), NEW positions \in SUBSET DOMAIN s
  PROVE  IsList(At(s, positions)) /\ \A i \in positions : s[i] \in ToSet(At(s, positions))
<1>1. Len(s) \in Nat /\ DOMAIN s = 1 .. Len(s)
  BY ListsAreSequences
<1>2. \A i \in positions : Place(positions, i) \in 1 .. Cardinality(positions)
  BY <1>1, Numbering
<1>3. DOMAIN At(s, positions) = 1 .. Cardinality(positions)
  BY DEF At
<1> QED BY <1>2, <1>3, Selected DEF ToSet

\* A many-to-many table loses no name of its field, only its repetitions.
LEMMA OncePicks ==
  ASSUME NEW names, IsList(names)
  PROVE  IsList(Once(names)) /\ ToSet(names) \subseteq ToSet(Once(names))
<1> DEFINE positions == {i \in DOMAIN names : Times(names[i], names, i) = 1}
<1>1. Len(names) \in Nat /\ DOMAIN names = 1 .. Len(names)
  BY ListsAreSequences
<1>2. ASSUME NEW i \in DOMAIN names PROVE names[i] \in ToSet(Once(names))
  <2> DEFINE same == {j \in DOMAIN names : names[j] = names[i]}
  <2>1. same \in SUBSET Nat /\ same # {}
    BY <1>1
  <2>2. PICK j \in same : \A k \in same : j <= k
    BY <2>1, LeastNumber
  <2>3. {k \in DOMAIN names \cap 1 .. j : names[k] = names[j]} = {j}
    <3>1. j \in DOMAIN names \cap 1 .. j
      BY <1>1
    <3>2. ASSUME NEW k \in DOMAIN names \cap 1 .. j, names[k] = names[j] PROVE k = j
      <4>1. k \in same /\ k \in Int /\ j \in Int /\ k <= j
        BY <1>1, <3>2
      <4> QED BY <2>2, <4>1
    <3> QED BY <3>1, <3>2
  <2>4. j \in positions
    BY <2>3, FS_Singleton DEF Times
  <2> QED BY <2>4, Picks DEF Once
<1> QED BY <1>2, Picks DEF Once, ToSet

\* transformDeleteFilesRequest takes out no name that was not asked for.
LEMMA OthersRemain ==
  ASSUME NEW names, NEW gone, IsList(names), IsList(gone)
  PROVE  IsList(WithoutOnce(names, gone)) /\ ToSet(names) \ ToSet(gone) \subseteq ToSet(WithoutOnce(names, gone))
<1> DEFINE positions == {i \in DOMAIN names : Times(names[i], names, i) > Times(names[i], gone, Len(gone))}
<1>1. Len(names) \in Nat /\ DOMAIN names = 1 .. Len(names)
  BY ListsAreSequences
<1>2. ASSUME NEW i \in DOMAIN names, names[i] \notin ToSet(gone) PROVE names[i] \in ToSet(WithoutOnce(names, gone))
  <2> DEFINE same == {j \in DOMAIN names \cap 1 .. i : names[j] = names[i]}
  <2>1. Times(names[i], gone, Len(gone)) = 0
    <3>1. {j \in DOMAIN gone \cap 1 .. Len(gone) : gone[j] = names[i]} = {}
      BY <1>2 DEF ToSet
    <3> QED BY <3>1, FS_EmptySet DEF Times
  <2>2. Cardinality(same) \in Nat /\ Cardinality(same) # 0
    <3>1. IsFiniteSet(1 .. Len(names)) /\ same \in SUBSET (1 .. Len(names))
      BY <1>1, FS_Interval
    <3>2. IsFiniteSet(same) /\ i \in same
      BY <1>1, <3>1, FS_Subset
    <3> QED BY <3>2, FS_CardinalityType, FS_EmptySet
  <2>3. i \in positions
    BY <2>1, <2>2 DEF Times
  <2> QED BY <2>3, Picks DEF WithoutOnce
<1> QED BY <1>2, Picks DEF WithoutOnce, ToSet

\* The files that a request sends or asks for, of a field
LEMMA SentAreLists ==
  ASSUME NEW q, IsList(q.items)
  PROVE  \A f \in FileField : IsList(Of(q, f))
<1> TAKE f \in FileField
<1> DEFINE files == [i \in DOMAIN q.items |-> q.items[i].file]
           positions == {i \in DOMAIN q.items : q.items[i].field = f}
<1>1. Len(q.items) \in Nat /\ DOMAIN q.items = 1 .. Len(q.items)
  BY ListsAreSequences
<1>2. files \in Seq({files[i] : i \in DOMAIN files})
  BY <1>1
<1>3. IsList(files) /\ positions \in SUBSET DOMAIN files
  BY <1>2 DEF IsList
<1> HIDE DEF files, positions
<1>4. IsList(At(files, positions))
  BY <1>3, Picks
<1> QED BY <1>4 DEF Of, files, positions

\* A step of one request alone
Alone(c) ==
  /\ library # "none" /\ library' = library /\ document' = document
  /\ DOMAIN client' = Client /\ \A p \in Client \ {c} : client'[p] = client[p]

\* A step of one request that writes no document leaves the others as they were.
LEMMA AloneKeeps ==
  ASSUME UploadsInv, NEW c \in Client, Alone(c), RequestInv(client[c])'
  PROVE  UploadsInv'
<1>1. ASSUME NEW p \in Client PROVE RequestInv(client[p])'
  <2>1. CASE p = c
    BY <2>1
  <2>2. CASE p # c
    <3>1. client'[p] = client[p] /\ library' = library /\ document' = document /\ RequestInv(client[p])
      BY <2>2 DEF Alone, UploadsInv
    <3> QED BY <3>1 DEF RequestInv, KnowsDocument, KeepsNames, KeepsOthers, AreLists, Of
  <2> QED BY <2>1, <2>2
<1>2. AreLists(document)'
  BY DEF Alone, UploadsInv, AreLists
<1> QED BY <1>1, <1>2 DEF Alone, UploadsInv

\* A request before it comes
LEMMA IdleIsInOrder == RequestInv(Idle)
<1>1. IsList(Idle.items)
  BY DEF Idle, IsList
<1>2. DOMAIN Idle = FieldsOfRequest
  BY DEF Idle, FieldsOfRequest
<1> QED BY <1>1, <1>2 DEF RequestInv, Idle

\* A document without files
LEMMA NothingIsLists == AreLists(Nothing)
<1>1. IsList(<<>>)
  BY DEF IsList
<1> QED BY <1>1 DEF AreLists, Nothing

\* The interceptor
LEMMA ReceiveStep ==
  ASSUME UploadsInv, library # "none", NEW c \in Client, NEW fields \in Seq(FileField), ReceiveFiles(c, fields)
  PROVE  UploadsInv'
<1> DEFINE items == [i \in DOMAIN fields |-> [field |-> fields[i], file |-> New[i]]]
           q == [Idle EXCEPT !.pc = "received", !.op = "upload", !.items = items]
<1>1. Becomes(c, q) /\ UNCHANGED <<library, document>>
  BY DEF ReceiveFiles
<1>2. IsList(items)
  <2>1. Len(fields) \in Nat /\ DOMAIN items = 1 .. Len(fields)
    OBVIOUS
  <2>2. items \in [1 .. Len(fields) -> {items[i] : i \in DOMAIN items}]
    OBVIOUS
  <2> HIDE DEF items
  <2> QED BY <2>1, <2>2 DEF IsList
<1> HIDE DEF items
<1>3. DOMAIN q = FieldsOfRequest /\ q.items = items /\ q.pc = "received" /\ q.op = "upload"
  BY DEF Idle, FieldsOfRequest
<1> HIDE DEF q
<1>4. client'[c] = q /\ Alone(c)
  BY <1>1 DEF Alone, Becomes, UploadsInv
<1>5. RequestInv(client[c])'
  BY <1>2, <1>3, <1>4 DEF RequestInv
<1> QED BY <1>4, <1>5, AloneKeeps

\* unlink, asked for any files
LEMMA AskStep ==
  ASSUME UploadsInv, library # "none", NEW c \in Client, NEW items \in Seq([field : FileField, file : Upload]), AskUnlink(c, items)
  PROVE  UploadsInv'
<1> DEFINE q == [Idle EXCEPT !.pc = "asked", !.op = "unlink", !.items = items]
<1>1. Becomes(c, q) /\ UNCHANGED <<library, document>>
  BY DEF AskUnlink
<1>2. IsList(items)
  BY SequencesAreLists
<1>3. DOMAIN q = FieldsOfRequest /\ q.items = items /\ q.pc = "asked" /\ q.op = "unlink"
  BY DEF Idle, FieldsOfRequest
<1> HIDE DEF q
<1>4. client'[c] = q /\ Alone(c)
  BY <1>1 DEF Alone, Becomes, UploadsInv
<1>5. RequestInv(client[c])'
  BY <1>2, <1>3, <1>4 DEF RequestInv
<1> QED BY <1>4, <1>5, AloneKeeps

\* What a request does after its save, or in place of it
LEMMA EndStep ==
  ASSUME UploadsInv, library # "none", NEW c \in Client,
         \/ RefuseId(c) \/ RefuseFiles(c) \/ SaveFails(c) \/ Erase(c) \/ Forget(c) \/ Purged(c) \/ Clean(c)
  PROVE  UploadsInv'
<1>1. DOMAIN client = Client /\ DOMAIN client[c] = FieldsOfRequest /\ IsList(client[c].items)
  BY DEF UploadsInv, RequestInv
<1>2. /\ Alone(c) /\ DOMAIN client'[c] = FieldsOfRequest /\ client'[c].items = client[c].items
      /\ client'[c].pc \in {"purging", "undoing", "cleaning", "over"} \/ client'[c] = [client[c] EXCEPT !.hand = {}]
  <2>1. CASE RefuseId(c)
    BY <1>1, <2>1 DEF RefuseId, Becomes, Alone, FieldsOfRequest
  <2>2. CASE RefuseFiles(c)
    BY <1>1, <2>2 DEF RefuseFiles, Becomes, Alone, FieldsOfRequest
  <2>3. CASE SaveFails(c)
    BY <1>1, <2>3 DEF SaveFails, Undoing, Becomes, Alone, FieldsOfRequest
  <2>4. CASE Erase(c)
    BY <1>1, <2>4 DEF Erase, Becomes, Alone, FieldsOfRequest
  <2>5. CASE Forget(c)
    BY <1>1, <2>5 DEF Forget, Becomes, Alone, FieldsOfRequest
  <2>6. CASE Purged(c)
    <3> DEFINE q == client[c]
               answer == FilesResponse(q, IF library = "mongoose" THEN q.value ELSE document)
    <3>1. client' = [client EXCEPT ![c] =
            IF q.pc = "purging"
              THEN [q EXCEPT !.pc = IF q.op = "upload" THEN "cleaning" ELSE "over", !.end = "done", !.answer = answer]
              ELSE [q EXCEPT !.pc = IF q.op = "upload" THEN "cleaning" ELSE "over"]]
      BY <2>6 DEF Purged, Becomes
    <3>2. library' = library /\ document' = document
      BY <2>6 DEF Purged
    <3> HIDE DEF answer
    <3> QED BY <1>1, <3>1, <3>2 DEF Alone, FieldsOfRequest
  <2>7. CASE Clean(c)
    BY <1>1, <2>7 DEF Clean, Becomes, Alone, FieldsOfRequest
  <2> QED BY <2>1, <2>2, <2>3, <2>4, <2>5, <2>6, <2>7
<1>3. RequestInv(client[c])'
  <2>1. CASE client'[c].pc \in {"purging", "undoing", "cleaning", "over"}
    BY <1>1, <1>2, <2>1 DEF RequestInv
  <2>2. CASE client'[c] = [client[c] EXCEPT !.hand = {}]
    <3> DEFINE q == client[c]
               r == client'[c]
    <3>1. /\ r.pc = q.pc /\ r.op = q.op /\ r.items = q.items /\ r.seen = q.seen /\ r.found = q.found
          /\ r.value = q.value /\ r.stale = q.stale /\ r.crossed = q.crossed /\ DOMAIN r = FieldsOfRequest
      BY <1>1, <2>2 DEF FieldsOfRequest
    <3>2. RequestInv(q) /\ library' = library /\ document' = document
      BY <1>2 DEF UploadsInv, Alone
    <3> QED BY <3>1, <3>2 DEF RequestInv, KnowsDocument, KeepsNames, KeepsOthers, AreLists, Of
  <2> QED BY <1>2, <2>1, <2>2
<1> QED BY <1>2, <1>3, AloneKeeps

\* persistFiles: what update has found and what it writes stay as they are.
LEMMA MoveStep ==
  ASSUME UploadsInv, library # "none", NEW c \in Client, MoveFromTemp(c) \/ MoveFromTempFails(c) \/ Persist(c)
  PROVE  UploadsInv'
<1> DEFINE q == client[c]
           r == client'[c]
<1>1. DOMAIN client = Client /\ DOMAIN q = FieldsOfRequest /\ RequestInv(q)
  BY DEF UploadsInv, RequestInv
<1>2. /\ Alone(c) /\ q.pc = "moving" /\ r.pc \in {"moving", "saving", "undoing"}
      /\ r.op = q.op /\ r.items = q.items /\ r.seen = q.seen /\ r.found = q.found
      /\ r.value = q.value /\ r.stale = q.stale /\ r.crossed = q.crossed /\ DOMAIN r = FieldsOfRequest
  <2>1. CASE MoveFromTemp(c)
    BY <1>1, <2>1 DEF MoveFromTemp, Moving, Becomes, Alone, FieldsOfRequest
  <2>2. CASE MoveFromTempFails(c)
    BY <1>1, <2>2 DEF MoveFromTempFails, Moving, Becomes, Alone, FieldsOfRequest
  <2>3. CASE Persist(c)
    <3>1. CASE TooMany(q, Fields)
      BY <1>1, <2>3, <3>1 DEF Persist, Undoing, Becomes, Alone, FieldsOfRequest
    <3>2. CASE ~TooMany(q, Fields)
      BY <1>1, <2>3, <3>2 DEF Persist, Undoing, Becomes, Alone, FieldsOfRequest
    <3> QED BY <3>1, <3>2
  <2> QED BY <2>1, <2>2, <2>3
<1>3. library' = library /\ document' = document
  BY <1>2 DEF Alone
<1>4. RequestInv(client[c])'
  BY <1>1, <1>2, <1>3 DEF RequestInv, KnowsDocument, KeepsNames, KeepsOthers, AreLists, Of
<1> QED BY <1>2, <1>4, AloneKeeps

\* update finds the document, and merges what was sent into it.
LEMMA FindForUploadStep ==
  ASSUME UploadsInv, library # "none", NEW c \in Client, FindForUpload(c)
  PROVE  UploadsInv'
<1> DEFINE q == client[c]
           resource == [f \in FileField |-> IF Of(q, f) # <<>> THEN Of(q, f) ELSE document[f]]
           value == Merged(document, resource)
<1>1. DOMAIN client = Client /\ DOMAIN q = FieldsOfRequest /\ RequestInv(q) /\ IsList(q.items) /\ AreLists(document)
  BY DEF UploadsInv, RequestInv
<1>2. q.pc = "received" /\ library' = library /\ document' = document
      /\ client' = [client EXCEPT ![c] = [Rereads(q) EXCEPT !.pc = "moving", !.value = value]]
  BY DEF FindForUpload, Becomes
<1>3. \A f \in FileField : IsList(resource[f]) /\ (Of(q, f) = <<>> => resource[f] = document[f])
  BY <1>1, SentAreLists DEF AreLists
<1> HIDE DEF resource
<1>4. AreLists(value)
  <2>1. ASSUME NEW f \in FileField PROVE IsList(value[f])
    <3>1. IsList(document[f]) /\ IsList(resource[f])
      BY <1>1, <1>3 DEF AreLists
    <3>2. IsList(document[f] \o resource[f])
      BY <3>1, Appended
    <3> QED BY <3>1, <3>2 DEF Merged
  <2> QED BY <2>1 DEF AreLists, Merged
<1>5. \A f \in FileField :
        IF f \notin Many THEN Of(q, f) = <<>> => value[f] = document[f]
        ELSE ToSet(document[f]) \subseteq ToSet(value[f])
  <2> TAKE f \in FileField
  <2>1. IsList(document[f]) /\ IsList(resource[f])
    BY <1>1, <1>3 DEF AreLists
  <2>2. CASE f \notin Many
    BY <1>3, <2>2 DEF Merged
  <2>3. CASE f \in Many /\ document[f] # <<>>
    BY <2>1, <2>3, Appended DEF Merged
  <2>4. CASE f \in Many /\ document[f] = <<>>
    BY <2>4 DEF ToSet
  <2> QED BY <2>2, <2>3, <2>4
<1> HIDE DEF value
<1>6. /\ Alone(c) /\ DOMAIN client'[c] = FieldsOfRequest /\ client'[c].pc = "moving" /\ client'[c].op = "upload"
      /\ client'[c].items = q.items /\ client'[c].value = value /\ client'[c].found = document
  BY <1>1, <1>2 DEF Rereads, Alone, FieldsOfRequest, RequestInv
<1>7. RequestInv(client[c])'
  BY <1>1, <1>2, <1>4, <1>5, <1>6 DEF RequestInv, KnowsDocument, KeepsNames, AreLists, Of
<1> QED BY <1>6, <1>7, AloneKeeps

\* unlink finds the document, and takes out what was asked for.
LEMMA FindForUnlinkStep ==
  ASSUME UploadsInv, library # "none", NEW c \in Client, FindForUnlink(c)
  PROVE  UploadsInv'
<1> DEFINE q == client[c]
           value == [f \in FileField |-> WithoutOnce(document[f], Of(q, f))]
           unknown == \E i \in DOMAIN q.items : q.items[i].file \notin ToSet(document[q.items[i].field])
<1>1. DOMAIN client = Client /\ DOMAIN q = FieldsOfRequest /\ RequestInv(q) /\ IsList(q.items) /\ AreLists(document)
  BY DEF UploadsInv, RequestInv
<1>2. q.pc = "asked" /\ library' = library /\ document' = document
      /\ client' = [client EXCEPT ![c] = IF unknown THEN [q EXCEPT !.pc = "over", !.end = "refused"]
                                         ELSE [q EXCEPT !.pc = "updating", !.seen = document, !.value = value]]
  BY DEF FindForUnlink, Becomes
<1>3. \A f \in FileField : IsList(value[f]) /\ ToSet(document[f]) \ ToSet(Of(q, f)) \subseteq ToSet(value[f])
  <2> TAKE f \in FileField
  <2>1. IsList(document[f]) /\ IsList(Of(q, f))
    BY <1>1, SentAreLists DEF AreLists
  <2> QED BY <2>1, OthersRemain
<1>4. AreLists(value)
  BY <1>3 DEF AreLists
<1> HIDE DEF value, unknown
<1>5. CASE unknown
  <2>1. /\ Alone(c) /\ DOMAIN client'[c] = FieldsOfRequest /\ client'[c].pc = "over" /\ client'[c].items = q.items
    BY <1>1, <1>2, <1>5 DEF Alone, FieldsOfRequest
  <2>2. RequestInv(client[c])'
    BY <1>1, <2>1 DEF RequestInv
  <2> QED BY <2>1, <2>2, AloneKeeps
<1>6. CASE ~unknown
  <2>1. /\ Alone(c) /\ DOMAIN client'[c] = FieldsOfRequest /\ client'[c].pc = "updating" /\ client'[c].op = "unlink"
        /\ client'[c].items = q.items /\ client'[c].seen = document /\ client'[c].value = value
    BY <1>1, <1>2, <1>6 DEF Alone, FieldsOfRequest, RequestInv
  <2>2. RequestInv(client[c])'
    BY <1>1, <1>3, <1>4, <2>1 DEF RequestInv, KeepsOthers, AreLists, Of
  <2> QED BY <2>1, <2>2, AloneKeeps
<1> QED BY <1>5, <1>6

\* update finds it again, after unlink: the fields that were not asked for are those of the second find.
LEMMA FindForUpdateStep ==
  ASSUME UploadsInv, library # "none", NEW c \in Client, FindForUpdate(c)
  PROVE  UploadsInv'
<1> DEFINE q == client[c]
           value == [f \in FileField |-> IF Of(q, f) # <<>> THEN q.value[f] ELSE document[f]]
<1>1. /\ DOMAIN client = Client /\ DOMAIN q = FieldsOfRequest /\ RequestInv(q) /\ IsList(q.items) /\ AreLists(document)
      /\ q.pc = "updating" /\ library' = library /\ document' = document
  BY DEF UploadsInv, RequestInv, FindForUpdate
<1>2. CASE ~NamesKnown(q)
  <2>1. client' = [client EXCEPT ![c] = [q EXCEPT !.pc = "over", !.end = "refused"]]
    BY <1>2 DEF FindForUpdate, Becomes
  <2>2. /\ Alone(c) /\ DOMAIN client'[c] = FieldsOfRequest /\ client'[c].pc = "over" /\ client'[c].items = q.items
    BY <1>1, <2>1 DEF Alone, FieldsOfRequest
  <2>3. RequestInv(client[c])'
    BY <1>1, <2>2 DEF RequestInv
  <2> QED BY <2>2, <2>3, AloneKeeps
<1>3. CASE NamesKnown(q)
  <2>1. client' = [client EXCEPT ![c] = [Rereads(q) EXCEPT !.pc = "saving", !.value =
                     [f \in FileField |-> IF Of(q, f) # <<>> THEN @[f] ELSE document[f]]]]
    BY <1>3 DEF FindForUpdate, Becomes
  <2>2. /\ Alone(c) /\ DOMAIN client'[c] = FieldsOfRequest /\ client'[c].pc = "saving" /\ client'[c].op = "unlink"
        /\ client'[c].items = q.items /\ client'[c].seen = q.seen /\ client'[c].value = value
        /\ client'[c].found = document
    BY <1>1, <2>1 DEF Rereads, Alone, FieldsOfRequest, RequestInv
  <2>3. AreLists(value)
    BY <1>1 DEF AreLists, RequestInv
  <2>4. \A f \in FileField : /\ Of(q, f) = <<>> => value[f] = document[f]
                             /\ Of(q, f) # <<>> => value[f] = q.value[f]
    OBVIOUS
  <2> HIDE DEF value
  <2>5. RequestInv(client[c])'
    BY <1>1, <2>2, <2>3, <2>4 DEF RequestInv, KnowsDocument, KeepsOthers, AreLists, Of
  <2> QED BY <2>2, <2>5, AloneKeeps
<1> QED BY <1>2, <1>3

\* The document is written, and what others have found may no longer be it.
LEMMA SaveStep ==
  ASSUME UploadsInv, library # "none", NEW c \in Client, Save(c)
  PROVE  UploadsInv'
<1> DEFINE q == client[c]
<1>1. /\ DOMAIN client = Client /\ \A p \in Client : RequestInv(client[p])
      /\ AreLists(document) /\ AreLists(q.value) /\ q.pc = "saving" /\ library' = library
  BY DEF UploadsInv, RequestInv, Save
<1>2. AreLists(document')
  <2>1. \A f \in FileField : IsList(Once(q.value[f]))
    BY <1>1, OncePicks DEF AreLists
  <2>2. document' = [f \in FileField |-> IF library = "typeorm" THEN Once(q.value[f])
                                     ELSE IF f \in Modified(q) THEN q.value[f] ELSE document[f]]
    BY DEF Save
  <2> QED BY <1>1, <2>1, <2>2 DEF AreLists
<1>3. RequestInv(client[c])'
  <2>1. client'[c] = [q EXCEPT !.pc = "purging", !.doomed = Doomed(q)]
    BY DEF Save
  <2>2. DOMAIN client'[c] = FieldsOfRequest /\ client'[c].pc = "purging" /\ client'[c].items = q.items
    BY <1>1, <2>1 DEF RequestInv, FieldsOfRequest
  <2> QED BY <1>1, <2>2 DEF RequestInv
<1>4. ASSUME NEW p \in Client \ {c} PROVE RequestInv(client[p])'
  <2> DEFINE r == client[p]
             writes == Modified(q) \cap Many # {}
  <2>1. client'[p] = [r EXCEPT !.crossed = TRUE, !.stale = @ \/ writes]
    BY DEF Save
  <2> HIDE DEF writes
  <2>2. /\ client'[p].pc = r.pc /\ client'[p].op = r.op /\ client'[p].items = r.items /\ client'[p].seen = r.seen
        /\ client'[p].found = r.found /\ client'[p].value = r.value /\ DOMAIN client'[p] = FieldsOfRequest
    BY <1>1, <2>1 DEF RequestInv, FieldsOfRequest
  <2>5. client'[p].crossed /\ (~client'[p].stale => ~r.stale /\ ~writes)
    BY <1>1, <2>1 DEF RequestInv, FieldsOfRequest
  <2>3. library = "mongoose" /\ ~writes => \A f \in FileField \cap Many : document'[f] = document[f]
    BY DEF Save, writes
  <2>4. r.pc \in {"moving", "saving"} => KnowsDocument(client[p])'
    <3>1. SUFFICES ASSUME r.pc \in {"moving", "saving"} PROVE KnowsDocument(client[p])'
      OBVIOUS
    <3>2. KnowsDocument(r)
      BY <1>1, <3>1 DEF RequestInv
    <3>3. library' = "mongoose" /\ ~client'[p].stale => \A f \in FileField \cap Many : client'[p].found[f] = document'[f]
      BY <1>1, <2>2, <2>3, <2>5, <3>2 DEF KnowsDocument
    <3> QED BY <2>5, <3>3 DEF KnowsDocument
  <2>6. RequestInv(r)
    BY <1>1
  <2> HIDE DEF r
  <2> QED BY <2>2, <2>4, <2>6 DEF RequestInv, KeepsNames, KeepsOthers, AreLists, Of
<1>5. DOMAIN client' = Client
  BY DEF Save
<1>6. AreLists(document)'
  BY <1>2 DEF AreLists
<1> QED BY <1>1, <1>3, <1>4, <1>5, <1>6 DEF UploadsInv

\* The document that the application starts with
LEMMA AttachStep ==
  ASSUME UploadsInv, library = "none", NEW orm \in {"mongoose", "typeorm"}, NEW value \in [FileField -> Seq(Upload)],
         NEW order, Attach(orm, value, order)
  PROVE  UploadsInv'
<1>1. client' = client /\ document' = value /\ library' = orm
  BY DEF Attach
<1>2. \A c \in Client : client[c] = Idle
  BY DEF UploadsInv
<1>3. AreLists(document)'
  BY <1>1, SequencesAreLists DEF AreLists
<1>4. \A c \in Client : RequestInv(client[c])'
  <2>1. RequestInv(Idle) /\ Idle.pc = "idle" /\ DOMAIN Idle = FieldsOfRequest /\ IsList(Idle.items)
    BY IdleIsInOrder DEF Idle, RequestInv
  <2> QED BY <1>1, <1>2, <2>1 DEF RequestInv
<1> QED BY <1>1, <1>3, <1>4 DEF UploadsInv

\* UploadsInv is inductive.
LEMMA UploadsInv_Init == UploadsInit => UploadsInv
<1> SUFFICES ASSUME UploadsInit PROVE UploadsInv
  OBVIOUS
<1>1. DOMAIN client = Client /\ \A c \in Client : client[c] = Idle
  BY DEF UploadsInit
<1> QED BY <1>1, IdleIsInOrder, NothingIsLists DEF UploadsInit, UploadsInv

\* No step breaks it.
LEMMA UploadsInv_Next == UploadsInv /\ [Uploading]_uploadsVars => UploadsInv'
<1> SUFFICES ASSUME UploadsInv, [Uploading]_uploadsVars PROVE UploadsInv'
  OBVIOUS
<1>1. CASE UNCHANGED uploadsVars
  BY <1>1 DEF uploadsVars, UploadsInv, RequestInv, KnowsDocument, KeepsNames, KeepsOthers, AreLists
<1>2. ASSUME library = "none", NEW orm \in {"mongoose", "typeorm"}, NEW value \in [FileField -> Seq(Upload)],
             NEW order \in Seq(Upload), Attach(orm, value, order)
      PROVE  UploadsInv'
  BY <1>2, AttachStep
<1>3. ASSUME library # "none", NEW c \in Client, NEW fields \in Seq(FileField), ReceiveFiles(c, fields)
      PROVE  UploadsInv'
  BY <1>3, ReceiveStep
<1>4. ASSUME library # "none", NEW c \in Client, NEW items \in Seq([field : FileField, file : Upload]), AskUnlink(c, items)
      PROVE  UploadsInv'
  BY <1>4, AskStep
<1>5. ASSUME library # "none", NEW c \in Client, UploadsStep(c) PROVE UploadsInv'
  BY <1>5, EndStep, MoveStep, FindForUploadStep, FindForUnlinkStep, FindForUpdateStep, SaveStep DEF UploadsStep
<1> QED BY <1>1, <1>2, <1>3, <1>4, <1>5 DEF Uploading

\* The one step that takes names out of the document, and what it may take
LEMMA SaveTakes ==
  ASSUME UploadsInv, library # "none", NEW c \in Client, Save(c), NEW f \in FileField,
         NEW file \in ToSet(document[f]) \ ToSet(document'[f])
  PROVE  Takes(c, f, file)
<1> DEFINE q == client[c]
<1>1. /\ q.pc = "saving" /\ DOMAIN q = FieldsOfRequest /\ AreLists(q.value) /\ KnowsDocument(q)
      /\ q.op \in {"upload", "unlink"}
      /\ q.op = "upload" => KeepsNames(q)
      /\ q.op = "unlink" => KeepsOthers(q) /\ \A g \in FileField : Of(q, g) = <<>> => q.value[g] = q.found[g]
  BY DEF UploadsInv, RequestInv, Save
<1>2. client'[c].pc = "purging"
  <2>1. client'[c] = [q EXCEPT !.pc = "purging", !.doomed = Doomed(q)]
    BY DEF Save
  <2> QED BY <1>1, <2>1 DEF FieldsOfRequest
<1>3. document'[f] = IF library = "typeorm" THEN Once(q.value[f])
                     ELSE IF f \in Modified(q) THEN q.value[f] ELSE document[f]
  BY DEF Save
<1>4. file \notin ToSet(q.value[f]) /\ (library # "typeorm" => f \in Modified(q))
  <2>1. ToSet(q.value[f]) \subseteq ToSet(Once(q.value[f]))
    BY <1>1, OncePicks DEF AreLists
  <2> QED BY <1>3, <2>1
<1>5. CASE q.op = "unlink" /\ Of(q, f) # <<>>
  BY <1>1, <1>2, <1>4, <1>5 DEF KeepsOthers, Takes
<1>6. CASE q.op = "upload" /\ f \notin Many /\ Of(q, f) # <<>>
  BY <1>1, <1>2, <1>6 DEF Takes
<1>7. CASE ~(q.op = "unlink" /\ Of(q, f) # <<>>) /\ ~(q.op = "upload" /\ f \notin Many /\ Of(q, f) # <<>>)
  <2>1. q.value[f] = q.found[f] \/ (f \in Many /\ ToSet(q.found[f]) \subseteq ToSet(q.value[f]))
    BY <1>1, <1>7 DEF KeepsNames
  <2>2. file \notin ToSet(q.found[f])
    BY <1>4, <2>1
  <2>3. q.found[f] # document[f]
    BY <2>2
  <2>4. q.crossed
    BY <1>1, <2>3 DEF KnowsDocument
  <2>5. CASE library = "typeorm"
    BY <1>1, <1>2, <2>2, <2>4, <2>5 DEF Takes
  <2>6. CASE library # "typeorm"
    <3>1. f \in Modified(q) /\ q.value[f] # q.found[f] /\ f \in Many
      BY <1>4, <2>1, <2>6 DEF Modified
    <3>2. library = "mongoose"
      BY <2>6 DEF UploadsInv
    <3>3. q.stale
      BY <1>1, <2>3, <3>1, <3>2 DEF KnowsDocument
    <3>4. MaySave(q)
      BY DEF Save
    <3> QED BY <3>1, <3>2, <3>3, <3>4 DEF MaySave
  <2> QED BY <2>5, <2>6
<1> QED BY <1>1, <1>5, <1>6, <1>7

(* Whatever requests come for a document, with any files: its fields lose a name only where a request    *)
(* asks for that, sends another file for the one of the field, or goes by a document that it has read    *)
(* before the name was there (upload and unlink of resource-controller.helper.ts, update of the resource *)
(* services).                                                                                            *)
THEOREM FilesAlwaysLeaveForAReason == UploadsSpec => FilesLeaveForAReason
<1>1. UploadsInv /\ [Uploading]_uploadsVars
       => [\A f \in FileField : \A file \in ToSet(document[f]) \ ToSet(document'[f]) :
             \E c \in Client : Takes(c, f, file)]_uploadsVars
  <2> SUFFICES ASSUME UploadsInv, Uploading, NEW f \in FileField, NEW file \in ToSet(document[f]) \ ToSet(document'[f])
               PROVE  \E c \in Client : Takes(c, f, file)
    OBVIOUS
  <2>1. library # "none"
    <3>1. library = "none" => ToSet(document[f]) = {}
      BY DEF UploadsInv, Nothing, ToSet
    <3> QED BY <3>1
  <2>2. PICK c \in Client : Save(c)
    <3>1. document' # document
      OBVIOUS
    <3> QED BY <2>1, <3>1 DEF Uploading, ReceiveFiles, AskUnlink, UploadsStep, RefuseId, RefuseFiles, FindForUpload,
                              MoveFromTemp, MoveFromTempFails, Persist, FindForUnlink, FindForUpdate, SaveFails,
                              Erase, Forget, Purged, Clean
  <2> QED BY <2>1, <2>2, SaveTakes
<1>2. UploadsSpec => []UploadsInv
  BY UploadsInv_Init, UploadsInv_Next, PTL DEF UploadsSpec
<1> QED BY <1>1, <1>2, PTL DEF UploadsSpec, FilesLeaveForAReason

-----------------------------------------------------------------------------
(* Uploads: the answers *)

\* transformDeleteFilesRequest takes out what is there once.
LEMMA AskedGo ==
  ASSUME NEW names, NEW gone, IsList(names), IsList(gone), NEW name \in ToSet(gone), ~Twice(names, name)
  PROVE  name \notin ToSet(WithoutOnce(names, gone))
<1> DEFINE positions == {i \in DOMAIN names : Times(names[i], names, i) > Times(names[i], gone, Len(gone))}
<1>1. Len(names) \in Nat /\ DOMAIN names = 1 .. Len(names) /\ Len(gone) \in Nat /\ DOMAIN gone = 1 .. Len(gone)
  BY ListsAreSequences
<1>2. IsFiniteSet(1 .. Len(names)) /\ IsFiniteSet(1 .. Len(gone))
  BY <1>1, FS_Interval
<1>3. ASSUME NEW i \in positions, names[i] = name PROVE FALSE
  <2> DEFINE same == {j \in DOMAIN names : names[j] = name}
             upto == {j \in DOMAIN names \cap 1 .. i : names[j] = name}
             asked == {j \in DOMAIN gone \cap 1 .. Len(gone) : gone[j] = name}
  <2>1. IsFiniteSet(same) /\ upto \subseteq same /\ same \subseteq 1 .. Len(names) /\ asked \subseteq 1 .. Len(gone)
    BY <1>1, <1>2, FS_Subset
  <2>2. Cardinality(same) \in Nat /\ ~(Cardinality(same) > 1) /\ IsFiniteSet(upto) /\ Cardinality(upto) <= Cardinality(same)
        /\ Cardinality(upto) \in Nat
    BY <2>1, FS_Subset, FS_CardinalityType DEF Twice
  <2>3. asked # {}
    BY <1>1 DEF ToSet
  <2>4. IsFiniteSet(asked) /\ Cardinality(asked) \in Nat /\ Cardinality(asked) # 0
    BY <1>2, <2>1, <2>3, FS_Subset, FS_CardinalityType, FS_EmptySet
  <2>5. Cardinality(upto) > Cardinality(asked)
    BY <1>3 DEF Times
  <2> HIDE DEF same, upto, asked
  <2> QED BY <2>2, <2>4, <2>5
<1>4. \A k \in DOMAIN WithoutOnce(names, gone) : \E i \in positions : WithoutOnce(names, gone)[k] = names[i]
  <2>1. positions \in SUBSET DOMAIN names /\ WithoutOnce(names, gone) = At(names, positions)
    BY DEF WithoutOnce
  <2> HIDE DEF positions
  <2> QED BY <2>1, SelectedInOrder
<1> QED BY <1>3, <1>4 DEF ToSet

\* A many-to-many table has the same names, each once.
LEMMA OnceSame ==
  ASSUME NEW names, IsList(names)
  PROVE  /\ ToSet(Once(names)) = ToSet(names)
         /\ Apart(names) => Once(names) = names
<1> DEFINE positions == {i \in DOMAIN names : Times(names[i], names, i) = 1}
<1>1. \A k \in DOMAIN Once(names) : \E i \in positions : Once(names)[k] = names[i]
  <2>1. positions \in SUBSET DOMAIN names /\ Once(names) = At(names, positions)
    BY DEF Once
  <2> HIDE DEF positions
  <2> QED BY <2>1, SelectedInOrder
<1>2. ToSet(Once(names)) \subseteq ToSet(names)
  BY <1>1 DEF ToSet
<1>3. ASSUME Apart(names) PROVE Once(names) = names
  <2>1. Len(names) \in Nat /\ DOMAIN names = 1 .. Len(names)
    BY ListsAreSequences
  <2>2. ASSUME NEW i \in DOMAIN names PROVE Times(names[i], names, i) = 1
    <3>1. {j \in DOMAIN names \cap 1 .. i : names[j] = names[i]} = {i}
      BY <1>3, <2>1 DEF Apart
    <3> QED BY <3>1, FS_Singleton DEF Times
  <2>3. positions = DOMAIN names
    BY <2>2
  <2> QED BY <2>3, AllSelected DEF Once
<1> QED BY <1>2, <1>3, OncePicks

\* What a request sends of a field, in its order
LEMMA SentInOrder ==
  ASSUME NEW q, IsList(q.items), NEW f
  PROVE  /\ IsList(Of(q, f))
         /\ ToSet(Of(q, f)) = {q.items[i].file : i \in {j \in DOMAIN q.items : q.items[j].field = f}}
         /\ (\A i, j \in DOMAIN q.items : i # j => q.items[i].file # q.items[j].file) => Apart(Of(q, f))
         /\ \A k, l \in DOMAIN Of(q, f) : k < l =>
              \E i, j \in DOMAIN q.items : i < j /\ Of(q, f)[k] = q.items[i].file /\ Of(q, f)[l] = q.items[j].file
<1> DEFINE files == [i \in DOMAIN q.items |-> q.items[i].file]
           positions == {i \in DOMAIN q.items : q.items[i].field = f}
           sent == Of(q, f)
<1>1. Len(q.items) \in Nat /\ DOMAIN q.items = 1 .. Len(q.items)
  BY ListsAreSequences
<1>2. IsList(files)
  <2>1. files \in Seq({files[i] : i \in DOMAIN files})
    BY <1>1
  <2> QED BY <2>1 DEF IsList
<1>3. DOMAIN files = DOMAIN q.items /\ positions \in SUBSET DOMAIN files /\ \A i \in DOMAIN q.items : files[i] = q.items[i].file
  OBVIOUS
<1>4. sent = At(files, positions)
  BY DEF Of
<1> HIDE DEF files, positions, sent
<1>5. /\ IsList(sent) /\ DOMAIN sent = 1 .. Cardinality(positions)
      /\ \A i \in positions : sent[Place(positions, i)] = files[i]
  BY <1>2, <1>3, <1>4, Selected, SelectedInOrder
<1>6. /\ \A k \in DOMAIN sent : \E i \in positions : sent[k] = files[i] /\ Place(positions, i) = k
      /\ \A i, j \in positions : Place(positions, i) < Place(positions, j) => i < j
      /\ Apart(files) => Apart(sent)
  BY <1>2, <1>3, <1>4, SelectedInOrder
<1>7. \A i \in positions : Place(positions, i) \in DOMAIN sent
  BY <1>1, <1>3, <1>5, Numbering
<1>8. ToSet(sent) = {files[i] : i \in positions}
  <2>1. ASSUME NEW e \in ToSet(sent) PROVE e \in {files[i] : i \in positions}
    BY <1>6 DEF ToSet
  <2>2. ASSUME NEW i \in positions PROVE files[i] \in ToSet(sent)
    BY <1>5, <1>7 DEF ToSet
  <2> QED BY <2>1, <2>2
<1>9. ToSet(sent) = {q.items[i].file : i \in {j \in DOMAIN q.items : q.items[j].field = f}}
  BY <1>3, <1>8 DEF positions
<1>10. ASSUME NEW k \in DOMAIN sent, NEW l \in DOMAIN sent, k < l
       PROVE  \E i, j \in DOMAIN q.items : i < j /\ sent[k] = q.items[i].file /\ sent[l] = q.items[j].file
  <2>1. PICK i \in positions : sent[k] = files[i] /\ Place(positions, i) = k
    BY <1>6
  <2>2. PICK j \in positions : sent[l] = files[j] /\ Place(positions, j) = l
    BY <1>6
  <2>3. i < j /\ i \in DOMAIN q.items /\ j \in DOMAIN q.items
    BY <1>3, <1>6, <1>10, <2>1, <2>2
  <2> QED BY <1>3, <2>1, <2>2, <2>3
<1>11. (\A i, j \in DOMAIN q.items : i # j => q.items[i].file # q.items[j].file) => Apart(sent)
  BY <1>3, <1>6 DEF Apart
<1> QED BY <1>5, <1>9, <1>10, <1>11 DEF sent

\* What came last, in its order, is the end of a selection.
LEMMA LastOfThem ==
  ASSUME NEW s, IsList(s), Apart(s), NEW b, IsList(b), Apart(b), NEW S, ToSet(b) \subseteq S, S \subseteq ToSet(s),
         \A k, l \in DOMAIN b : k < l => Follows(s, b[k], b[l]),
         \A x \in S \ ToSet(b), y \in ToSet(b) : Follows(s, x, y)
  PROVE  Latest(Len(b), Those(s, S)) = b
<1> DEFINE t == Those(s, S)
           n == Len(b)
           m == Len(t)
<1>1. /\ IsList(t) /\ ToSet(t) = S /\ Apart(t) /\ \A x, y : Follows(s, x, y) => Follows(t, x, y)
  <2> DEFINE positions == {i \in DOMAIN s : s[i] \in S}
  <2>1. positions \in SUBSET DOMAIN s /\ t = At(s, positions)
    BY DEF Those
  <2>2. IsList(t) /\ ToSet(t) = ToSet(s) \cap S
    BY ThoseSelected
  <2> HIDE DEF t, positions
  <2> QED BY <2>1, <2>2, SelectedInOrder
<1> HIDE DEF t
<1>2. n \in Nat /\ DOMAIN b = 1 .. n /\ m \in Nat /\ DOMAIN t = 1 .. m
  BY <1>1, ListsAreSequences
<1>3. b = [k \in 1 .. n |-> b[k]]
  BY <1>2 DEF IsList
<1>4. t \in Seq({t[i] : i \in DOMAIN t})
  BY <1>1 DEF IsList
<1> HIDE DEF n, m
<1> DEFINE p == [k \in 1 .. n |-> CHOOSE i \in 1 .. m : t[i] = b[k]]
<1>5. ASSUME NEW k \in 1 .. n PROVE p[k] \in 1 .. m /\ t[p[k]] = b[k]
  <2>1. b[k] \in ToSet(t)
    BY <1>1, <1>2 DEF ToSet
  <2>2. \E i \in 1 .. m : t[i] = b[k]
    BY <1>2, <2>1 DEF ToSet
  <2> QED BY <2>2
<1>6. DOMAIN p = 1 .. n
  OBVIOUS
<1> HIDE DEF p
<1>7. ASSUME NEW k \in 1 .. n, NEW l \in 1 .. n, k < l PROVE p[k] < p[l]
  <2>1. Follows(t, b[k], b[l])
    BY <1>1, <1>2, <1>7
  <2> QED BY <1>2, <1>5, <2>1 DEF Follows
<1>8. ASSUME NEW k \in 1 .. n, NEW i \in 1 .. m, p[k] < i PROVE \E l \in k .. n : i = p[l]
  <2>1. b[k] \in ToSet(b) /\ t[i] \in S /\ p[k] \in 1 .. m
    BY <1>1, <1>2, <1>5 DEF ToSet
  <2>2. t[i] \in ToSet(b)
    <3>1. ASSUME t[i] \notin ToSet(b) PROVE FALSE
      <4>1. Follows(t, t[i], b[k])
        BY <1>1, <2>1, <3>1
      <4>2. i < p[k]
        BY <1>2, <1>5, <4>1 DEF Follows
      <4> QED BY <1>2, <1>8, <2>1, <4>2
    <3> QED BY <3>1
  <2>3. PICK l \in 1 .. n : b[l] = t[i]
    BY <1>2, <2>2 DEF ToSet
  <2>4. i = p[l]
    BY <1>1, <1>2, <1>5, <2>3 DEF Apart
  <2>5. l \in Int /\ k \in Int /\ p[k] \in Int /\ i \in Int
    BY <1>2, <2>1
  <2>6. ~(l < k)
    BY <1>7, <1>8, <2>4, <2>5
  <2>7. l \in k .. n
    BY <1>2, <2>5, <2>6
  <2> QED BY <2>4, <2>7
<1>9. ASSUME NEW k \in 1 .. n PROVE p[k] = m - n + k
  <2> DEFINE g == [l \in k .. n |-> p[l]]
             from == k .. n
             to == p[k] .. m
  <2>1. k \in Nat /\ k >= 1 /\ k <= n /\ p[k] \in Nat /\ p[k] >= 1 /\ p[k] <= m
    BY <1>2, <1>5
  <2>2. \A l \in from : l \in 1 .. n /\ (l = k \/ k < l)
    BY <1>2, <2>1
  <2>3. ASSUME NEW l \in from PROVE g[l] \in to
    <3>1. p[l] \in 1 .. m /\ (l = k \/ p[k] < p[l])
      BY <1>5, <1>7, <2>2
    <3> QED BY <1>2, <2>1, <3>1
  <2>4. ASSUME NEW l \in from, NEW j \in from, l # j PROVE g[l] # g[j]
    <3>1. l \in 1 .. n /\ j \in 1 .. n
      BY <2>2
    <3>2. b[l] # b[j]
      BY <1>2, <2>4, <3>1 DEF Apart
    <3> QED BY <1>5, <3>1, <3>2
  <2>5. ASSUME NEW i \in to PROVE \E l \in from : g[l] = i
    <3>1. i \in 1 .. m /\ (i = p[k] \/ p[k] < i)
      BY <1>2, <2>1
    <3>2. k \in from
      BY <1>2, <2>1
    <3> QED BY <1>8, <3>1, <3>2
  <2>6. g \in Bijection(from, to)
    BY <2>3, <2>4, <2>5 DEF Bijection, Injection, Surjection, IsInjective
  <2>7. IsFiniteSet(from) /\ Cardinality(from) = n - k + 1 /\ Cardinality(to) = m - p[k] + 1
    BY <1>2, <2>1, FS_Interval
  <2>8. Cardinality(from) = Cardinality(to)
    <3> HIDE DEF g, from, to
    <3> QED BY <2>6, <2>7, FS_Bijection DEF ExistsBijection
  <2> QED BY <1>2, <2>1, <2>7, <2>8
<1>10. n <= m
  <2>1. CASE n = 0
    BY <1>2, <2>1
  <2>2. CASE n # 0
    <3>1. 1 \in 1 .. n
      BY <1>2, <2>2
    <3>2. p[1] \in 1 .. m /\ p[1] = m - n + 1
      BY <1>5, <1>9, <3>1
    <3> QED BY <1>2, <3>2
  <2> QED BY <2>1, <2>2
<1> DEFINE u == SubSeq(t, m - n + 1, m)
<1>11. Latest(n, t) = u
  <2>1. (IF n < m THEN m - n + 1 ELSE 1) = m - n + 1
    BY <1>2, <1>10
  <2> QED BY <2>1 DEF Latest, m
<1>12. u = [k \in 1 .. n |-> t[m - n + k]]
  <2> DEFINE T == {t[i] : i \in DOMAIN t}
             from == m - n + 1
  <2>1. from \in Nat /\ from >= 1 /\ from <= m + 1 /\ m - from + 1 = n /\ t \in Seq(T) /\ Len(t) = m
    BY <1>2, <1>4, <1>10 DEF m
  <2> HIDE DEF T, from
  <2>2. u = SubSeq(t, from, m)
    BY DEF from
  <2> HIDE DEF u
  <2>3. u \in Seq(T) /\ Len(u) = n
    BY <1>2, <2>1, <2>2
  <2>4. \A k \in 1 .. n : u[k] = t[from + k - 1]
    BY <1>2, <2>1, <2>2
  <2>5. u = [k \in 1 .. n |-> u[k]]
    BY <2>3
  <2>6. \A k \in 1 .. n : from + k - 1 = m - n + k
    BY <1>2, <1>10 DEF from
  <2> QED BY <2>4, <2>5, <2>6
<1>13. \A k \in 1 .. n : t[m - n + k] = b[k]
  BY <1>5, <1>9
<1> QED BY <1>3, <1>11, <1>12, <1>13 DEF t, n

\* createFilesResponseDto: the last of the files of a field, by the creation of their metadata, are those
\* that the upload has sent, if all of them have metadata.
LEMMA LatestAreSent ==
  ASSUME NEW q, IsList(q.items), IsList(metas), Apart(metas), NEW f \in FileField, IsList(q.found[f]),
         \A i, j \in DOMAIN q.items : i # j => q.items[i].file # q.items[j].file,
         \A file \in ToSet(q.found[f]), i \in DOMAIN q.items : Follows(metas, file, q.items[i].file),
         \A i, j \in DOMAIN q.items : i < j => Follows(metas, q.items[i].file, q.items[j].file),
         q.value[f] = q.found[f] \o Of(q, f) \/ q.value[f] = Of(q, f),
         ToSet(q.value[f]) \subseteq ToSet(metas), NEW names, IsList(names), ToSet(names) = ToSet(q.value[f])
  PROVE  Latest(Len(Of(q, f)), ByCreation(names)) = Of(q, f)
<1> DEFINE b == Of(q, f)
           S == ToSet(q.value[f])
<1>1. /\ IsList(b) /\ Apart(b) /\ ToSet(b) = {q.items[i].file : i \in {j \in DOMAIN q.items : q.items[j].field = f}}
      /\ \A k, l \in DOMAIN b : k < l => \E i, j \in DOMAIN q.items : i < j /\ b[k] = q.items[i].file /\ b[l] = q.items[j].file
  BY SentInOrder
<1>2. q.value[f] = q.found[f] \o b \/ q.value[f] = b
  OBVIOUS
<1> HIDE DEF b
<1>3. ToSet(b) \subseteq S /\ S \ ToSet(b) \subseteq ToSet(q.found[f])
  <2>1. CASE q.value[f] = b
    BY <2>1
  <2>2. CASE q.value[f] = q.found[f] \o b
    <3> DEFINE found == q.found[f]
    <3>1. IsList(found) /\ S = ToSet(found \o b)
      BY <2>2
    <3> HIDE DEF found, S
    <3>2. S = ToSet(found) \cup ToSet(b)
      BY <1>1, <3>1, AppendedSet
    <3> QED BY <3>2 DEF found
  <2> QED BY <1>2, <2>1, <2>2
<1>4. \A k, l \in DOMAIN b : k < l => Follows(metas, b[k], b[l])
  BY <1>1
<1>5. \A x \in S \ ToSet(b), y \in ToSet(b) : Follows(metas, x, y)
  BY <1>1, <1>3
<1>6. Latest(Len(b), Those(metas, S)) = b
  <2> HIDE DEF S
  <2>1. S \subseteq ToSet(metas)
    BY DEF S
  <2> QED BY <1>1, <1>3, <1>4, <1>5, <2>1, LastOfThem
<1>7. ByCreation(names) = Those(metas, S)
  <2>1. ByCreation(names) = Those(metas, S) \o Those(names, {})
    BY DEF ByCreation
  <2>2. IsList(Those(metas, S)) /\ IsList(Those(names, {})) /\ ToSet(Those(names, {})) = {}
    <3> HIDE DEF S
    <3>1. IsList(Those(metas, S))
      BY ThoseSelected
    <3>2. IsList(Those(names, {})) /\ ToSet(Those(names, {})) = ToSet(names) \cap {}
      BY ThoseSelected
    <3> QED BY <3>1, <3>2
  <2> DEFINE none == Those(names, {})
  <2>3. none = <<>>
    <3>1. IsList(none) /\ ToSet(none) = {}
      BY <2>2
    <3> HIDE DEF none
    <3>2. DOMAIN none = {}
      BY <3>1 DEF ToSet
    <3>3. none \in Seq({none[i] : i \in DOMAIN none}) /\ Len(none) \in Nat /\ DOMAIN none = 1 .. Len(none)
      BY <3>1, ListsAreSequences DEF IsList
    <3>4. Len(none) = 0
      BY <3>2, <3>3
    <3> QED BY <3>3, <3>4
  <2> QED BY <2>1, <2>2, <2>3, AppendedSet
<1> QED BY <1>6, <1>7 DEF b

\* A request whose answer comes from what it writes
Uploaded(q) == q.pc \in {"moving", "saving", "purging"} \/ q.end = "done"
Unlinking(q) == q.pc \in {"updating", "saving", "purging"} \/ q.end = "done"

\* The files that a request sends, and those that are yet to be moved
Sent(q) == IF q.op = "upload" THEN Items(q) ELSE {}
Pending(q) ==
  IF q.op = "upload" /\ q.pc \in {"received", "moving"}
    THEN {q.items[i].file : i \in {j \in DOMAIN q.items : q.tried < j}} ELSE {}

\* Nobody has their names, and none of them has metadata.
PendingAreNew(c) ==
  \A file \in Pending(client[c]) :
    /\ file \notin Named(document) \cup ToSet(metas)
    /\ \A p \in Client : file \notin Named(client[p].seen) \cup Named(client[p].found)
    /\ \A p \in Client \ {c} : file \notin Named(client[p].value)

SendersAreApart == \A c, p \in Client : c # p => Sent(client[c]) \cap Sent(client[p]) = {}

\* What an upload writes is what it has found, then what it sends.
WritesAreMerged(q) ==
  /\ \A i, j \in DOMAIN q.items : i # j => q.items[i].file # q.items[j].file
  /\ q.pc = "received" => q.tried = 0
  /\ Uploaded(q) => \A f \in FileField : Of(q, f) # <<>> =>
       \/ q.value[f] = Of(q, f)
       \/ f \in Many /\ q.value[f] = q.found[f] \o Of(q, f)

\* What an unlink writes has no more what it asks for.
WritesAreRid(q) ==
  Unlinking(q) => \A i \in DOMAIN q.items :
    Twice(q.seen[q.items[i].field], q.items[i].file) \/ q.items[i].file \notin ToSet(q.value[q.items[i].field])

RequestKeeps(q) ==
  /\ AreLists(q.seen) /\ AreLists(q.found) /\ AreLists(q.value) /\ q.tried \in Nat
  /\ q.end = "done" => q.pc \in {"cleaning", "over"}
  /\ q.hand # {} => q.pc \in {"purging", "undoing"}
  /\ \A i \in DOMAIN q.items : q.items[i].field \in FileField
  /\ q.op = "upload" => WritesAreMerged(q)
  /\ q.op = "unlink" => WritesAreRid(q)

\* Metadata is in the order in which an upload has found and moved the files.
MovedInOrder(q) ==
  /\ \A file \in Named(q.found), i \in DOMAIN q.items : Follows(metas, file, q.items[i].file)
  /\ \A i, j \in DOMAIN q.items : i < j => Follows(metas, q.items[i].file, q.items[j].file)

UploadStands(q) ==
  /\ MovedInOrder(q)
  /\ q.pc = "over" => q.end = "no id" \/ Items(q) \cap temp = {}
  /\ q.pc = "purging" /\ library = "typeorm" => q.crossed \/ \A f \in FileField : document[f] = Once(q.value[f])
  /\ q.end = "done" => \A f \in FileField :
       q.answer[f] = Of(q, f) \/ ~(ToSet(q.value[f]) \subseteq ToSet(metas)) \/ (library = "typeorm" /\ q.crossed)

UnlinkStands(q) ==
  /\ q.end = "done" => q.doomed = {}
  /\ q.pc = "purging" \/ q.end = "done" => \A i \in DOMAIN q.items :
       \/ Twice(q.seen[q.items[i].field], q.items[i].file)
       \/ /\ q.items[i].file \in ToSet(document[q.items[i].field]) => q.crossed
          /\ q.items[i].file \in disk => q.items[i].file \in q.doomed \/ q.items[i].file \notin ToSet(q.found[q.items[i].field])

RequestStands(q) == (q.op = "upload" => UploadStands(q)) /\ (q.op = "unlink" => UnlinkStands(q))

FilesInv ==
  /\ IsList(metas) /\ Apart(metas)
  /\ \A c \in Client : RequestKeeps(client[c]) /\ RequestStands(client[c]) /\ PendingAreNew(c)
  /\ SendersAreApart

\* What the other requests keep of theirs: all but that this one may have crossed them
SameRequest(q, r) ==
  /\ r.pc = q.pc /\ r.op = q.op /\ r.items = q.items /\ r.tried = q.tried /\ r.seen = q.seen /\ r.found = q.found
  /\ r.value = q.value /\ r.doomed = q.doomed /\ r.hand = q.hand /\ r.end = q.end /\ r.answer = q.answer
  /\ q.crossed => r.crossed

\* The metadata after a step: that of a pending file may have come last.
MetasGoOn(c) ==
  /\ IsList(metas') /\ Apart(metas') /\ ToSet(metas') \subseteq ToSet(metas) \cup Pending(client[c])
  /\ \A x, y : x \notin Pending(client[c]) /\ Follows(metas, x, y) => Follows(metas', x, y)

\* What a step of one request leaves to the others
LeavesOthers(c) ==
  /\ library' = library /\ DOMAIN client' = Client
  /\ \A p \in Client \ {c} :
       /\ SameRequest(client[p], client'[p])
       /\ document' = document \/ client'[p].crossed
       /\ temp' \cap Items(client[p]) \subseteq temp
  /\ MetasGoOn(c)
  /\ disk' \subseteq disk \cup Pending(client[c])
  /\ Named(document') \subseteq Named(document) \cup Named(client[c].value)
  /\ Named(client'[c].seen) \cup Named(client'[c].found)
       \subseteq Named(client[c].seen) \cup Named(client[c].found) \cup Named(document)
  /\ Named(client'[c].value) \subseteq Named(client[c].value) \cup Named(document) \cup Sent(client[c])

\* The files that are yet to be moved are of those that are sent.
LEMMA PendingSent == \A q : Pending(q) \subseteq Sent(q)
BY DEF Pending, Sent, Items

\* The requests that a step is not of are as they were.
LEMMA OthersStand ==
  ASSUME FilesInv, NEW c \in Client, LeavesOthers(c), NEW p \in Client \ {c}
  PROVE  RequestKeeps(client[p])' /\ RequestStands(client[p])' /\ PendingAreNew(p)'
<1> DEFINE q == client[p]
           r == client'[p]
<1>1. /\ r.pc = q.pc /\ r.op = q.op /\ r.items = q.items /\ r.tried = q.tried /\ r.seen = q.seen /\ r.found = q.found
      /\ r.value = q.value /\ r.doomed = q.doomed /\ r.hand = q.hand /\ r.end = q.end /\ r.answer = q.answer
      /\ q.crossed => r.crossed
  BY DEF LeavesOthers, SameRequest
<1>2. RequestKeeps(q) /\ RequestStands(q) /\ PendingAreNew(p) /\ PendingAreNew(c)
  BY DEF FilesInv
<1>3. /\ library' = library /\ MetasGoOn(c) /\ disk' \subseteq disk \cup Pending(client[c])
      /\ document' = document \/ r.crossed
      /\ temp' \cap Items(q) \subseteq temp
  BY DEF LeavesOthers
<1>4. RequestKeeps(client[p])'
  <2> HIDE DEF q
  <2> QED BY <1>1, <1>2 DEF RequestKeeps, WritesAreMerged, WritesAreRid, Uploaded, Unlinking, Of, Items
<1>5. \A file \in Pending(client[c]) : file \notin Named(q.found) \cup Named(q.value) /\ file \notin Sent(q)
  <2>1. \A file \in Pending(client[c]) : file \notin Named(q.found) \cup Named(q.value)
    BY <1>2 DEF PendingAreNew
  <2>2. Sent(client[c]) \cap Sent(q) = {}
    BY DEF FilesInv, SendersAreApart
  <2> QED BY <2>1, <2>2, PendingSent
<1>6. ASSUME q.op = "upload" PROVE UploadStands(client[p])'
  <2>1. UploadStands(q) /\ Items(q) = Sent(q)
    BY <1>2, <1>6 DEF RequestStands, Sent
  <2>2. MovedInOrder(client[p])'
    <3>1. \A i \in DOMAIN q.items : q.items[i].file \notin Pending(client[c])
      BY <1>5, <2>1 DEF Items
    <3>2. \A file \in Named(q.found) : file \notin Pending(client[c])
      BY <1>5
    <3>3. MovedInOrder(q) /\ \A x, y : x \notin Pending(client[c]) /\ Follows(metas, x, y) => Follows(metas', x, y)
      BY <1>3, <2>1 DEF UploadStands, MetasGoOn
    <3> HIDE DEF q
    <3> QED BY <1>1, <3>1, <3>2, <3>3 DEF MovedInOrder
  <2>3. r.pc = "over" => r.end = "no id" \/ Items(r) \cap temp' = {}
    <3>1. q.pc = "over" => q.end = "no id" \/ Items(q) \cap temp = {}
      BY <2>1 DEF UploadStands
    <3>2. Items(r) = Items(q)
      BY <1>1 DEF Items
    <3> HIDE DEF q, r
    <3> QED BY <1>1, <1>3, <3>1, <3>2
  <2>4. r.pc = "purging" /\ library' = "typeorm" => r.crossed \/ \A f \in FileField : document'[f] = Once(r.value[f])
    <3>1. q.pc = "purging" /\ library = "typeorm" => q.crossed \/ \A f \in FileField : document[f] = Once(q.value[f])
      BY <2>1 DEF UploadStands
    <3> HIDE DEF q, r
    <3> QED BY <1>1, <1>3, <3>1
  <2>5. r.end = "done" => \A f \in FileField :
          r.answer[f] = Of(r, f) \/ ~(ToSet(r.value[f]) \subseteq ToSet(metas')) \/ (library' = "typeorm" /\ r.crossed)
    <3>1. q.end = "done" => \A f \in FileField :
            q.answer[f] = Of(q, f) \/ ~(ToSet(q.value[f]) \subseteq ToSet(metas)) \/ (library = "typeorm" /\ q.crossed)
      BY <2>1 DEF UploadStands
    <3>2. \A f : Of(r, f) = Of(q, f)
      BY <1>1 DEF Of
    <3>3. \A f \in FileField : ToSet(q.value[f]) \subseteq ToSet(metas') => ToSet(q.value[f]) \subseteq ToSet(metas)
      <4>1. \A f \in FileField : ToSet(q.value[f]) \cap Pending(client[c]) = {}
        BY <1>5 DEF Named
      <4> QED BY <1>3, <4>1 DEF MetasGoOn
    <3> HIDE DEF q, r
    <3> QED BY <1>1, <1>3, <3>1, <3>2, <3>3
  <2> QED BY <2>2, <2>3, <2>4, <2>5 DEF UploadStands
<1>7. ASSUME q.op = "unlink" PROVE UnlinkStands(client[p])'
  <2>1. UnlinkStands(q) /\ \A i \in DOMAIN q.items : q.items[i].field \in FileField
    BY <1>2, <1>7 DEF RequestStands, RequestKeeps
  <2>2. \A i \in DOMAIN q.items : q.items[i].file \in disk' /\ q.items[i].file \in ToSet(q.found[q.items[i].field])
          => q.items[i].file \in disk
    BY <1>3, <1>5, <2>1 DEF Named
  <2> HIDE DEF q
  <2>3. ASSUME r.pc = "purging" \/ r.end = "done", NEW i \in DOMAIN r.items
        PROVE  \/ Twice(r.seen[r.items[i].field], r.items[i].file)
               \/ /\ r.items[i].file \in ToSet(document'[r.items[i].field]) => r.crossed
                  /\ r.items[i].file \in disk' => r.items[i].file \in r.doomed \/ r.items[i].file \notin ToSet(r.found[r.items[i].field])
    BY <1>1, <1>3, <2>1, <2>2, <2>3 DEF UnlinkStands
  <2> QED BY <1>1, <2>1, <2>3 DEF UnlinkStands
<1>8. PendingAreNew(p)'
  <2>1. Pending(r) = Pending(q)
    BY <1>1 DEF Pending
  <2>2. SUFFICES ASSUME NEW file \in Pending(q)
        PROVE  /\ file \notin Named(document') \cup ToSet(metas')
               /\ \A o \in Client : file \notin Named(client'[o].seen) \cup Named(client'[o].found)
               /\ \A o \in Client \ {p} : file \notin Named(client'[o].value)
    BY <2>1 DEF PendingAreNew
  <2>3. /\ file \notin Named(document) \cup ToSet(metas)
        /\ \A o \in Client : file \notin Named(client[o].seen) \cup Named(client[o].found)
        /\ \A o \in Client \ {p} : file \notin Named(client[o].value)
    BY <1>2 DEF PendingAreNew
  <2>4. file \notin Sent(client[c])
    <3>1. Sent(client[c]) \cap Sent(q) = {}
      BY DEF FilesInv, SendersAreApart
    <3> QED BY <3>1, PendingSent
  <2>5. file \notin Named(document') \cup ToSet(metas')
    BY <1>3, <2>3, <2>4, PendingSent DEF LeavesOthers, MetasGoOn
  <2>6. ASSUME NEW o \in Client PROVE file \notin Named(client'[o].seen) \cup Named(client'[o].found)
    BY <2>3 DEF LeavesOthers, SameRequest
  <2>7. ASSUME NEW o \in Client \ {p} PROVE file \notin Named(client'[o].value)
    BY <2>3, <2>4 DEF LeavesOthers, SameRequest
  <2> QED BY <2>5, <2>6, <2>7
<1>9. RequestStands(client[p])'
  <2>1. (client'[p].op = "upload" => UploadStands(client[p])') /\ (client'[p].op = "unlink" => UnlinkStands(client[p])')
    BY <1>1, <1>6, <1>7
  <2> QED BY <2>1 DEF RequestStands
<1> QED BY <1>4, <1>8, <1>9

\* A step of a request that stays what it is
LEMMA StepStands ==
  ASSUME FilesInv, NEW c \in Client, LeavesOthers(c),
         client'[c].op = "upload" => client[c].op = "upload" /\ client'[c].items = client[c].items,
         Pending(client'[c]) \subseteq Pending(client[c]) \ ToSet(metas'),
         Pending(client'[c]) = {} \/ document' = document,
         RequestKeeps(client[c])', RequestStands(client[c])'
  PROVE  FilesInv'
<1>1. PendingAreNew(c)'
  <2>1. SUFFICES ASSUME NEW file \in Pending(client'[c])
        PROVE  /\ file \notin Named(document') \cup ToSet(metas')
               /\ \A p \in Client : file \notin Named(client'[p].seen) \cup Named(client'[p].found)
               /\ \A p \in Client \ {c} : file \notin Named(client'[p].value)
    BY DEF PendingAreNew
  <2>2. document' = document /\ file \in Pending(client[c]) /\ file \notin ToSet(metas')
    OBVIOUS
  <2>3. /\ file \notin Named(document) \cup ToSet(metas)
        /\ \A p \in Client : file \notin Named(client[p].seen) \cup Named(client[p].found)
        /\ \A p \in Client \ {c} : file \notin Named(client[p].value)
    BY <2>2 DEF FilesInv, PendingAreNew
  <2>4. ASSUME NEW p \in Client PROVE file \notin Named(client'[p].seen) \cup Named(client'[p].found)
    BY <2>3 DEF LeavesOthers, SameRequest
  <2>5. ASSUME NEW p \in Client \ {c} PROVE file \notin Named(client'[p].value)
    BY <2>3 DEF LeavesOthers, SameRequest
  <2> QED BY <2>2, <2>3, <2>4, <2>5
<1>2. SendersAreApart'
  <2>1. ASSUME NEW p \in Client PROVE Sent(client'[p]) \subseteq Sent(client[p])
    <3>1. client'[p].op = "upload" => client[p].op = "upload" /\ client'[p].items = client[p].items
      BY DEF LeavesOthers, SameRequest
    <3> QED BY <3>1 DEF Sent, Items
  <2> QED BY <2>1 DEF FilesInv, SendersAreApart
<1>3. \A p \in Client \ {c} : (RequestKeeps(client[p]) /\ RequestStands(client[p]) /\ PendingAreNew(p))'
  BY OthersStand
<1>4. IsList(metas)' /\ Apart(metas)'
  BY DEF LeavesOthers, MetasGoOn, IsList, Apart
<1>5. ASSUME NEW p \in Client PROVE (RequestKeeps(client[p]) /\ RequestStands(client[p]) /\ PendingAreNew(p))'
  <2>1. CASE p = c
    BY <1>1, <2>1
  <2>2. CASE p # c
    BY <1>3, <2>2
  <2> QED BY <2>1, <2>2
<1> QED BY <1>2, <1>4, <1>5 DEF FilesInv

\* What a step leaves that has its way in pc, and not in the names
Continues(q, r) ==
  /\ r.op = q.op /\ r.items = q.items /\ r.seen = q.seen /\ r.found = q.found /\ r.value = q.value
  /\ r.answer = q.answer /\ (q.crossed => r.crossed) /\ r.tried \in Nat
  /\ r.pc # "received"
  /\ (Uploaded(r) => Uploaded(q)) /\ (q.op = "unlink" /\ Unlinking(r) => Unlinking(q))
  /\ r.pc = "purging" => q.pc = "purging"
  /\ r.end = "done" => q.end = "done" /\ r.pc \in {"cleaning", "over"}
  /\ r.hand # {} => r.pc \in {"purging", "undoing"}

\* Those steps: whether files are moved or deleted, what holds of the request still holds.
LEMMA ContinuesStep ==
  ASSUME FilesInv, NEW c \in Client, Alone(c), Continues(client[c], client'[c]), MetasGoOn(c),
         client[c].op = "upload" => MovedInOrder(client[c])',
         Pending(client'[c]) \subseteq Pending(client[c]) \ ToSet(metas'),
         disk' \subseteq disk \cup Pending(client[c]), temp' \subseteq temp,
         client'[c].op = "upload" /\ client'[c].pc = "over" => client'[c].end = "no id" \/ Items(client'[c]) \cap temp' = {},
         client[c].op = "unlink" /\ (client'[c].pc = "purging" \/ client'[c].end = "done")
           => client'[c].doomed \subseteq client[c].doomed
              /\ \A file \in client[c].doomed \ client'[c].doomed : file \notin disk'
  PROVE  FilesInv'
<1> DEFINE q == client[c]
           r == client'[c]
<1>1. /\ r.op = q.op /\ r.items = q.items /\ r.seen = q.seen /\ r.found = q.found /\ r.value = q.value
      /\ r.answer = q.answer /\ (q.crossed => r.crossed) /\ r.tried \in Nat
      /\ r.pc # "received"
      /\ (Uploaded(r) => Uploaded(q)) /\ (q.op = "unlink" /\ Unlinking(r) => Unlinking(q))
      /\ r.pc = "purging" => q.pc = "purging"
      /\ r.end = "done" => q.end = "done" /\ r.pc \in {"cleaning", "over"}
      /\ r.hand # {} => r.pc \in {"purging", "undoing"}
  BY DEF Continues
<1>2. RequestKeeps(q) /\ RequestStands(q)
  BY DEF FilesInv
<1>3. LeavesOthers(c)
  BY <1>1 DEF Alone, LeavesOthers, SameRequest
<1>4. RequestKeeps(client[c])'
  <2>1. WritesAreMerged(q) => WritesAreMerged(r)
    <3>1. \A f \in FileField : Of(r, f) = Of(q, f)
      BY <1>1 DEF Of
    <3> SUFFICES ASSUME WritesAreMerged(q) PROVE WritesAreMerged(r)
      OBVIOUS
    <3> HIDE DEF q, r
    <3>2. \A i, j \in DOMAIN r.items : i # j => r.items[i].file # r.items[j].file
      <4>1. \A i, j \in DOMAIN q.items : i # j => q.items[i].file # q.items[j].file
        BY DEF WritesAreMerged
      <4>2. r.items = q.items
        BY <1>1
      <4> QED BY <4>1, <4>2
    <3>3. ASSUME Uploaded(r), NEW f \in FileField, Of(r, f) # <<>>
          PROVE  r.value[f] = Of(r, f) \/ (f \in Many /\ r.value[f] = r.found[f] \o Of(r, f))
      <4>1. q.value[f] = Of(q, f) \/ (f \in Many /\ q.value[f] = q.found[f] \o Of(q, f))
        BY <1>1, <3>1, <3>3 DEF WritesAreMerged
      <4> QED BY <1>1, <3>1, <4>1
    <3> QED BY <1>1, <3>2, <3>3 DEF WritesAreMerged
  <2>2. WritesAreRid(q) /\ q.op = "unlink" => WritesAreRid(r)
    <3> HIDE DEF q, r
    <3> QED BY <1>1 DEF WritesAreRid
  <2> HIDE DEF q
  <2> QED BY <1>1, <1>2, <2>1, <2>2 DEF RequestKeeps, WritesAreMerged, WritesAreRid, Uploaded, Unlinking, Of, Items
<1>5. ASSUME q.op = "upload" PROVE UploadStands(client[c])'
  <2>1. UploadStands(q) /\ q.tried \in Nat
    BY <1>2, <1>5 DEF RequestStands, RequestKeeps
  <2>2. library' = library /\ document' = document
    BY DEF Alone
  <2>3. r.pc = "purging" /\ library' = "typeorm" => r.crossed \/ \A f \in FileField : document'[f] = Once(r.value[f])
    <3>1. q.pc = "purging" /\ library = "typeorm" => q.crossed \/ \A f \in FileField : document[f] = Once(q.value[f])
      BY <2>1 DEF UploadStands
    <3> HIDE DEF q, r
    <3> QED BY <1>1, <2>2, <3>1
  <2>4. r.end = "done" => \A f \in FileField :
          r.answer[f] = Of(r, f) \/ ~(ToSet(r.value[f]) \subseteq ToSet(metas')) \/ (library' = "typeorm" /\ r.crossed)
    <3>1. q.end = "done" => \A f \in FileField :
            q.answer[f] = Of(q, f) \/ ~(ToSet(q.value[f]) \subseteq ToSet(metas)) \/ (library = "typeorm" /\ q.crossed)
      BY <2>1 DEF UploadStands
    <3>2. \A f : Of(r, f) = Of(q, f)
      BY <1>1 DEF Of
    <3>3. q.end = "done" => ToSet(metas') \subseteq ToSet(metas)
      <4>1. q.end = "done" => q.pc \in {"cleaning", "over"}
        BY <1>2 DEF RequestKeeps
      <4> HIDE DEF q
      <4> QED BY <4>1 DEF MetasGoOn, Pending, q
    <3> HIDE DEF q, r
    <3> QED BY <1>1, <2>2, <3>1, <3>2, <3>3
  <2> QED BY <1>1, <1>5, <2>3, <2>4 DEF UploadStands
<1>6. ASSUME q.op = "unlink" PROVE UnlinkStands(client[c])'
  <2>1. UnlinkStands(q)
    BY <1>2, <1>6 DEF RequestStands
  <2>2. document' = document /\ disk' \subseteq disk
    BY <1>6 DEF Alone, Pending
  <2>3. r.pc = "purging" \/ r.end = "done" =>
          r.doomed \subseteq q.doomed /\ \A file \in q.doomed \ r.doomed : file \notin disk'
    BY <1>6
  <2> HIDE DEF q
  <2>4. ASSUME r.pc = "purging" \/ r.end = "done", NEW i \in DOMAIN r.items
        PROVE  \/ Twice(r.seen[r.items[i].field], r.items[i].file)
               \/ /\ r.items[i].file \in ToSet(document'[r.items[i].field]) => r.crossed
                  /\ r.items[i].file \in disk' => r.items[i].file \in r.doomed \/ r.items[i].file \notin ToSet(r.found[r.items[i].field])
    BY <1>1, <2>1, <2>2, <2>3, <2>4 DEF UnlinkStands
  <2> QED BY <1>1, <2>1, <2>3, <2>4 DEF UnlinkStands
<1>7. RequestStands(client[c])'
  <2>1. (client'[c].op = "upload" => UploadStands(client[c])') /\ (client'[c].op = "unlink" => UnlinkStands(client[c])')
    BY <1>1, <1>5, <1>6
  <2> QED BY <2>1 DEF RequestStands
<1>8. document' = document
  BY DEF Alone
<1> QED BY <1>1, <1>3, <1>4, <1>7, <1>8, StepStands

\* Metadata that stays, or is deleted, stays in order.
LEMMA MetasStay ==
  ASSUME FilesInv, NEW c \in Client
  PROVE  /\ metas' = metas => MetasGoOn(c)
         /\ \A set : metas' = Those(metas, set) => MetasGoOn(c)
         /\ MetasGoOn(c) /\ MovedInOrder(client[c]) /\ client'[c].items = client[c].items /\ client'[c].found = client[c].found
            /\ (\A x, y : Follows(metas, x, y) => Follows(metas', x, y))
            => MovedInOrder(client[c])'
         /\ \A set : metas' = metas \/ metas' = Those(metas, set) => \A x, y : Follows(metas, x, y) => Follows(metas', x, y)
<1>1. IsList(metas) /\ Apart(metas)
  BY DEF FilesInv
<1>2. ASSUME metas' = metas PROVE MetasGoOn(c)
  BY <1>1, <1>2 DEF MetasGoOn
<1>3. ASSUME NEW set, metas' = Those(metas, set)
      PROVE  MetasGoOn(c) /\ \A x, y : Follows(metas, x, y) => Follows(metas', x, y)
  <2> DEFINE positions == {i \in DOMAIN metas : metas[i] \in set}
  <2>1. positions \in SUBSET DOMAIN metas /\ metas' = At(metas, positions)
    BY <1>3 DEF Those
  <2>2. IsList(metas') /\ ToSet(metas') \subseteq ToSet(metas)
    BY <1>1, <1>3, ThoseSelected
  <2> HIDE DEF positions
  <2>3. Apart(metas') /\ \A x, y : Follows(metas, x, y) => Follows(metas', x, y)
    BY <1>1, <2>1, SelectedInOrder
  <2> QED BY <2>2, <2>3 DEF MetasGoOn
<1>4. ASSUME MovedInOrder(client[c]), client'[c].items = client[c].items, client'[c].found = client[c].found,
             \A x, y : Follows(metas, x, y) => Follows(metas', x, y)
      PROVE  MovedInOrder(client[c])'
  BY <1>4 DEF MovedInOrder
<1> QED BY <1>2, <1>3, <1>4

\* The steps of a request that write no document, and move no file
LEMMA QuietStep ==
  ASSUME UploadsInv, FilesInv, library # "none", NEW c \in Client,
         \/ RefuseId(c) \/ RefuseFiles(c) \/ MoveFromTempFails(c) \/ Persist(c) \/ SaveFails(c) \/ Clean(c)
  PROVE  FilesInv'
<1> DEFINE q == client[c]
           r == client'[c]
<1>1. /\ DOMAIN client = Client /\ DOMAIN q = FieldsOfRequest /\ RequestInv(q) /\ IsList(q.items)
      /\ RequestKeeps(q) /\ RequestStands(q) /\ PendingAreNew(c) /\ q.tried \in Nat
      /\ q.end = "done" => q.pc \in {"cleaning", "over"}
      /\ q.hand # {} => q.pc \in {"purging", "undoing"}
  BY DEF UploadsInv, RequestInv, FilesInv, RequestKeeps
<1>2. /\ Alone(c) /\ metas' = metas /\ disk' = disk /\ temp' \subseteq temp
      /\ r.op = q.op /\ r.items = q.items /\ r.seen = q.seen /\ r.found = q.found /\ r.value = q.value
      /\ r.answer = q.answer /\ (q.crossed => r.crossed) /\ r.hand = q.hand
      /\ \/ q.pc = "received" /\ r.pc = "over" /\ r.end = "no id" /\ r.tried = q.tried /\ r.doomed = q.doomed
         \/ q.pc = "received" /\ r.pc = "cleaning" /\ r.end = "refused" /\ r.tried = q.tried /\ r.doomed = q.doomed
         \/ q.pc = "moving" /\ r.pc = "moving" /\ r.end = q.end /\ r.tried = q.tried + 1 /\ r.doomed = q.doomed
         \/ q.pc = "moving" /\ r.pc = "saving" /\ r.end = q.end /\ r.tried = q.tried /\ r.doomed = q.doomed
         \/ q.pc \in {"moving", "saving"} /\ r.pc = "undoing" /\ r.end = "failed" /\ r.tried = q.tried
         \/ q.pc = "cleaning" /\ r.pc = "over" /\ r.end = q.end /\ r.tried = q.tried /\ r.doomed = q.doomed
            /\ temp' = temp \ Items(q)
  <2>1. CASE RefuseId(c)
    BY <1>1, <2>1 DEF RefuseId, Becomes, Alone, FieldsOfRequest
  <2>2. CASE RefuseFiles(c)
    BY <1>1, <2>2 DEF RefuseFiles, Becomes, Alone, FieldsOfRequest
  <2>3. CASE MoveFromTempFails(c)
    BY <1>1, <2>3 DEF MoveFromTempFails, Moving, Becomes, Alone, FieldsOfRequest
  <2>4. CASE Persist(c)
    <3>1. CASE TooMany(q, Fields)
      BY <1>1, <2>4, <3>1 DEF Persist, Undoing, Becomes, Alone, FieldsOfRequest
    <3>2. CASE ~TooMany(q, Fields)
      BY <1>1, <2>4, <3>2 DEF Persist, Undoing, Becomes, Alone, FieldsOfRequest
    <3> QED BY <3>1, <3>2
  <2>5. CASE SaveFails(c)
    BY <1>1, <2>5 DEF SaveFails, Undoing, Becomes, Alone, FieldsOfRequest
  <2>6. CASE Clean(c)
    BY <1>1, <2>6 DEF Clean, Becomes, Alone, FieldsOfRequest
  <2> QED BY <2>1, <2>2, <2>3, <2>4, <2>5, <2>6
<1>3. q.pc \in {"received", "moving"} => q.op = "upload"
  BY <1>1 DEF RequestInv
<1>4. Continues(q, r)
  <2>1. r.tried \in Nat
    <3>1. r.tried = q.tried \/ r.tried = q.tried + 1
      BY <1>2
    <3> QED BY <1>1, <3>1
  <2>2. /\ Uploaded(r) => Uploaded(q)
        /\ q.op = "unlink" /\ Unlinking(r) => Unlinking(q)
        /\ r.end = "done" => q.end = "done" /\ r.pc \in {"cleaning", "over"}
    <3> HIDE DEF q, r
    <3> QED BY <1>1, <1>2, <1>3 DEF Uploaded, Unlinking
  <2>3. r.pc # "received" /\ r.pc # "purging" /\ r.hand = {}
    <3> HIDE DEF q, r
    <3> QED BY <1>1, <1>2
  <2> HIDE DEF q, r
  <2> QED BY <1>2, <2>1, <2>2, <2>3 DEF Continues
<1>5. Pending(r) \subseteq Pending(q) \ ToSet(metas')
  <2>1. Pending(r) \subseteq Pending(q)
    <3>1. CASE r.pc = "moving"
      <4>1. \A j \in DOMAIN q.items : j \in Nat
        BY <1>1, ListsAreSequences
      <4>2. r.tried = q.tried + 1 /\ q.pc = "moving" /\ r.items = q.items /\ r.op = q.op
        BY <1>2, <3>1
      <4>3. \A j \in DOMAIN q.items : r.tried < j => q.tried < j
        BY <1>1, <4>1, <4>2
      <4> QED BY <3>1, <4>2, <4>3 DEF Pending
    <3>2. CASE r.pc # "moving"
      <4>1. r.pc # "received"
        BY <1>2
      <4> QED BY <3>2, <4>1 DEF Pending
    <3> QED BY <3>1, <3>2
  <2>2. Pending(q) \cap ToSet(metas) = {}
    BY <1>1 DEF PendingAreNew
  <2> QED BY <1>2, <2>1, <2>2
<1>6. MetasGoOn(c) /\ (q.op = "upload" => MovedInOrder(client[c])')
  <2>1. q.op = "upload" => MovedInOrder(q)
    BY <1>1 DEF RequestStands, UploadStands
  <2>2. MetasGoOn(c)
    BY <1>2, MetasStay
  <2> QED BY <1>2, <2>1, <2>2, MetasStay
<1>7. r.op = "upload" /\ r.pc = "over" => r.end = "no id" \/ Items(r) \cap temp' = {}
  <2>1. Items(r) = Items(q)
    BY <1>2 DEF Items
  <2> HIDE DEF q, r
  <2> QED BY <1>2, <2>1
<1>8. r.pc = "purging" \/ r.end = "done" => r.doomed = q.doomed
  <2> HIDE DEF q, r
  <2> QED BY <1>1, <1>2
<1> QED BY <1>2, <1>4, <1>5, <1>6, <1>7, <1>8, ContinuesStep

\* deleteFileArray: what it deletes is no longer there.
LEMMA EraseStep ==
  ASSUME UploadsInv, FilesInv, library # "none", NEW c \in Client, Erase(c) \/ Forget(c)
  PROVE  FilesInv'
<1> DEFINE q == client[c]
           r == client'[c]
<1>1. /\ DOMAIN client = Client /\ DOMAIN q = FieldsOfRequest /\ RequestKeeps(q) /\ RequestStands(q)
      /\ PendingAreNew(c) /\ q.tried \in Nat
      /\ q.end = "done" => q.pc \in {"cleaning", "over"}
      /\ q.hand # {} => q.pc \in {"purging", "undoing"}
  BY DEF UploadsInv, RequestInv, FilesInv, RequestKeeps
<1>2. /\ Alone(c) /\ temp' = temp /\ disk' \subseteq disk
      /\ r.op = q.op /\ r.items = q.items /\ r.seen = q.seen /\ r.found = q.found /\ r.value = q.value
      /\ r.answer = q.answer /\ (q.crossed => r.crossed) /\ r.tried = q.tried /\ r.pc = q.pc /\ r.end = q.end
      /\ r.doomed \subseteq q.doomed /\ \A file \in q.doomed \ r.doomed : file \notin disk'
      /\ q.pc \in {"purging", "undoing"} /\ (r.hand # {} => q.pc \in {"purging", "undoing"})
      /\ metas' = metas \/ \E set : metas' = Those(metas, set)
  <2>1. CASE Erase(c)
    <3>1. PICK file \in q.doomed : disk' = disk \ {file} /\ Becomes(c, [q EXCEPT !.doomed = @ \ {file}, !.hand = {file} \cap disk])
      BY <2>1 DEF Erase
    <3>2. q.pc \in {"purging", "undoing"} /\ UNCHANGED <<library, document, temp, metas, unmoved>>
      BY <2>1 DEF Erase
    <3> QED BY <1>1, <3>1, <3>2 DEF Becomes, Alone, FieldsOfRequest
  <2>2. CASE Forget(c)
    <3>1. client' = [client EXCEPT ![c] = [q EXCEPT !.hand = {}]] /\ metas' = Those(metas, ToSet(metas) \ q.hand)
          /\ q.hand # {} /\ UNCHANGED <<library, document, temp, disk, unmoved>>
      BY <2>2 DEF Forget, Becomes
    <3>2. \E set : metas' = Those(metas, set)
      BY <3>1
    <3> QED BY <1>1, <3>1, <3>2 DEF Alone, FieldsOfRequest
  <2> QED BY <2>1, <2>2
<1>3. Continues(q, r) /\ Pending(r) = Pending(q)
  <2>1. r.tried \in Nat /\ r.pc \in {"purging", "undoing"}
    BY <1>1, <1>2
  <2> HIDE DEF q, r
  <2> QED BY <1>1, <1>2, <2>1 DEF Continues, Uploaded, Unlinking, Pending
<1>4. MetasGoOn(c) /\ (q.op = "upload" => MovedInOrder(client[c])')
  <2>1. q.op = "upload" => MovedInOrder(q)
    BY <1>1 DEF RequestStands, UploadStands
  <2>2. MetasGoOn(c) /\ \A x, y : Follows(metas, x, y) => Follows(metas', x, y)
    BY <1>2, MetasStay
  <2> QED BY <1>2, <2>1, <2>2, MetasStay
<1>5. Pending(r) = {}
  BY <1>1, <1>2 DEF Pending
<1>6. r.pc # "over"
  BY <1>1, <1>2
<1> QED BY <1>2, <1>3, <1>4, <1>5, <1>6, ContinuesStep

\* createFilesResponseDto answers with the files that were sent, if all of the field have metadata, and the
\* service returns what the request writes.
LEMMA AnswersAreSent ==
  ASSUME UploadsInv, FilesInv, NEW c \in Client, client[c].op = "upload", client[c].pc = "purging", NEW f \in FileField,
         ToSet(client[c].value[f]) \subseteq ToSet(metas), NEW data,
         data[f] = client[c].value[f] \/ data[f] = Once(client[c].value[f])
  PROVE  FilesResponse(client[c], data)[f] = Of(client[c], f)
<1> DEFINE q == client[c]
           b == Of(q, f)
           answer == FilesResponse(q, data)[f]
<1>1. answer = IF b = <<>> THEN <<>> ELSE IF f \in Many THEN Latest(Len(b), ByCreation(data[f])) ELSE data[f]
  BY DEF FilesResponse
<1>2. /\ IsList(q.items) /\ IsList(metas) /\ Apart(metas) /\ AreLists(q.found) /\ AreLists(q.value)
      /\ WritesAreMerged(q) /\ MovedInOrder(q)
  BY DEF UploadsInv, RequestInv, FilesInv, RequestKeeps, RequestStands, UploadStands
<1>3. /\ \A i, j \in DOMAIN q.items : i # j => q.items[i].file # q.items[j].file
      /\ b # <<>> => q.value[f] = b \/ (f \in Many /\ q.value[f] = q.found[f] \o b)
  BY <1>2 DEF WritesAreMerged, Uploaded
<1>4. /\ \A file \in ToSet(q.found[f]), i \in DOMAIN q.items : Follows(metas, file, q.items[i].file)
      /\ \A i, j \in DOMAIN q.items : i < j => Follows(metas, q.items[i].file, q.items[j].file)
  BY <1>2 DEF MovedInOrder, Named
<1>5. IsList(data[f]) /\ ToSet(data[f]) = ToSet(q.value[f])
  <2>1. IsList(q.value[f])
    BY <1>2 DEF AreLists
  <2> DEFINE value == q.value[f]
  <2>2. IsList(value) /\ (data[f] = value \/ data[f] = Once(value))
    BY <2>1
  <2> HIDE DEF value
  <2>3. IsList(Once(value)) /\ ToSet(Once(value)) = ToSet(value)
    BY <2>2, OncePicks, OnceSame
  <2>4. IsList(data[f]) /\ ToSet(data[f]) = ToSet(value)
    BY <2>2, <2>3
  <2> QED BY <2>4 DEF value
<1>6. IsList(b) /\ Apart(b)
  BY <1>2, <1>3, SentInOrder
<1>7. CASE b = <<>>
  BY <1>1, <1>7
<1>8. CASE b # <<>> /\ f \in Many
  <2>1. answer = Latest(Len(b), ByCreation(data[f]))
    BY <1>1, <1>8
  <2>2. q.value[f] = q.found[f] \o b \/ q.value[f] = b
    BY <1>3, <1>8
  <2>3. IsList(q.found[f])
    BY <1>2 DEF AreLists
  <2>4. Latest(Len(b), ByCreation(data[f])) = b
    <3> DEFINE names == data[f]
    <3>1. IsList(names) /\ ToSet(names) = ToSet(q.value[f])
      BY <1>5
    <3> HIDE DEF names
    <3>2. Latest(Len(b), ByCreation(names)) = b
      BY <1>2, <1>3, <1>4, <2>2, <2>3, <3>1, LatestAreSent
    <3> QED BY <3>2 DEF names
  <2> QED BY <2>1, <2>4
<1>9. CASE b # <<>> /\ f \notin Many
  <2>1. q.value[f] = b /\ answer = data[f]
    BY <1>1, <1>3, <1>9
  <2>2. Once(b) = b
    BY <1>6, OnceSame
  <2> QED BY <2>1, <2>2
<1> QED BY <1>7, <1>8, <1>9

\* The end of the deletion, and the answer
LEMMA PurgedStep ==
  ASSUME UploadsInv, FilesInv, library # "none", NEW c \in Client, Purged(c)
  PROVE  FilesInv'
<1> DEFINE q == client[c]
           r == client'[c]
           data == IF library = "mongoose" THEN q.value ELSE document
           answer == FilesResponse(q, data)
           next == IF q.op = "upload" THEN "cleaning" ELSE "over"
<1>1. /\ DOMAIN client = Client /\ DOMAIN q = FieldsOfRequest /\ RequestKeeps(q) /\ RequestStands(q)
      /\ q.tried \in Nat
      /\ q.end = "done" => q.pc \in {"cleaning", "over"}
  BY DEF UploadsInv, RequestInv, FilesInv, RequestKeeps
<1>2. /\ q.pc \in {"purging", "undoing"} /\ q.doomed = {} /\ q.hand = {} /\ UNCHANGED <<library, document, temp, disk, metas, unmoved>>
      /\ client' = [client EXCEPT ![c] = IF q.pc = "purging" THEN [q EXCEPT !.pc = next, !.end = "done", !.answer = answer]
                                         ELSE [q EXCEPT !.pc = next]]
  BY DEF Purged, Becomes
<1>3. next \in {"cleaning", "over"} /\ (q.op = "upload" => next = "cleaning")
  OBVIOUS
<1> HIDE DEF next, answer, data
<1>4. /\ Alone(c) /\ r.op = q.op /\ r.items = q.items /\ r.seen = q.seen /\ r.found = q.found /\ r.value = q.value
      /\ (q.crossed => r.crossed) /\ (r.crossed => q.crossed) /\ r.tried = q.tried /\ r.pc = next
      /\ r.doomed = {} /\ r.hand = {}
      /\ \/ q.pc = "purging" /\ r.end = "done" /\ r.answer = answer
         \/ q.pc = "undoing" /\ r.end = q.end /\ r.answer = q.answer
  <2>1. CASE q.pc = "purging"
    BY <1>1, <1>2, <2>1 DEF Alone, FieldsOfRequest
  <2>2. CASE q.pc = "undoing"
    BY <1>1, <1>2, <2>2 DEF Alone, FieldsOfRequest
  <2> QED BY <1>2, <2>1, <2>2
<1>5. Pending(r) = {}
  BY <1>3, <1>4 DEF Pending
<1>6. MetasGoOn(c) /\ (q.op = "upload" => MovedInOrder(client[c])')
  <2>1. q.op = "upload" => MovedInOrder(q)
    BY <1>1 DEF RequestStands, UploadStands
  <2>2. MetasGoOn(c)
    BY <1>2, MetasStay
  <2> QED BY <1>2, <1>4, <2>1, <2>2, MetasStay
<1>7. CASE q.pc = "undoing"
  <2>1. q.end # "done" /\ r.pc \in {"cleaning", "over"} /\ (q.op = "upload" => r.pc = "cleaning") /\ r.end = q.end /\ r.answer = q.answer
    <3>1. q.end # "done"
      BY <1>1, <1>7
    <3>2. r.pc = next /\ r.end = q.end /\ r.answer = q.answer
      BY <1>4, <1>7
    <3> QED BY <1>3, <3>1, <3>2
  <2>2. Continues(q, r)
    <3>1. r.tried \in Nat /\ r.pc # "received" /\ r.pc # "moving" /\ r.pc # "purging"
      <4>1. r.tried = q.tried
        BY <1>4
      <4> QED BY <1>1, <2>1, <4>1
    <3>2. ~Uploaded(r) /\ ~Unlinking(r)
      BY <2>1 DEF Uploaded, Unlinking
    <3> HIDE DEF q, r
    <3> QED BY <1>4, <2>1, <3>1, <3>2 DEF Continues
  <2>3. r.op = "upload" => r.pc # "over"
    BY <1>4, <2>1
  <2>4. r.doomed = q.doomed
    BY <1>2, <1>4
  <2> QED BY <1>2, <1>4, <1>5, <1>6, <2>1, <2>2, <2>3, <2>4, ContinuesStep
<1>8. CASE q.pc = "purging"
  <2>1. r.end = "done" /\ r.answer = answer /\ r.pc \in {"cleaning", "over"} /\ (q.op = "upload" => r.pc = "cleaning")
    BY <1>3, <1>4, <1>8
  <2>2. LeavesOthers(c)
    <3>1. \A p \in Client \ {c} : client'[p] = client[p]
      BY <1>4 DEF Alone
    <3> HIDE DEF q, r
    <3> QED BY <1>2, <1>4, <1>6, <3>1 DEF Alone, LeavesOthers, SameRequest, q, r
  <2>3. \A f \in FileField : Of(r, f) = Of(q, f)
    BY <1>4 DEF Of
  <2>4. RequestKeeps(client[c])'
    <3>1. q.op = "upload" => WritesAreMerged(r)
      <4> SUFFICES ASSUME WritesAreMerged(q) PROVE WritesAreMerged(r)
        BY <1>1 DEF RequestKeeps
      <4> HIDE DEF q, r
      <4>1. \A i, j \in DOMAIN r.items : i # j => r.items[i].file # r.items[j].file
        <5>1. \A i, j \in DOMAIN q.items : i # j => q.items[i].file # q.items[j].file
          BY DEF WritesAreMerged
        <5>2. r.items = q.items
          BY <1>4
        <5> QED BY <5>1, <5>2
      <4>2. ASSUME NEW f \in FileField, Of(r, f) # <<>>
            PROVE  r.value[f] = Of(r, f) \/ (f \in Many /\ r.value[f] = r.found[f] \o Of(r, f))
        <5>1. q.value[f] = Of(q, f) \/ (f \in Many /\ q.value[f] = q.found[f] \o Of(q, f))
          BY <1>8, <2>3, <4>2 DEF WritesAreMerged, Uploaded
        <5> QED BY <1>4, <2>3, <5>1
      <4>3. r.pc # "received"
        BY <2>1
      <4> QED BY <4>1, <4>2, <4>3 DEF WritesAreMerged
    <3>2. q.op = "unlink" => WritesAreRid(r)
      <4>1. q.op = "unlink" => WritesAreRid(q)
        BY <1>1 DEF RequestKeeps
      <4> HIDE DEF q, r
      <4> QED BY <1>4, <1>8, <4>1 DEF WritesAreRid, Unlinking
    <3> HIDE DEF q
    <3> QED BY <1>1, <1>4, <2>1, <3>1, <3>2 DEF RequestKeeps
  <2>5. ASSUME q.op = "upload" PROVE UploadStands(client[c])'
    <3>1. ASSUME NEW f \in FileField PROVE r.answer[f] = Of(r, f) \/ ~(ToSet(r.value[f]) \subseteq ToSet(metas')) \/ (library' = "typeorm" /\ r.crossed)
      <4> SUFFICES ASSUME ToSet(q.value[f]) \subseteq ToSet(metas), ~(library = "typeorm" /\ q.crossed)
                   PROVE  answer[f] = Of(q, f)
        BY <1>2, <1>4, <2>1, <2>3
      <4>1. library = "typeorm" => document[f] = Once(q.value[f])
        BY <1>1, <1>8, <2>5 DEF RequestStands, UploadStands
      <4>2. library \in {"mongoose", "typeorm"}
        BY DEF UploadsInv
      <4>3. data[f] = q.value[f] \/ data[f] = Once(q.value[f])
        BY <4>1, <4>2 DEF data
      <4>4. FilesResponse(q, data)[f] = Of(q, f)
        BY <1>8, <2>5, <4>3, AnswersAreSent
      <4> QED BY <4>4 DEF answer
    <3> QED BY <1>6, <2>1, <2>5, <3>1 DEF UploadStands
  <2>6. ASSUME q.op = "unlink" PROVE UnlinkStands(client[c])'
    <3>1. UnlinkStands(q)
      BY <1>1, <2>6 DEF RequestStands
    <3> HIDE DEF q
    <3>2. ASSUME NEW i \in DOMAIN r.items
          PROVE  \/ Twice(r.seen[r.items[i].field], r.items[i].file)
                 \/ /\ r.items[i].file \in ToSet(document'[r.items[i].field]) => r.crossed
                    /\ r.items[i].file \in disk' => r.items[i].file \in r.doomed \/ r.items[i].file \notin ToSet(r.found[r.items[i].field])
      BY <1>2, <1>4, <1>8, <3>1, <3>2 DEF UnlinkStands
    <3> QED BY <1>4, <3>2 DEF UnlinkStands
  <2>7. RequestStands(client[c])'
    <3>1. (client'[c].op = "upload" => UploadStands(client[c])') /\ (client'[c].op = "unlink" => UnlinkStands(client[c])')
      BY <1>4, <2>5, <2>6
    <3> QED BY <3>1 DEF RequestStands
  <2> QED BY <1>4, <1>5, <2>2, <2>4, <2>7, StepStands
<1> QED BY <1>2, <1>7, <1>8

\* moveFromTemp: the metadata of the file comes after that of all that the update has found, and of what
\* it has moved before.
LEMMA MoveFromTempStep ==
  ASSUME UploadsInv, FilesInv, library # "none", NEW c \in Client, MoveFromTemp(c)
  PROVE  FilesInv'
<1> DEFINE q == client[c]
           r == client'[c]
           at == q.tried + 1
           file == q.items[at].file
<1>1. /\ DOMAIN client = Client /\ DOMAIN q = FieldsOfRequest /\ RequestKeeps(q) /\ RequestStands(q)
      /\ PendingAreNew(c) /\ q.tried \in Nat /\ IsList(q.items) /\ IsList(metas) /\ Apart(metas)
      /\ q.end = "done" => q.pc \in {"cleaning", "over"}
      /\ q.hand # {} => q.pc \in {"purging", "undoing"}
  BY DEF UploadsInv, RequestInv, FilesInv, RequestKeeps
<1>2. /\ q.pc = "moving" /\ q.op = "upload" /\ q.tried < Len(q.items)
      /\ temp' = temp \ {file} /\ disk' = disk \cup {file} /\ metas' = Append(metas, file)
      /\ client' = [client EXCEPT ![c] = [q EXCEPT !.tried = @ + 1, !.moved = @ \cup {file}]]
      /\ UNCHANGED <<library, document, unmoved>>
  BY DEF MoveFromTemp, Moving, Becomes, UploadsInv, RequestInv
<1>3. at \in DOMAIN q.items /\ \A j \in DOMAIN q.items : j \in Nat
  <2>1. Len(q.items) \in Nat /\ DOMAIN q.items = 1 .. Len(q.items)
    BY <1>1, ListsAreSequences
  <2> QED BY <1>1, <1>2, <2>1
<1>4. Pending(q) = {q.items[i].file : i \in {j \in DOMAIN q.items : q.tried < j}}
  BY <1>2 DEF Pending
<1>5. file \in Pending(q) /\ file \notin ToSet(metas) /\ file \notin Named(q.found)
  <2>1. q.tried < at
    BY <1>1
  <2>2. file \in Pending(q)
    BY <1>3, <1>4, <2>1
  <2> QED BY <1>1, <2>2 DEF PendingAreNew
<1>6. \A i, j \in DOMAIN q.items : i # j => q.items[i].file # q.items[j].file
  BY <1>1, <1>2 DEF RequestKeeps, WritesAreMerged
<1>7. /\ Alone(c) /\ r.op = q.op /\ r.items = q.items /\ r.seen = q.seen /\ r.found = q.found /\ r.value = q.value
      /\ r.answer = q.answer /\ (q.crossed => r.crossed) /\ r.tried = at /\ r.pc = "moving" /\ r.end = q.end /\ r.hand = q.hand
      /\ r.doomed = q.doomed
  BY <1>1, <1>2 DEF Alone, FieldsOfRequest
<1> HIDE DEF file
<1>8. MetasGoOn(c) /\ ToSet(metas') = ToSet(metas) \cup {file} /\ \A x, y : x # file /\ Follows(metas, x, y) => Follows(metas', x, y)
  <2>1. /\ IsList(metas') /\ ToSet(metas') = ToSet(metas) \cup {file} /\ Apart(metas')
        /\ \A x, y : x # file /\ Follows(metas, x, y) => Follows(metas', x, y)
    BY <1>1, <1>2, <1>5, AppendedFollows
  <2> QED BY <1>5, <2>1 DEF MetasGoOn
<1>9. \A j \in DOMAIN q.items : at < j => q.items[j].file \in Pending(q) /\ q.items[j].file \notin ToSet(metas')
  <2> TAKE j \in DOMAIN q.items
  <2> SUFFICES ASSUME at < j PROVE q.items[j].file \in Pending(q) /\ q.items[j].file \notin ToSet(metas')
    OBVIOUS
  <2>1. q.tried < j /\ j # at
    BY <1>1, <1>3
  <2>2. q.items[j].file \in Pending(q)
    BY <1>4, <2>1
  <2>3. q.items[j].file # file
    BY <1>3, <1>6, <2>1 DEF file
  <2> QED BY <1>1, <1>8, <2>2, <2>3 DEF PendingAreNew
<1>10. Pending(r) \subseteq Pending(q) \ ToSet(metas')
  <2>1. Pending(r) = {q.items[i].file : i \in {j \in DOMAIN q.items : at < j}}
    BY <1>2, <1>7 DEF Pending
  <2> QED BY <1>9, <2>1
<1>11. MovedInOrder(client[c])'
  <2>1. MovedInOrder(q)
    BY <1>1, <1>2 DEF RequestStands, UploadStands
  <2>2. ASSUME NEW x \in Named(q.found), NEW i \in DOMAIN q.items PROVE Follows(metas', x, q.items[i].file)
    BY <1>5, <1>8, <2>1 DEF MovedInOrder
  <2>3. ASSUME NEW i \in DOMAIN q.items, NEW j \in DOMAIN q.items, i < j PROVE Follows(metas', q.items[i].file, q.items[j].file)
    <3>1. CASE i = at
      <4>1. q.items[j].file \notin ToSet(metas')
        BY <1>9, <2>3, <3>1
      <4> QED BY <4>1 DEF Follows, ToSet
    <3>2. CASE i # at
      <4>1. q.items[i].file # file
        BY <1>3, <1>6, <3>2 DEF file
      <4> QED BY <1>8, <2>1, <2>3, <4>1 DEF MovedInOrder
    <3> QED BY <3>1, <3>2
  <2> QED BY <1>7, <2>2, <2>3 DEF MovedInOrder
<1>12. Continues(q, r)
  <2>1. r.tried \in Nat
    BY <1>1, <1>7
  <2>2. q.end # "done" /\ q.hand = {}
    BY <1>1, <1>2
  <2> HIDE DEF q, r
  <2> QED BY <1>2, <1>7, <2>1, <2>2 DEF Continues, Uploaded, Unlinking
<1> QED BY <1>2, <1>5, <1>7, <1>8, <1>10, <1>11, <1>12, ContinuesStep

\* update has found the document; none of the files that are sent has metadata yet.
LEMMA FindForUploadKeeps ==
  ASSUME UploadsInv, FilesInv, library # "none", NEW c \in Client, FindForUpload(c)
  PROVE  FilesInv'
<1> DEFINE q == client[c]
           r == client'[c]
           resource == [f \in FileField |-> IF Of(q, f) # <<>> THEN Of(q, f) ELSE document[f]]
           value == Merged(document, resource)
<1>1. /\ DOMAIN client = Client /\ DOMAIN q = FieldsOfRequest /\ RequestKeeps(q) /\ RequestStands(q)
      /\ PendingAreNew(c) /\ q.tried \in Nat /\ IsList(q.items) /\ AreLists(document)
      /\ q.end = "done" => q.pc \in {"cleaning", "over"}
      /\ q.hand # {} => q.pc \in {"purging", "undoing"}
  BY DEF UploadsInv, RequestInv, FilesInv, RequestKeeps
<1>2. /\ q.pc = "received" /\ q.op = "upload" /\ UNCHANGED <<library, document, temp, disk, metas, unmoved>>
      /\ client' = [client EXCEPT ![c] = [Rereads(q) EXCEPT !.pc = "moving", !.value = value]]
  BY DEF FindForUpload, Becomes, UploadsInv, RequestInv
<1>3. \A f \in FileField :
        /\ IsList(resource[f]) /\ (Of(q, f) = <<>> => resource[f] = document[f]) /\ (Of(q, f) # <<>> => resource[f] = Of(q, f))
        /\ ToSet(resource[f]) \subseteq Named(document) \cup Items(q)
  <2> TAKE f \in FileField
  <2>1. IsList(Of(q, f)) /\ ToSet(Of(q, f)) \subseteq Items(q)
    BY <1>1, SentInOrder DEF Items
  <2>2. IsList(document[f]) /\ ToSet(document[f]) \subseteq Named(document)
    BY <1>1 DEF AreLists, Named
  <2> QED BY <2>1, <2>2
<1> HIDE DEF resource
<1>4. \A f \in FileField :
        /\ IsList(value[f]) /\ ToSet(value[f]) \subseteq Named(document) \cup Items(q)
        /\ value[f] = resource[f] \/ (f \in Many /\ value[f] = document[f] \o resource[f])
  <2> TAKE f \in FileField
  <2>1. IsList(document[f]) /\ IsList(resource[f]) /\ ToSet(document[f]) \subseteq Named(document)
        /\ ToSet(resource[f]) \subseteq Named(document) \cup Items(q)
    BY <1>1, <1>3 DEF AreLists, Named
  <2>2. IsList(document[f] \o resource[f]) /\ ToSet(document[f] \o resource[f]) \subseteq Named(document) \cup Items(q)
    BY <2>1, AppendedSet
  <2>3. value[f] = resource[f] \/ (f \in Many /\ value[f] = document[f] \o resource[f])
    BY DEF Merged
  <2> QED BY <2>1, <2>2, <2>3
<1>5. DOMAIN value = FileField
  BY DEF Merged
<1> HIDE DEF value
<1>6. /\ Alone(c) /\ r.op = q.op /\ r.items = q.items /\ r.seen = q.seen /\ r.found = document /\ r.value = value
      /\ r.tried = q.tried /\ r.pc = "moving" /\ r.end = q.end /\ r.hand = q.hand
  BY <1>1, <1>2 DEF Rereads, Alone, FieldsOfRequest
<1>7. q.tried = 0 /\ \A i, j \in DOMAIN q.items : i # j => q.items[i].file # q.items[j].file
  BY <1>1, <1>2 DEF RequestKeeps, WritesAreMerged
<1>8. Pending(r) = Items(q) /\ Pending(q) = Items(q)
  <2>1. \A j \in DOMAIN q.items : 0 < j
    <3>1. Len(q.items) \in Nat /\ DOMAIN q.items = 1 .. Len(q.items)
      BY <1>1, ListsAreSequences
    <3> QED BY <3>1
  <2> QED BY <1>2, <1>6, <1>7, <2>1 DEF Pending, Items
<1>9. MetasGoOn(c)
  BY <1>2, MetasStay
<1>10. \A i \in DOMAIN q.items : q.items[i].file \notin ToSet(metas)
  BY <1>1, <1>8 DEF PendingAreNew, Items
<1>11. MovedInOrder(client[c])'
  <2>1. \A x : \A i \in DOMAIN q.items : Follows(metas', x, q.items[i].file)
    BY <1>2, <1>10 DEF Follows, ToSet
  <2> QED BY <1>6, <2>1 DEF MovedInOrder
<1>12. AreLists(r.seen) /\ AreLists(r.found) /\ AreLists(r.value)
  BY <1>1, <1>4, <1>5, <1>6 DEF AreLists, RequestKeeps
<1>13. WritesAreMerged(r)
  <2>1. \A f : Of(r, f) = Of(q, f)
    BY <1>6 DEF Of
  <2> HIDE DEF q, r
  <2>2. ASSUME NEW f \in FileField, Of(r, f) # <<>>
        PROVE  r.value[f] = Of(r, f) \/ (f \in Many /\ r.value[f] = r.found[f] \o Of(r, f))
    BY <1>3, <1>4, <1>6, <2>1, <2>2
  <2>3. \A i, j \in DOMAIN r.items : i # j => r.items[i].file # r.items[j].file
    <3>1. r.items = q.items
      BY <1>6
    <3> QED BY <1>7, <3>1
  <2>4. r.pc # "received"
    BY <1>6
  <2> QED BY <2>2, <2>3, <2>4 DEF WritesAreMerged
<1>14. RequestKeeps(client[c])'
  <2>1. \A i \in DOMAIN r.items : r.items[i].field \in FileField
    BY <1>1, <1>6 DEF RequestKeeps
  <2>2. q.end # "done" /\ q.hand = {}
    BY <1>1, <1>2
  <2>3. r.op = "upload" /\ r.tried \in Nat /\ r.end # "done" /\ r.hand = {}
    BY <1>1, <1>2, <1>6, <2>2
  <2> HIDE DEF q, r
  <2>4. RequestKeeps(r)
    BY <1>12, <1>13, <2>1, <2>3 DEF RequestKeeps
  <2> QED BY <2>4 DEF RequestKeeps, WritesAreMerged, WritesAreRid, Uploaded, Unlinking, AreLists, Of, r
<1>15. RequestStands(client[c])'
  <2>1. q.end # "done"
    BY <1>1, <1>2
  <2>2. r.op = "upload" /\ r.pc = "moving" /\ r.end # "done"
    BY <1>2, <1>6, <2>1
  <2> QED BY <1>11, <2>2 DEF RequestStands, UploadStands
<1>16. LeavesOthers(c)
  <2>1. \A p \in Client \ {c} : SameRequest(client[p], client'[p])
    BY <1>6 DEF Alone, SameRequest
  <2>2. Named(value) \subseteq Named(document) \cup Items(q)
    BY <1>4 DEF Named
  <2>3. Sent(q) = Items(q)
    BY <1>2 DEF Sent
  <2> QED BY <1>2, <1>6, <1>9, <2>1, <2>2, <2>3 DEF Alone, LeavesOthers
<1>17. Pending(r) \subseteq Pending(q) \ ToSet(metas') /\ document' = document
  BY <1>1, <1>2, <1>8 DEF PendingAreNew
<1> QED BY <1>6, <1>14, <1>15, <1>16, <1>17, StepStands

\* unlink has found the document, and takes out what it is asked for.
LEMMA FindForUnlinkKeeps ==
  ASSUME UploadsInv, FilesInv, library # "none", NEW c \in Client, FindForUnlink(c)
  PROVE  FilesInv'
<1> DEFINE q == client[c]
           r == client'[c]
           value == [f \in FileField |-> WithoutOnce(document[f], Of(q, f))]
           unknown == \E i \in DOMAIN q.items : q.items[i].file \notin ToSet(document[q.items[i].field])
<1>1. /\ DOMAIN client = Client /\ DOMAIN q = FieldsOfRequest /\ RequestKeeps(q)
      /\ IsList(q.items) /\ AreLists(document)
      /\ \A i \in DOMAIN q.items : q.items[i].field \in FileField
      /\ q.end = "done" => q.pc \in {"cleaning", "over"}
      /\ q.hand # {} => q.pc \in {"purging", "undoing"}
  BY DEF UploadsInv, RequestInv, FilesInv, RequestKeeps
<1>2. /\ q.pc = "asked" /\ q.op = "unlink" /\ UNCHANGED <<library, document, temp, disk, metas, unmoved>>
      /\ client' = [client EXCEPT ![c] = IF unknown THEN [q EXCEPT !.pc = "over", !.end = "refused"]
                                         ELSE [q EXCEPT !.pc = "updating", !.seen = document, !.value = value]]
  BY DEF FindForUnlink, Becomes, UploadsInv, RequestInv
<1>3. \A f \in FileField : IsList(value[f]) /\ ToSet(value[f]) \subseteq ToSet(document[f])
  <2> TAKE f \in FileField
  <2> DEFINE names == document[f]
             gone == Of(q, f)
             positions == {i \in DOMAIN names : Times(names[i], names, i) > Times(names[i], gone, Len(gone))}
  <2>1. IsList(names)
    BY <1>1 DEF AreLists
  <2>2. positions \in SUBSET DOMAIN names /\ value[f] = At(names, positions)
    BY DEF WithoutOnce
  <2> HIDE DEF positions, names, value
  <2>3. IsList(value[f]) /\ \A k \in DOMAIN value[f] : \E i \in positions : value[f][k] = names[i]
    BY <2>1, <2>2, Selected, SelectedInOrder
  <2> QED BY <2>2, <2>3 DEF ToSet, names
<1>4. ASSUME NEW i \in DOMAIN q.items
      PROVE  Twice(document[q.items[i].field], q.items[i].file) \/ q.items[i].file \notin ToSet(value[q.items[i].field])
  <2> DEFINE f == q.items[i].field
             name == q.items[i].file
             names == document[f]
             gone == Of(q, f)
  <2>1. f \in FileField /\ value[f] = WithoutOnce(names, gone)
    BY <1>1
  <2>2. IsList(names) /\ IsList(gone) /\ name \in ToSet(gone)
    BY <1>1, <2>1, SentInOrder DEF AreLists
  <2> HIDE DEF names, gone, name, value
  <2>3. ~Twice(names, name) => name \notin ToSet(WithoutOnce(names, gone))
    BY <2>2, AskedGo
  <2> QED BY <2>1, <2>3 DEF names, name
<1>5. DOMAIN value = FileField
  OBVIOUS
<1> HIDE DEF value, unknown
<1>6. /\ Alone(c) /\ r.op = q.op /\ r.items = q.items /\ r.found = q.found /\ r.tried = q.tried /\ r.hand = q.hand
      /\ \/ r.pc = "over" /\ r.end = "refused" /\ r.seen = q.seen /\ r.value = q.value
         \/ r.pc = "updating" /\ r.end = q.end /\ r.seen = document /\ r.value = value
  <2>1. CASE unknown
    BY <1>1, <1>2, <2>1 DEF Alone, FieldsOfRequest
  <2>2. CASE ~unknown
    BY <1>1, <1>2, <2>2 DEF Alone, FieldsOfRequest
  <2> QED BY <2>1, <2>2
<1>7. r.end # "done" /\ r.hand = {} /\ r.op = "unlink" /\ r.pc # "purging" /\ q.end # "done"
  BY <1>1, <1>2, <1>6
<1>8. AreLists(r.seen) /\ AreLists(r.found) /\ AreLists(r.value)
  BY <1>1, <1>3, <1>5, <1>6 DEF AreLists, RequestKeeps
<1>9. WritesAreRid(r)
  <2>1. CASE r.pc = "over"
    BY <1>7, <2>1 DEF WritesAreRid, Unlinking
  <2>2. CASE r.seen = document /\ r.value = value
    <3> HIDE DEF q, r
    <3> QED BY <1>4, <1>6, <2>2 DEF WritesAreRid
  <2> QED BY <1>6, <2>1, <2>2
<1>10. RequestKeeps(client[c])'
  <2>1. r.tried \in Nat /\ \A i \in DOMAIN r.items : r.items[i].field \in FileField
    BY <1>1, <1>6 DEF RequestKeeps
  <2> HIDE DEF q, r
  <2>2. RequestKeeps(r)
    BY <1>7, <1>8, <1>9, <2>1 DEF RequestKeeps
  <2> QED BY <2>2 DEF RequestKeeps, WritesAreMerged, WritesAreRid, Uploaded, Unlinking, AreLists, Of, r
<1>11. RequestStands(client[c])'
  BY <1>7 DEF RequestStands, UnlinkStands
<1>12. LeavesOthers(c)
  <2>1. \A p \in Client \ {c} : SameRequest(client[p], client'[p])
    BY <1>6 DEF Alone, SameRequest
  <2>2. Named(value) \subseteq Named(document)
    BY <1>3 DEF Named
  <2>3. MetasGoOn(c)
    BY <1>2, MetasStay
  <2>4. /\ Named(r.seen) \cup Named(r.found) \subseteq Named(q.seen) \cup Named(q.found) \cup Named(document)
        /\ Named(r.value) \subseteq Named(q.value) \cup Named(document)
    BY <1>6, <2>2
  <2> QED BY <1>2, <1>6, <2>1, <2>3, <2>4 DEF Alone, LeavesOthers
<1>13. Pending(r) = {}
  BY <1>7 DEF Pending
<1> QED BY <1>6, <1>10, <1>11, <1>12, <1>13, StepStands

\* update finds it again.
LEMMA FindForUpdateKeeps ==
  ASSUME UploadsInv, FilesInv, library # "none", NEW c \in Client, FindForUpdate(c)
  PROVE  FilesInv'
<1> DEFINE q == client[c]
           r == client'[c]
           value == [f \in FileField |-> IF Of(q, f) # <<>> THEN q.value[f] ELSE document[f]]
<1>1. /\ DOMAIN client = Client /\ DOMAIN q = FieldsOfRequest /\ RequestKeeps(q)
      /\ IsList(q.items) /\ AreLists(document) /\ AreLists(q.value)
      /\ \A i \in DOMAIN q.items : q.items[i].field \in FileField
      /\ q.end = "done" => q.pc \in {"cleaning", "over"}
      /\ q.hand # {} => q.pc \in {"purging", "undoing"}
  BY DEF UploadsInv, RequestInv, FilesInv, RequestKeeps
<1>2. /\ q.pc = "updating" /\ q.op = "unlink" /\ UNCHANGED <<library, document, temp, disk, metas, unmoved>>
      /\ client' = [client EXCEPT ![c] =
           IF NamesKnown(q)
             THEN [Rereads(q) EXCEPT !.pc = "saving", !.value = [f \in FileField |-> IF Of(q, f) # <<>> THEN @[f] ELSE document[f]]]
             ELSE [q EXCEPT !.pc = "over", !.end = "refused"]]
  BY DEF FindForUpdate, Becomes, UploadsInv, RequestInv
<1>3. AreLists(value) /\ Named(value) \subseteq Named(q.value) \cup Named(document)
  BY <1>1 DEF AreLists, Named
<1>4. ASSUME NEW i \in DOMAIN q.items PROVE value[q.items[i].field] = q.value[q.items[i].field]
  <2>1. q.items[i].field \in FileField /\ q.items[i].file \in ToSet(Of(q, q.items[i].field))
    BY <1>1, SentInOrder
  <2>2. Of(q, q.items[i].field) # <<>>
    BY <2>1 DEF ToSet
  <2> QED BY <2>1, <2>2
<1>5. /\ Alone(c) /\ r.op = q.op /\ r.items = q.items /\ r.seen = q.seen /\ r.tried = q.tried /\ r.hand = q.hand
      /\ \/ r.pc = "over" /\ r.end = "refused" /\ r.found = q.found /\ r.value = q.value
         \/ r.pc = "saving" /\ r.end = q.end /\ r.found = document /\ r.value = value
  <2>1. CASE ~NamesKnown(q)
    BY <1>1, <1>2, <2>1 DEF Alone, FieldsOfRequest
  <2>2. CASE NamesKnown(q)
    BY <1>1, <1>2, <2>2 DEF Rereads, Alone, FieldsOfRequest
  <2> QED BY <2>1, <2>2
<1> HIDE DEF value
<1>7. r.end # "done" /\ r.hand = {} /\ r.op = "unlink" /\ r.pc # "purging" /\ q.end # "done"
  BY <1>1, <1>2, <1>5
<1>8. AreLists(r.seen) /\ AreLists(r.found) /\ AreLists(r.value)
  BY <1>1, <1>3, <1>5 DEF RequestKeeps
<1>9. WritesAreRid(r)
  <2>1. CASE r.pc = "over"
    BY <1>7, <2>1 DEF WritesAreRid, Unlinking
  <2>2. CASE r.value = value
    <3>1. \A i \in DOMAIN q.items :
            Twice(q.seen[q.items[i].field], q.items[i].file) \/ q.items[i].file \notin ToSet(q.value[q.items[i].field])
      BY <1>1, <1>2 DEF RequestKeeps, WritesAreRid, Unlinking
    <3> HIDE DEF q, r
    <3> QED BY <1>4, <1>5, <2>2, <3>1 DEF WritesAreRid
  <2> QED BY <1>5, <2>1, <2>2
<1>10. RequestKeeps(client[c])'
  <2>1. r.tried \in Nat /\ \A i \in DOMAIN r.items : r.items[i].field \in FileField
    BY <1>1, <1>5 DEF RequestKeeps
  <2> HIDE DEF q, r
  <2>2. RequestKeeps(r)
    BY <1>7, <1>8, <1>9, <2>1 DEF RequestKeeps
  <2> QED BY <2>2 DEF RequestKeeps, WritesAreMerged, WritesAreRid, Uploaded, Unlinking, AreLists, Of, r
<1>11. RequestStands(client[c])'
  BY <1>7 DEF RequestStands, UnlinkStands
<1>12. LeavesOthers(c)
  <2>1. \A p \in Client \ {c} : SameRequest(client[p], client'[p])
    BY <1>5 DEF Alone, SameRequest
  <2>2. MetasGoOn(c)
    BY <1>2, MetasStay
  <2>3. /\ Named(r.seen) \cup Named(r.found) \subseteq Named(q.seen) \cup Named(q.found) \cup Named(document)
        /\ Named(r.value) \subseteq Named(q.value) \cup Named(document)
    BY <1>3, <1>5
  <2> QED BY <1>2, <1>5, <2>1, <2>2, <2>3 DEF Alone, LeavesOthers
<1>13. Pending(r) = {}
  BY <1>7 DEF Pending
<1> QED BY <1>5, <1>10, <1>11, <1>12, <1>13, StepStands

\* The document is written: an upload's, which TypeORM will find so, or an unlink's, without what it was asked for.
LEMMA SaveKeeps ==
  ASSUME UploadsInv, FilesInv, library # "none", NEW c \in Client, Save(c)
  PROVE  FilesInv'
<1> DEFINE q == client[c]
           r == client'[c]
<1>1. /\ DOMAIN client = Client /\ \A p \in Client : DOMAIN client[p] = FieldsOfRequest
      /\ RequestKeeps(q) /\ RequestStands(q) /\ AreLists(q.value)
      /\ IsList(q.items) /\ AreLists(document) /\ q.pc = "saving" /\ KnowsDocument(q)
      /\ \A i \in DOMAIN q.items : q.items[i].field \in FileField
      /\ q.end = "done" => q.pc \in {"cleaning", "over"}
      /\ q.hand # {} => q.pc \in {"purging", "undoing"}
  BY DEF UploadsInv, RequestInv, FilesInv, RequestKeeps, Save
<1>2. /\ UNCHANGED <<library, temp, disk, metas, unmoved>>
      /\ document' = [f \in FileField |-> IF library = "typeorm" THEN Once(q.value[f])
                                       ELSE IF f \in Modified(q) THEN q.value[f] ELSE document[f]]
      /\ DOMAIN client' = Client /\ r = [q EXCEPT !.pc = "purging", !.doomed = Doomed(q)]
      /\ \A p \in Client \ {c} :
           client'[p] = [client[p] EXCEPT !.crossed = TRUE, !.stale = @ \/ Modified(q) \cap Many # {}]
  BY DEF Save
<1>3. /\ r.op = q.op /\ r.items = q.items /\ r.seen = q.seen /\ r.found = q.found /\ r.value = q.value
      /\ (q.crossed => r.crossed) /\ r.tried = q.tried /\ r.pc = "purging" /\ r.end = q.end /\ r.hand = q.hand
      /\ r.doomed = Doomed(q)
  BY <1>1, <1>2 DEF FieldsOfRequest
<1>4. q.end # "done" /\ r.end # "done" /\ r.hand = {}
  BY <1>1, <1>3
<1>5. \A f \in FileField : ToSet(document'[f]) \subseteq ToSet(document[f]) \cup ToSet(q.value[f])
  <2> TAKE f \in FileField
  <2>1. IsList(q.value[f])
    BY <1>1 DEF AreLists
  <2>2. ToSet(Once(q.value[f])) = ToSet(q.value[f])
    BY <2>1, OnceSame
  <2> QED BY <1>2, <2>2
<1>6. LeavesOthers(c)
  <2>1. ASSUME NEW p \in Client \ {c} PROVE SameRequest(client[p], client'[p]) /\ client'[p].crossed
    <3> DEFINE writes == Modified(q) \cap Many # {}
    <3>1. client'[p] = [client[p] EXCEPT !.crossed = TRUE, !.stale = @ \/ writes] /\ DOMAIN client[p] = FieldsOfRequest
      BY <1>1, <1>2
    <3> HIDE DEF writes
    <3> QED BY <3>1 DEF SameRequest, FieldsOfRequest
  <2>2. MetasGoOn(c)
    BY <1>2, MetasStay
  <2>3. Named(document') \subseteq Named(document) \cup Named(q.value)
    BY <1>5 DEF Named
  <2> QED BY <1>2, <1>3, <2>1, <2>2, <2>3 DEF LeavesOthers
<1>7. Pending(r) = {}
  BY <1>3 DEF Pending
<1>8. RequestKeeps(client[c])'
  <2>1. q.op = "upload" => WritesAreMerged(r)
    <3> SUFFICES ASSUME WritesAreMerged(q) PROVE WritesAreMerged(r)
      BY <1>1 DEF RequestKeeps
    <3>1. \A f \in FileField : Of(r, f) = Of(q, f)
      BY <1>3 DEF Of
    <3>2. \A i, j \in DOMAIN q.items : i # j => q.items[i].file # q.items[j].file
      BY DEF WritesAreMerged
    <3>3. \A i, j \in DOMAIN r.items : i # j => r.items[i].file # r.items[j].file
      <4>1. r.items = q.items
        BY <1>3
      <4> HIDE DEF q, r
      <4> QED BY <3>2, <4>1
    <3>4. ASSUME NEW f \in FileField, Of(r, f) # <<>>
          PROVE  r.value[f] = Of(r, f) \/ (f \in Many /\ r.value[f] = r.found[f] \o Of(r, f))
      <4>1. q.value[f] = Of(q, f) \/ (f \in Many /\ q.value[f] = q.found[f] \o Of(q, f))
        BY <1>1, <3>1, <3>4 DEF WritesAreMerged, Uploaded
      <4> HIDE DEF q, r
      <4> QED BY <1>3, <3>1, <4>1
    <3> HIDE DEF q, r
    <3> QED BY <1>3, <3>3, <3>4 DEF WritesAreMerged
  <2>2. q.op = "unlink" => WritesAreRid(r)
    <3>1. q.op = "unlink" => WritesAreRid(q)
      BY <1>1 DEF RequestKeeps
    <3> HIDE DEF q, r
    <3> QED BY <1>1, <1>3, <3>1 DEF WritesAreRid, Unlinking
  <2>3. r.tried \in Nat /\ AreLists(r.seen) /\ AreLists(r.found) /\ AreLists(r.value)
        /\ \A i \in DOMAIN r.items : r.items[i].field \in FileField
    <3> HIDE DEF q, r
    <3> QED BY <1>1, <1>3 DEF RequestKeeps
  <2>4. RequestKeeps(r)
    <3> HIDE DEF q, r
    <3> QED BY <1>3, <1>4, <2>1, <2>2, <2>3 DEF RequestKeeps
  <2> HIDE DEF q, r
  <2> QED BY <2>4 DEF RequestKeeps, WritesAreMerged, WritesAreRid, Uploaded, Unlinking, AreLists, Of, r
<1>9. ASSUME q.op = "upload" PROVE UploadStands(client[c])'
  <2>1. MovedInOrder(client[c])'
    <3>1. MovedInOrder(q)
      BY <1>1, <1>9 DEF RequestStands, UploadStands
    <3> QED BY <1>2, <1>3, <3>1 DEF MovedInOrder
  <2>2. library' = "typeorm" => \A f \in FileField : document'[f] = Once(r.value[f])
    <3> HIDE DEF r
    <3> QED BY <1>2, <1>3
  <2> QED BY <1>3, <1>4, <2>1, <2>2 DEF UploadStands
<1>10. ASSUME q.op = "unlink" PROVE UnlinkStands(client[c])'
  <2>1. ASSUME NEW i \in DOMAIN q.items, ~Twice(q.seen[q.items[i].field], q.items[i].file)
        PROVE  /\ q.items[i].file \in ToSet(document'[q.items[i].field]) => q.crossed
               /\ q.items[i].file \in Doomed(q) \/ q.items[i].file \notin ToSet(q.found[q.items[i].field])
    <3> DEFINE f == q.items[i].field
               file == q.items[i].file
    <3>1. f \in FileField /\ file \notin ToSet(q.value[f]) /\ IsList(q.value[f])
      BY <1>1, <1>10, <2>1 DEF RequestKeeps, WritesAreRid, Unlinking, AreLists
    <3>2. ToSet(Once(q.value[f])) = ToSet(q.value[f])
      BY <3>1, OnceSame
    <3>3. document'[f] = IF library = "typeorm" THEN Once(q.value[f])
                         ELSE IF f \in Modified(q) THEN q.value[f] ELSE document[f]
      BY <1>2, <3>1
    <3>4. file \in ToSet(document'[f]) => q.crossed
      <4>1. SUFFICES ASSUME file \in ToSet(document'[f]), ~q.crossed PROVE FALSE
        OBVIOUS
      <4>2. f \notin Modified(q) /\ file \in ToSet(document[f])
        BY <3>1, <3>2, <3>3, <4>1
      <4>3. q.value[f] = q.found[f] /\ q.found = document
        BY <1>1, <3>1, <4>1, <4>2 DEF Modified, KnowsDocument
      <4> QED BY <3>1, <4>2, <4>3
    <3>5. file \in ToSet(q.found[f]) => file \in Doomed(q)
      <4>1. SUFFICES ASSUME file \in ToSet(q.found[f]) PROVE file \in Doomed(q)
        OBVIOUS
      <4>2. q.value[f] # q.found[f]
        BY <3>1, <4>1
      <4> QED BY <3>1, <4>1, <4>2 DEF Doomed
    <3> QED BY <3>4, <3>5
  <2>2. ASSUME NEW i \in DOMAIN r.items
        PROVE  \/ Twice(r.seen[r.items[i].field], r.items[i].file)
               \/ /\ r.items[i].file \in ToSet(document'[r.items[i].field]) => r.crossed
                  /\ r.items[i].file \in disk' => r.items[i].file \in r.doomed \/ r.items[i].file \notin ToSet(r.found[r.items[i].field])
    <3> HIDE DEF q, r
    <3> QED BY <1>3, <2>1, <2>2
  <2> QED BY <1>4, <2>2 DEF UnlinkStands
<1>11. RequestStands(client[c])'
  <2>1. (client'[c].op = "upload" => UploadStands(client[c])') /\ (client'[c].op = "unlink" => UnlinkStands(client[c])')
    BY <1>3, <1>9, <1>10
  <2> QED BY <2>1 DEF RequestStands
<1> QED BY <1>3, <1>6, <1>7, <1>8, <1>11, StepStands

\* The names of multer are new, and each is made once.
LEMMA NamesAreMade ==
  /\ Len(New) \in Nat
  /\ \A k \in 1 .. Len(New) : New[k] \notin Known
  /\ \A k, l \in 1 .. Len(New) : k # l => New[k] # New[l]
<1> DEFINE positions == Upload \ Known
<1>1. positions \in SUBSET (Nat \ {0}) /\ IsFiniteSet(positions) /\ positions \subseteq Upload /\ positions \cap Known = {}
  BY UploadsAssumption, FS_Subset
<1>2. New = [k \in 1 .. Cardinality(positions) |->
               [n \in Upload |-> n][CHOOSE i \in positions : Place(positions, i) = k]]
  BY DEF New, At, Place
<1> HIDE DEF positions
<1>3. Cardinality(positions) \in Nat /\ \A k \in 1 .. Cardinality(positions) : \E i \in positions : Place(positions, i) = k
  BY <1>1, Numbers
<1>4. Len(New) = Cardinality(positions)
  <2>1. New \in Seq({New[k] : k \in 1 .. Cardinality(positions)}) /\ DOMAIN New = 1 .. Cardinality(positions)
    BY <1>2, <1>3
  <2> QED BY <1>3, <2>1
<1>5. ASSUME NEW k \in 1 .. Cardinality(positions) PROVE New[k] \in positions /\ Place(positions, New[k]) = k
  <2> DEFINE i == CHOOSE i \in positions : Place(positions, i) = k
  <2>1. i \in positions /\ Place(positions, i) = k
    BY <1>3
  <2>2. New[k] = [n \in Upload |-> n][i]
    BY <1>2
  <2> HIDE DEF i
  <2>3. New[k] = i
    BY <1>1, <2>1, <2>2
  <2> QED BY <2>1, <2>3
<1>6. \A k, l \in 1 .. Cardinality(positions) : k # l => New[k] # New[l]
  BY <1>5
<1>7. \A k \in 1 .. Cardinality(positions) : New[k] \notin Known
  BY <1>1, <1>5
<1> QED BY <1>3, <1>4, <1>6, <1>7

\* Nothing has no names.
LEMMA NothingNamed == Named(Nothing) = {}
<1>1. \A f \in FileField : ToSet(Nothing[f]) = {}
  BY DEF Nothing, ToSet
<1> QED BY <1>1 DEF Named

\* A request that comes has names of its own, or those it is asked for.
LEMMA ReceiveKeeps ==
  ASSUME UploadsInv, FilesInv, library # "none", NEW c \in Client, NEW fields \in Seq(FileField), ReceiveFiles(c, fields)
  PROVE  FilesInv'
<1> DEFINE q == client[c]
           r == client'[c]
           items == [i \in DOMAIN fields |-> [field |-> fields[i], file |-> New[i]]]
           names == {items[i].file : i \in DOMAIN items}
<1>1. /\ DOMAIN client = Client /\ q.pc = "idle" /\ Len(fields) <= Len(New) /\ Len(fields) \in Nat /\ DOMAIN fields = 1 .. Len(fields)
      /\ UNCHANGED <<library, document, disk, metas, unmoved>> /\ temp' = temp \cup names
      /\ client' = [client EXCEPT ![c] = [Idle EXCEPT !.pc = "received", !.op = "upload", !.items = items]]
  BY DEF UploadsInv, ReceiveFiles, Becomes
<1>2. /\ \A i \in DOMAIN items : items[i].field \in FileField /\ items[i].file \notin Known
      /\ \A i, j \in DOMAIN items : i # j => items[i].file # items[j].file
  <2>1. \A i \in DOMAIN fields : i \in 1 .. Len(New)
    BY <1>1, NamesAreMade
  <2> QED BY <2>1, NamesAreMade
<1> HIDE DEF items
<1>3. /\ r.pc = "received" /\ r.op = "upload" /\ r.items = items /\ r.tried = 0 /\ r.seen = Nothing /\ r.found = Nothing
      /\ r.value = Nothing /\ r.hand = {} /\ r.end = "none"
      /\ Alone(c)
  BY <1>1 DEF Idle, Alone
<1>4. /\ \A name \in names : /\ name \notin Named(document) \cup disk \cup ToSet(metas)
                             /\ \A p \in Client : name \notin Items(client[p]) \cup Named(client[p].seen)
                                                              \cup Named(client[p].found) \cup Named(client[p].value)
  BY <1>2 DEF Known
<1>5. names = Items(r)
  BY <1>3 DEF Items
<1> HIDE DEF names
<1>6. LeavesOthers(c)
  <2>1. \A p \in Client \ {c} : SameRequest(client[p], client'[p])
    BY <1>3 DEF Alone, SameRequest
  <2>2. MetasGoOn(c)
    BY <1>1, MetasStay
  <2>3. Named(r.seen) = {} /\ Named(r.found) = {} /\ Named(r.value) = {}
    BY <1>3, NothingNamed
  <2>4. \A p \in Client : temp' \cap Items(client[p]) \subseteq temp
    BY <1>1, <1>4
  <2> QED BY <1>1, <1>3, <2>1, <2>2, <2>3, <2>4 DEF Alone, LeavesOthers
<1>7. \A p \in Client \ {c} : (RequestKeeps(client[p]) /\ RequestStands(client[p]) /\ PendingAreNew(p))'
  BY <1>6, OthersStand
<1>8. RequestKeeps(client[c])'
  <2>1. AreLists(r.seen) /\ AreLists(r.found) /\ AreLists(r.value) /\ r.tried \in Nat
    BY <1>3, NothingIsLists
  <2>2. WritesAreMerged(r)
    <3> HIDE DEF r
    <3>1. \A i, j \in DOMAIN r.items : i # j => r.items[i].file # r.items[j].file
      BY <1>2, <1>3
    <3> QED BY <1>3, <3>1 DEF WritesAreMerged, Uploaded
  <2>3. \A i \in DOMAIN r.items : r.items[i].field \in FileField
    <3> HIDE DEF r
    <3> QED BY <1>2, <1>3
  <2>4. RequestKeeps(r)
    <3> HIDE DEF r
    <3> QED BY <1>3, <2>1, <2>2, <2>3 DEF RequestKeeps
  <2> HIDE DEF r
  <2> QED BY <2>4 DEF RequestKeeps, WritesAreMerged, WritesAreRid, Uploaded, Unlinking, AreLists, Of, r
<1>9. RequestStands(client[c])'
  <2>1. MovedInOrder(client[c])'
    <3>1. \A i \in DOMAIN r.items : r.items[i].file \notin ToSet(metas')
      BY <1>1, <1>4, <1>5 DEF Items
    <3>2. \A x : \A i \in DOMAIN r.items : Follows(metas', x, r.items[i].file)
      BY <3>1 DEF Follows, ToSet
    <3> QED BY <3>2 DEF MovedInOrder
  <2> QED BY <1>3, <2>1 DEF RequestStands, UploadStands
<1>10. PendingAreNew(c)'
  <2>1. Pending(r) \subseteq Items(r)
    BY DEF Pending, Items
  <2>2. SUFFICES ASSUME NEW file \in Pending(r)
        PROVE  /\ file \notin Named(document') \cup ToSet(metas')
               /\ \A p \in Client : file \notin Named(client'[p].seen) \cup Named(client'[p].found)
               /\ \A p \in Client \ {c} : file \notin Named(client'[p].value)
    BY DEF PendingAreNew
  <2>3. file \in names
    BY <1>5, <2>1
  <2>4. ASSUME NEW p \in Client \ {c}
        PROVE  file \notin Named(client'[p].seen) \cup Named(client'[p].found) \cup Named(client'[p].value)
    BY <1>3, <1>4, <2>3 DEF Alone
  <2>5. file \notin Named(r.seen) \cup Named(r.found)
    BY <1>3, NothingNamed
  <2> QED BY <1>1, <1>4, <2>3, <2>4, <2>5
<1>11. SendersAreApart'
  <2>1. \A p \in Client \ {c} : client'[p] = client[p] /\ Sent(client[p]) \subseteq Items(client[p])
    BY <1>3 DEF Alone, Sent
  <2>2. Sent(r) = names /\ \A p \in Client : names \cap Items(client[p]) = {}
    BY <1>3, <1>4, <1>5 DEF Sent
  <2>3. ASSUME NEW p \in Client, NEW o \in Client, p # o PROVE Sent(client'[p]) \cap Sent(client'[o]) = {}
    <3>1. Sent(client[p]) \cap Sent(client[o]) = {}
      BY <2>3 DEF FilesInv, SendersAreApart
    <3>2. CASE p = c
      BY <2>1, <2>2, <2>3, <3>2
    <3>3. CASE o = c
      BY <2>1, <2>2, <2>3, <3>3
    <3>4. CASE p # c /\ o # c
      BY <2>1, <3>1, <3>4
    <3> QED BY <3>2, <3>3, <3>4
  <2> QED BY <2>3 DEF SendersAreApart
<1>12. IsList(metas)' /\ Apart(metas)'
  BY <1>6 DEF LeavesOthers, MetasGoOn, IsList, Apart
<1>13. ASSUME NEW p \in Client PROVE (RequestKeeps(client[p]) /\ RequestStands(client[p]) /\ PendingAreNew(p))'
  <2>1. CASE p = c
    BY <1>8, <1>9, <1>10, <2>1
  <2>2. CASE p # c
    BY <1>7, <2>2
  <2> QED BY <2>1, <2>2
<1> QED BY <1>11, <1>12, <1>13 DEF FilesInv

\* An unlink that comes has found nothing yet.
LEMMA AskKeeps ==
  ASSUME UploadsInv, FilesInv, library # "none", NEW c \in Client, NEW items \in Seq([field : FileField, file : Upload]),
         AskUnlink(c, items)
  PROVE  FilesInv'
<1> DEFINE r == client'[c]
<1>1. /\ r.pc = "asked" /\ r.op = "unlink" /\ r.items = items /\ r.tried = 0 /\ r.seen = Nothing /\ r.found = Nothing
      /\ r.value = Nothing /\ r.hand = {} /\ r.end = "none"
      /\ Alone(c) /\ UNCHANGED <<temp, disk, metas>>
  BY DEF AskUnlink, Becomes, Idle, Alone, UploadsInv
<1>2. \A i \in DOMAIN items : items[i].field \in FileField
  <2> DEFINE Asked == [field : FileField, file : Upload]
  <2>1. items \in Seq(Asked) /\ \A item \in Asked : item.field \in FileField
    OBVIOUS
  <2> HIDE DEF Asked
  <2>2. \A i \in DOMAIN items : items[i] \in Asked
    BY <2>1
  <2> QED BY <2>1, <2>2
<1>3. RequestKeeps(client[c])'
  <2>1. AreLists(r.seen) /\ AreLists(r.found) /\ AreLists(r.value) /\ r.tried \in Nat
    BY <1>1, NothingIsLists
  <2>2. RequestKeeps(r)
    <3> HIDE DEF r
    <3> QED BY <1>1, <1>2, <2>1 DEF RequestKeeps, WritesAreRid, Unlinking
  <2> HIDE DEF r
  <2> QED BY <2>2 DEF RequestKeeps, WritesAreMerged, WritesAreRid, Uploaded, Unlinking, AreLists, Of, r
<1>4. RequestStands(client[c])'
  BY <1>1 DEF RequestStands, UnlinkStands
<1>5. LeavesOthers(c)
  <2>1. \A p \in Client \ {c} : SameRequest(client[p], client'[p])
    BY <1>1 DEF Alone, SameRequest
  <2>2. MetasGoOn(c)
    BY <1>1, MetasStay
  <2>3. Named(r.seen) = {} /\ Named(r.found) = {} /\ Named(r.value) = {}
    BY <1>1, NothingNamed
  <2> QED BY <1>1, <2>1, <2>2, <2>3 DEF Alone, LeavesOthers
<1>6. Pending(r) = {}
  BY <1>1 DEF Pending
<1> QED BY <1>1, <1>3, <1>4, <1>5, <1>6, StepStands

\* Before a request comes there is nothing to say of it.
LEMMA IdleKeeps ==
  /\ RequestKeeps(Idle) /\ Idle.op = "none" /\ Idle.pc = "idle" /\ Pending(Idle) = {} /\ Sent(Idle) = {}
<1>1. /\ Idle.op = "none" /\ Idle.pc = "idle" /\ Idle.items = <<>> /\ Idle.tried = 0 /\ Idle.seen = Nothing
      /\ Idle.found = Nothing /\ Idle.value = Nothing /\ Idle.hand = {} /\ Idle.end = "none"
  BY DEF Idle
<1>2. RequestKeeps(Idle)
  BY <1>1, NothingIsLists DEF RequestKeeps
<1> QED BY <1>1, <1>2 DEF Pending, Sent

\* Nor when the document is there.
LEMMA AttachKeeps ==
  ASSUME UploadsInv, FilesInv, library = "none", NEW orm \in {"mongoose", "typeorm"}, NEW value \in [FileField -> Seq(Upload)],
         NEW order \in Seq(Upload), Apart(order), Attach(orm, value, order)
  PROVE  FilesInv'
<1>1. client' = client /\ metas' = order /\ \A c \in Client : client[c] = Idle
  BY DEF Attach, UploadsInv
<1>2. IsList(metas)' /\ Apart(metas)'
  BY <1>1, SequencesAreLists DEF IsList, Apart
<1>3. ASSUME NEW c \in Client PROVE (RequestKeeps(client[c]) /\ RequestStands(client[c]) /\ PendingAreNew(c))'
  <2>1. client'[c] = Idle
    BY <1>1
  <2>2. RequestKeeps(client[c])'
    <3>1. RequestKeeps(client[c])
      BY DEF FilesInv
    <3> QED BY <1>1, <3>1 DEF RequestKeeps, WritesAreMerged, WritesAreRid, Uploaded, Unlinking, AreLists, Of
  <2> QED BY <2>1, <2>2, IdleKeeps DEF RequestStands, PendingAreNew
<1>4. SendersAreApart'
  BY <1>1, IdleKeeps DEF SendersAreApart
<1> QED BY <1>2, <1>3, <1>4 DEF FilesInv

\* FilesInv is inductive, with UploadsInv.
LEMMA FilesInv_Init == UploadsInit => FilesInv
<1> SUFFICES ASSUME UploadsInit PROVE FilesInv
  OBVIOUS
<1>1. metas = <<>> /\ \A c \in Client : client[c] = Idle
  BY DEF UploadsInit
<1>2. IsList(metas) /\ Apart(metas)
  BY <1>1 DEF IsList, Apart
<1>3. \A c \in Client : RequestKeeps(client[c]) /\ RequestStands(client[c]) /\ PendingAreNew(c)
  BY <1>1, IdleKeeps DEF RequestStands, PendingAreNew
<1>4. SendersAreApart
  BY <1>1, IdleKeeps DEF SendersAreApart
<1> QED BY <1>2, <1>3, <1>4 DEF FilesInv

\* No step breaks it.
LEMMA FilesInv_Next == UploadsInv /\ FilesInv /\ [Uploading]_uploadsVars => FilesInv'
<1> SUFFICES ASSUME UploadsInv, FilesInv, [Uploading]_uploadsVars PROVE FilesInv'
  OBVIOUS
<1>1. CASE UNCHANGED uploadsVars
  <2>1. /\ client' = client /\ metas' = metas /\ document' = document /\ temp' = temp /\ disk' = disk
        /\ library' = library
    BY <1>1 DEF uploadsVars
  <2>2. ASSUME NEW c \in Client PROVE (RequestKeeps(client[c]) /\ RequestStands(client[c]) /\ PendingAreNew(c))'
    <3>1. RequestKeeps(client[c]) /\ RequestStands(client[c]) /\ PendingAreNew(c)
      BY DEF FilesInv
    <3>2. RequestKeeps(client[c])'
      BY <2>1, <3>1 DEF RequestKeeps, WritesAreMerged, WritesAreRid, Uploaded, Unlinking, AreLists, Of
    <3>3. RequestStands(client[c])'
      BY <2>1, <3>1 DEF RequestStands, UploadStands, UnlinkStands, MovedInOrder
    <3>4. PendingAreNew(c)'
      BY <2>1, <3>1 DEF PendingAreNew
    <3> QED BY <3>2, <3>3, <3>4
  <2>3. IsList(metas)' /\ Apart(metas)'
    BY <2>1 DEF FilesInv, IsList, Apart
  <2>4. SendersAreApart'
    BY <2>1 DEF FilesInv, SendersAreApart
  <2> QED BY <2>2, <2>3, <2>4 DEF FilesInv
<1>2. ASSUME library = "none", NEW orm \in {"mongoose", "typeorm"}, NEW value \in [FileField -> Seq(Upload)],
             NEW order \in Seq(Upload), Apart(order), Attach(orm, value, order)
      PROVE  FilesInv'
  BY <1>2, AttachKeeps
<1>3. ASSUME library # "none", NEW c \in Client, NEW fields \in Seq(FileField), ReceiveFiles(c, fields)
      PROVE  FilesInv'
  BY <1>3, ReceiveKeeps
<1>4. ASSUME library # "none", NEW c \in Client, NEW items \in Seq([field : FileField, file : Upload]), AskUnlink(c, items)
      PROVE  FilesInv'
  BY <1>4, AskKeeps
<1>5. ASSUME library # "none", NEW c \in Client, UploadsStep(c) PROVE FilesInv'
  BY <1>5, QuietStep, EraseStep, PurgedStep, MoveFromTempStep, FindForUploadKeeps, FindForUnlinkKeeps, FindForUpdateKeeps,
     SaveKeeps DEF UploadsStep
<1> QED BY <1>1, <1>2, <1>3, <1>4, <1>5 DEF Uploading

\* It says what the answers are.
LEMMA AnswersStand == FilesInv => FileAnswersHold
<1> SUFFICES ASSUME FilesInv, NEW c \in Client
    PROVE  LET q == client[c] IN
           /\ q.pc = "over" /\ q.op = "upload" => q.end = "no id" \/ Items(q) \cap temp = {}
           /\ q.end = "done" /\ q.op = "upload" =>
                \A f \in FileField :
                  \/ q.answer[f] = Of(q, f)
                  \/ ~(ToSet(q.value[f]) \subseteq ToSet(metas))
                  \/ library = "typeorm" /\ q.crossed
           /\ q.end = "done" /\ q.op = "unlink" =>
                \A i \in DOMAIN q.items :
                  LET item == q.items[i] IN
                  \/ Twice(q.seen[item.field], item.file)
                  \/ /\ item.file \in ToSet(document[item.field]) => q.crossed
                     /\ item.file \in disk => item.file \notin ToSet(q.found[item.field])
  BY DEF FileAnswersHold
<1>1. RequestStands(client[c])
  BY DEF FilesInv
<1>2. client[c].op = "upload" => UploadStands(client[c])
  BY <1>1 DEF RequestStands
<1>3. client[c].op = "unlink" => UnlinkStands(client[c])
  BY <1>1 DEF RequestStands
<1> QED BY <1>2, <1>3 DEF UploadStands, UnlinkStands

(* Whatever requests come for a document, with any files, and whatever fails: an upload that is over has  *)
(* left nothing in the temporary directory, and answers with the files that it sent; the names that an   *)
(* unlink has deleted are in neither the document nor the storage; each but for the reasons that         *)
(* FileAnswersHold names (upload and unlink of resource-controller.helper.ts).                           *)
THEOREM FileAnswersAlwaysHold == UploadsSpec => []FileAnswersHold
<1>1. UploadsSpec => []UploadsInv
  BY UploadsInv_Init, UploadsInv_Next, PTL DEF UploadsSpec
<1>2. UploadsSpec => []FilesInv
  BY <1>1, FilesInv_Init, FilesInv_Next, PTL DEF UploadsSpec
<1> QED BY <1>2, AnswersStand, PTL

-----------------------------------------------------------------------------
(* Aggregates *)

\* An aggregation, of any documents and with any range
Aggregating ==
  \E orm \in {"mongoose", "typeorm"}, documents \in Seq(Dated), filter \in SUBSET {"flag", "since"},
     range \in TimeRange \cup {NoRange} :
    Aggregate(orm, documents, filter, range)

AggregatesSpec == summary = NoSummary /\ [][Aggregating]_summary

\* The dates of the steps
DateOf(range, step) == range.start + (step - 1) * (Second * range.step)
StepsOf(range) == {i \in 1 .. range.end : DateOf(range, i) < range.end}

\* What the prover does not find about products
LEMMA Distributed ==
  ASSUME NEW a \in Int, NEW b \in Int, NEW c \in Int
  PROVE  /\ (a + b) * c = a * c + b * c
         /\ a * c \in Int /\ b * c \in Int
OBVIOUS

\* The same, of natural numbers
LEMMA Products == ASSUME NEW a \in Nat, NEW b \in Nat PROVE a * b \in Nat
OBVIOUS

\* Later steps have later dates.
LEMMA LaterSteps ==
  ASSUME NEW range \in TimeRange, NEW i \in Nat, NEW j \in Nat, i < j
  PROVE  /\ DateOf(range, i) \in Int
         /\ DateOf(range, i) + Second * range.step <= DateOf(range, j)
<1> DEFINE size == Second * range.step
<1>1. size \in Nat /\ size > 0 /\ range.start \in Nat
  BY DEF TimeRange, Second
<1>2. /\ (i - 1) * size \in Int /\ (j - 1) * size \in Int /\ (j - i) * size \in Int /\ (j - i - 1) * size \in Int
  BY <1>1
<1>3. (j - i - 1) * size >= 0
  <2>1. j - i - 1 \in Nat
    OBVIOUS
  <2> QED BY <1>1, <2>1
<1>4. (j - 1) * size = (i - 1) * size + (j - i - 1) * size + size
  <2> HIDE DEF size
  <2>1. ((i - 1) + (j - i - 1)) * size = (i - 1) * size + (j - i - 1) * size
    BY <1>1, Distributed
  <2>2. ((i - 1) + (j - i - 1) + 1) * size = ((i - 1) + (j - i - 1)) * size + 1 * size
    BY <1>1, Distributed
  <2>3. (i - 1) + (j - i - 1) + 1 = j - 1 /\ 1 * size = size
    BY <1>1
  <2> QED BY <2>1, <2>2, <2>3
<1> HIDE DEF size
<1> QED BY <1>1, <1>2, <1>3, <1>4 DEF DateOf, size

\* The steps are the first numbers.
LEMMA StepsAreFirst ==
  ASSUME NEW range \in TimeRange
  PROVE  \E n \in Nat : StepsOf(range) = 1 .. n
<1> DEFINE S == {n \in Nat : n + 1 \notin StepsOf(range)}
<1>1. range.end \in Nat /\ S \in SUBSET Nat /\ range.end \in S
  BY DEF TimeRange, StepsOf
<1>2. PICK n \in S : \A m \in S : n <= m
  BY <1>1, LeastNumber
<1>3. ASSUME NEW i \in 1 .. n PROVE i \in StepsOf(range)
  <2>1. i - 1 \in Nat /\ ~(n <= i - 1) /\ (i - 1) + 1 = i
    BY <1>2
  <2> QED BY <1>2, <2>1
<1>4. ASSUME NEW i \in StepsOf(range) PROVE i \in 1 .. n
  <2> SUFFICES ASSUME n < i PROVE FALSE
    BY DEF StepsOf
  <2>1. i \in Nat /\ n + 1 \in Nat /\ i \in 1 .. range.end /\ DateOf(range, i) < range.end
    BY DEF StepsOf
  <2>2. n + 1 \in 1 .. range.end /\ (n + 1 = i \/ n + 1 < i)
    BY <1>1, <2>1
  <2>3. DateOf(range, n + 1) \in Int /\ DateOf(range, n + 1) <= DateOf(range, i) /\ DateOf(range, i) \in Int
    <3>1. Second * range.step \in Nat /\ DateOf(range, i) \in Int
      BY <2>1, LaterSteps, i < i + 1 DEF TimeRange, Second
    <3>2. CASE n + 1 < i
      BY <2>1, <3>1, <3>2, LaterSteps
    <3>3. CASE n + 1 = i
      BY <3>1, <3>3
    <3> QED BY <2>2, <3>2, <3>3
  <2>4. DateOf(range, n + 1) < range.end
    BY <1>1, <2>1, <2>3
  <2> QED BY <2>2, <2>4 DEF StepsOf
<1> QED BY <1>2, <1>3, <1>4
\* In order, dates that are in order stay as they are.
LEMMA Ordered ==
  ASSUME NEW n \in Nat, NEW d \in [1 .. n -> Int], \A i, j \in 1 .. n : i < j => d[i] < d[j]
  PROVE  InOrder({d[i] : i \in 1 .. n}) = d
<1> DEFINE dates(m) == {d[i] : i \in 1 .. m}
<1>1. ASSUME NEW m \in 0 .. n PROVE Cardinality(dates(m)) = m
  <2> DEFINE g == [i \in 1 .. m |-> d[i]]
  <2>1. \A i, j \in 1 .. m : d[i] = d[j] => i = j
    BY <1>1
  <2>2. g \in [1 .. m -> dates(m)] /\ \A i \in 1 .. m : g[i] = d[i]
    BY <1>1
  <2>3. g \in Bijection(1 .. m, dates(m))
    BY <2>1, <2>2 DEF Bijection, Injection, Surjection, IsInjective
  <2> QED BY <1>1, <2>3, FS_CountingElements DEF ExistsBijection
<1>2. ASSUME NEW j \in 1 .. n PROVE {earlier \in dates(n) : earlier <= d[j]} = dates(j)
  <2>1. \A i \in 1 .. n : d[i] <= d[j] <=> i \in 1 .. j
    <3> TAKE i \in 1 .. n
    <3>1. d[i] \in Int /\ d[j] \in Int /\ i \in Int /\ j \in Int
      BY <1>2
    <3>2. CASE i < j
      BY <3>1, <3>2
    <3>3. CASE j < i
      BY <3>1, <3>3
    <3> QED BY <3>1, <3>2, <3>3
  <2> QED BY <2>1
<1>3. Cardinality(dates(n)) = n
  BY <1>1
<1>4. \A j \in 1 .. n : Cardinality({earlier \in dates(n) : earlier <= d[j]}) = j
  <2> TAKE j \in 1 .. n
  <2>1. Cardinality(dates(j)) = j
    BY <1>1
  <2>2. {earlier \in dates(n) : earlier <= d[j]} = dates(j)
    BY <1>2
  <2> QED BY <2>1, <2>2
<1> DEFINE place(date) == Cardinality({earlier \in dates(n) : earlier <= date})
<1>5. ASSUME NEW j \in 1 .. n PROVE (CHOOSE date \in dates(n) : place(date) = j) = d[j]
  <2>1. d[j] \in dates(n) /\ place(d[j]) = j
    BY <1>4
  <2>2. ASSUME NEW date \in dates(n), place(date) = j PROVE date = d[j]
    BY <1>4, <2>2
  <2> HIDE DEF place, dates
  <2> QED BY <2>1, <2>2
<1>6. InOrder(dates(n)) = [j \in 1 .. n |-> d[j]]
  BY <1>3, <1>5 DEF InOrder
<1> QED BY <1>6

\* A multiple leaves no rest.
LEMMA Multiples ==
  ASSUME NEW a \in Nat, NEW size \in Nat, size > 0
  PROVE  /\ a % size = 0 => \E k \in Nat : a = k * size
         /\ \A k \in Nat : a = k * size => a % size = 0
<1>1. a % size \in Nat /\ a \div size \in Nat /\ a % size < size /\ a = size * (a \div size) + (a % size)
  OBVIOUS
<1>2. ASSUME NEW k \in Nat, a = k * size PROVE a % size = 0
  <2> DEFINE r == a % size
             m == a \div size
  <2>1. r \in Nat /\ m \in Nat /\ r < size /\ k * size = m * size + r
    BY <1>1, <1>2
  <2> HIDE DEF r, m
  <2>2. (k - m) * size = r
    <3>1. (k - m + m) * size = (k - m) * size + m * size /\ k - m + m = k
      BY <2>1, Distributed
    <3> QED BY <2>1, <3>1, Distributed
  <2>3. CASE k - m >= 1
    <3>1. (k - m - 1) * size >= 0 /\ (k - m) * size = (k - m - 1) * size + size
      <4>1. k - m - 1 \in Nat
        BY <2>1, <2>3
      <4>2. (k - m - 1) * size \in Nat
        BY <4>1
      <4>3. (k - m - 1 + 1) * size = (k - m - 1) * size + 1 * size
        BY <4>1, Distributed
      <4>4. k - m - 1 + 1 = k - m /\ 1 * size = size
        BY <2>1
      <4> QED BY <4>2, <4>3, <4>4
    <3> QED BY <2>1, <2>2, <3>1
  <2>4. CASE k - m <= 0
    <3>1. m - k \in Nat /\ (m - k) * size \in Nat
      BY <2>1, <2>4
    <3>2. (m - k) * size + r = 0
      <4>1. (m - k + (k - m)) * size = (m - k) * size + (k - m) * size
        BY <2>1, Distributed
      <4> QED BY <2>1, <2>2, <4>1
    <3> QED BY <2>1, <3>1, <3>2 DEF r
  <2> QED BY <2>1, <2>3, <2>4
<1> QED BY <1>1, <1>2
\* The dates that the answer is about are those of the steps.
LEMMA DatesAreThoseOfSteps ==
  ASSUME NEW range \in TimeRange
  PROVE  Dates(range) = {DateOf(range, i) : i \in StepsOf(range)}
<1> DEFINE size == Second * range.step
           start == range.start
<1>1. size \in Nat /\ size > 0 /\ start \in Nat /\ range.end \in Nat
  BY DEF TimeRange, Second
<1>2. ASSUME NEW i \in Nat \ {0} PROVE (i - 1) * size \in Nat /\ (i - 1) * size % size = 0 /\ (i - 1) * size >= i - 1
  <2> HIDE DEF size
  <2>1. i - 1 \in Nat /\ (i - 1) * size \in Nat
    BY <1>1
  <2>2. (i - 1) * size >= i - 1
    <3>1. (i - 1) * (size - 1) \in Nat /\ (size - 1) + 1 = size
      <4>1. size - 1 \in Nat
        BY <1>1
      <4> QED BY <1>1, <2>1, <4>1, Products
    <3>2. (i - 1) * ((size - 1) + 1) = (i - 1) * (size - 1) + (i - 1) * 1
      BY <1>1, <2>1
    <3> QED BY <2>1, <3>1, <3>2
  <2> QED BY <1>1, <2>1, <2>2, Multiples
<1>3. ASSUME NEW i \in StepsOf(range) PROVE DateOf(range, i) \in Dates(range)
  <2>1. i \in Nat \ {0} /\ DateOf(range, i) < range.end /\ DateOf(range, i) = start + (i - 1) * size
    BY DEF StepsOf, DateOf
  <2> HIDE DEF size, start
  <2>2. (i - 1) * size \in Nat /\ (i - 1) * size % size = 0
    BY <1>2, <2>1
  <2>3. DateOf(range, i) \in start .. range.end - 1 /\ DateOf(range, i) - start = (i - 1) * size
    BY <1>1, <2>1, <2>2
  <2> QED BY <2>2, <2>3 DEF Dates, size, start
<1>4. ASSUME NEW date \in Dates(range) PROVE date \in {DateOf(range, i) : i \in StepsOf(range)}
  <2>1. date \in Nat /\ date < range.end /\ date - start \in Nat /\ (date - start) % size = 0
    BY <1>1 DEF Dates
  <2> HIDE DEF size, start
  <2>2. PICK k \in Nat : date - start = k * size
    BY <1>1, <2>1, Multiples
  <2>3. k + 1 \in Nat \ {0} /\ k + 1 - 1 = k /\ k * size = date - start /\ k <= k * size
    BY <1>2, <2>2
  <2>4. DateOf(range, k + 1) = date
    BY <1>1, <2>1, <2>3 DEF DateOf, size, start
  <2>5. k + 1 \in 1 .. range.end
    BY <1>1, <2>1, <2>3
  <2> QED BY <2>1, <2>4, <2>5 DEF StepsOf
<1> QED BY <1>3, <1>4

\* So the items are as many as the steps, and in their order.
LEMMA DatesInOrder ==
  ASSUME NEW range \in TimeRange
  PROVE  InOrder(Dates(range)) = [i \in StepsOf(range) |-> DateOf(range, i)]
<1>1. PICK n \in Nat : StepsOf(range) = 1 .. n
  BY StepsAreFirst
<1> DEFINE d == [i \in 1 .. n |-> DateOf(range, i)]
<1>2. d \in [1 .. n -> Int]
  <2>1. \A i \in 1 .. n : DateOf(range, i) \in Int
    <3> TAKE i \in 1 .. n
    <3>1. i \in Nat /\ i + 1 \in Nat /\ i < i + 1
      OBVIOUS
    <3> QED BY <3>1, LaterSteps
  <2> QED BY <2>1
<1>3. ASSUME NEW i \in 1 .. n, NEW j \in 1 .. n, i < j PROVE d[i] < d[j]
  <2>1. DateOf(range, i) + Second * range.step <= DateOf(range, j)
    BY <1>3, LaterSteps
  <2>2. Second * range.step \in Nat /\ Second * range.step > 0
    BY DEF TimeRange, Second
  <2>3. DateOf(range, i) \in Int /\ DateOf(range, j) \in Int
    BY <1>2
  <2> QED BY <2>1, <2>2, <2>3
<1>4. Dates(range) = {d[i] : i \in 1 .. n}
  BY <1>1, DatesAreThoseOfSteps
<1> HIDE DEF d
<1>5. InOrder(Dates(range)) = d
  BY <1>2, <1>3, <1>4, Ordered
<1> QED BY <1>1, <1>5 DEF d
\* A date is truncated to the start of its step.
LEMMA TruncatedToStep ==
  ASSUME NEW range \in TimeRange, range.start % (Second * range.step) = 0, NEW date \in Nat, range.start <= date,
         NEW i \in Nat \ {0}
  PROVE  /\ Truncated(date, range) = DateOf(range, i)
              <=> DateOf(range, i) <= date /\ date < DateOf(range, i) + Second * range.step
         /\ date < range.end => Truncated(date, range) \in Dates(range)
<1> DEFINE size == Second * range.step
           start == range.start
           r == date % size
           m == date \div size
<1>1. size \in Nat /\ size > 0 /\ start \in Nat /\ range.end \in Nat /\ start % size = 0
  BY DEF TimeRange, Second
<1>2. r \in Nat /\ r < size /\ m \in Nat /\ date = size * m + r /\ Truncated(date, range) = date - r
  <2> HIDE DEF size
  <2>1. r \in Nat /\ r < size /\ m \in Nat /\ date = size * m + r
    BY <1>1
  <2> QED BY <2>1 DEF Truncated, size
<1> HIDE DEF size, r, m, start
<1>3. PICK k \in Nat : start = k * size
  BY <1>1, Multiples
<1>4. size * m = m * size /\ m * size \in Nat /\ k * size \in Nat
  BY <1>1, <1>2, Products
<1>5. date - start = (m - k) * size + r /\ Truncated(date, range) - start = (m - k) * size /\ (m - k) * size \in Int
  <2>1. (m - k + k) * size = (m - k) * size + k * size /\ m - k + k = m
    BY <1>1, <1>2, Distributed
  <2> QED BY <1>1, <1>2, <1>3, <1>4, <2>1, Distributed
<1>6. m - k \in Nat
  <2> SUFFICES ASSUME m - k + 1 <= 0 PROVE FALSE
    BY <1>2
  <2>1. k - m - 1 \in Nat /\ (k - m - 1) * size \in Nat
    BY <1>1, <1>2, Products
  <2>2. ((m - k + 1) + (k - m - 1)) * size = (m - k + 1) * size + (k - m - 1) * size /\ (m - k + 1) + (k - m - 1) = 0
        /\ 0 * size = 0
    BY <1>1, <1>2, Distributed
  <2>3. (m - k + 1) * size = (m - k) * size + 1 * size /\ 1 * size = size
    BY <1>1, <1>2, Distributed
  <2> QED BY <1>1, <1>2, <1>5, <2>1, <2>2, <2>3, range.start <= date DEF start
<1> DEFINE p == m - k + 1
<1>7. p \in Nat /\ p > 0 /\ p - 1 = m - k
  BY <1>2, <1>6
<1>8. DateOf(range, p) = start + (m - k) * size
  BY <1>7 DEF DateOf, size, start
<1>9. /\ Truncated(date, range) = DateOf(range, p) /\ DateOf(range, p) \in Int
      /\ DateOf(range, p) <= date /\ date < DateOf(range, p) + size
  BY <1>1, <1>2, <1>5, <1>8
<1> HIDE DEF p
<1>10. DateOf(range, i) \in Int
  <2>1. i + 1 \in Nat /\ i < i + 1
    OBVIOUS
  <2> QED BY <2>1, LaterSteps
<1>11. Truncated(date, range) = DateOf(range, i)
         <=> DateOf(range, i) <= date /\ date < DateOf(range, i) + size
  <2>1. CASE i < p
    <3>1. DateOf(range, i) + size <= DateOf(range, p)
      BY <1>7, <2>1, LaterSteps DEF size
    <3> QED BY <1>1, <1>9, <1>10, <3>1
  <2>2. CASE p < i
    <3>1. DateOf(range, p) + size <= DateOf(range, i)
      BY <1>7, <2>2, LaterSteps DEF size
    <3> QED BY <1>1, <1>9, <1>10, <3>1
  <2>3. CASE i = p
    BY <1>9, <2>3
  <2> QED BY <1>7, <2>1, <2>2, <2>3
<1>12. date < range.end => Truncated(date, range) \in Dates(range)
  <2> SUFFICES ASSUME date < range.end PROVE DateOf(range, p) \in Dates(range)
    BY <1>9
  <2>1. DateOf(range, p) \in start .. range.end - 1 /\ DateOf(range, p) - start = (m - k) * size
    BY <1>1, <1>4, <1>5, <1>6, <1>8, <1>9, Products
  <2>2. (m - k) * size \in Nat /\ ((m - k) * size) % size = 0
    BY <1>1, <1>6, Products, Multiples
  <2> QED BY <2>1, <2>2 DEF Dates, size, start
<1> QED BY <1>11, <1>12 DEF size
\* The range of a step, by the date of the step and by its number
LEMMA InStep ==
  ASSUME NEW range \in TimeRange, NEW i \in Nat \ {0}, NEW date \in Nat
  PROVE  LET size == Second * range.step
         IN /\ DateOf(range, i) <= date <=> (i - 1) * size <= date - range.start
            /\ date < DateOf(range, i) + size <=> date - range.start < i * size
            /\ DateOf(range, i) - range.start = (2 * i - 2) * range.step
            /\ (2 * i - 2) * range.step \in Int
            /\ (2 * i - 1) * range.step = (2 * i - 2) * range.step + range.step
            /\ (2 * i - 3) * range.step = (2 * i - 2) * range.step - range.step
<1> DEFINE size == Second * range.step
           start == range.start
           step == range.step
<1>1. size \in Nat /\ start \in Nat /\ step \in Nat /\ size = 2 * step
  BY DEF TimeRange, Second
<1>2. DateOf(range, i) = start + (i - 1) * size
  BY DEF DateOf
<1> HIDE DEF size, start, step
<1>3. (i - 1) * size \in Int /\ i * size = (i - 1) * size + size
  <2>1. ((i - 1) + 1) * size = (i - 1) * size + 1 * size /\ (i - 1) + 1 = i /\ 1 * size = size
    BY <1>1, Distributed
  <2> QED BY <1>1, <2>1, Distributed
<1>4. (i - 1) * size = (2 * i - 2) * step
  <2>1. (i - 1 + (i - 1)) * step = (i - 1) * step + (i - 1) * step /\ i - 1 + (i - 1) = 2 * i - 2
    BY <1>1, Distributed
  <2>2. (i - 1) * size = (i - 1) * step + (i - 1) * step
    <3>1. (i - 1) * (step + step) = (i - 1) * step + (i - 1) * step /\ size = step + step
      BY <1>1
    <3> QED BY <3>1
  <2> QED BY <2>1, <2>2
<1>5. (2 * i - 1) * step = (2 * i - 2) * step + step /\ (2 * i - 3) * step = (2 * i - 2) * step - step
      /\ (2 * i - 2) * step \in Int
  <2>1. ((2 * i - 2) + 1) * step = (2 * i - 2) * step + 1 * step /\ (2 * i - 2) + 1 = 2 * i - 1 /\ 1 * step = step
    BY <1>1, Distributed
  <2>2. ((2 * i - 3) + 1) * step = (2 * i - 3) * step + 1 * step /\ (2 * i - 3) + 1 = 2 * i - 2
    BY <1>1, Distributed
  <2>3. (2 * i - 3) * step \in Int /\ (2 * i - 2) * step \in Int
    BY <1>1, Distributed
  <2> QED BY <1>1, <2>1, <2>2, <2>3
<1>6. DateOf(range, i) <= date <=> (i - 1) * size <= date - start
  BY <1>1, <1>2, <1>3
<1>7. date < DateOf(range, i) + size <=> date - start < i * size
  BY <1>1, <1>2, <1>3
<1>8. DateOf(range, i) - start = (2 * i - 2) * step
  BY <1>1, <1>2, <1>3, <1>4
<1> QED BY <1>5, <1>6, <1>7, <1>8 DEF size, start, step

\* mongoose: the groups are the steps
LEMMA MongooseCounts ==
  ASSUME NEW range \in TimeRange, NEW documents \in Seq(Dated), NEW filter \in SUBSET {"flag"},
         range.start % (Second * range.step) = 0,
         \A i \in DOMAIN documents :
           /\ documents[i].date # range.end
           /\ filter = {} => range.start <= documents[i].date /\ documents[i].date < range.end
  PROVE  LET size == Second * range.step
             from(i) == documents[i].date - range.start
             about(step) == {i \in DOMAIN documents : (step - 1) * size <= from(i) /\ from(i) < step * size
                                                      /\ documents[i].date < range.end}
         IN MongooseItems(documents, filter, range)
              = [step \in StepsOf(range) |-> Cardinality(about(step) \cap Meet(documents, filter))]
<1> DEFINE size == Second * range.step
           from(i) == documents[i].date - range.start
           about(step) == {i \in DOMAIN documents : (step - 1) * size <= from(i) /\ from(i) < step * size
                                                    /\ documents[i].date < range.end}
           matched == MatchedInRange(documents, filter, range)
           group(i) == Truncated(documents[i].date, range)
<1>1. \A i \in DOMAIN documents : documents[i].date \in Nat
  <2>1. \A i \in DOMAIN documents : documents[i] \in Dated
    OBVIOUS
  <2> QED BY <2>1 DEF Dated
<1>2. range.start \in Nat /\ range.end \in Nat
  BY DEF TimeRange
<1>3. matched = {i \in Meet(documents, filter) : range.start <= documents[i].date /\ documents[i].date < range.end}
  <2>1. CASE filter = {}
    BY <2>1 DEF MatchedInRange, Meet
  <2>2. CASE filter # {}
    <3>1. filter \ {"since"} = filter /\ Meet(documents, filter) \subseteq DOMAIN documents
      BY DEF Meet
    <3>2. \A i \in DOMAIN documents : documents[i].date <= range.end <=> documents[i].date < range.end
      BY <1>1, <1>2
    <3> QED BY <2>2, <3>1, <3>2 DEF MatchedInRange
  <2> QED BY <2>1, <2>2
<1>4. Meet(documents, filter) \subseteq DOMAIN documents
  BY DEF Meet
<1> HIDE DEF matched
<1>5. \A i \in matched : group(i) \in Dates(range)
  <2> TAKE i \in matched
  <2>1. documents[i].date \in Nat /\ range.start <= documents[i].date /\ documents[i].date < range.end
    BY <1>1, <1>3, <1>4
  <2> QED BY <2>1, TruncatedToStep, 1 \in Nat \ {0}
<1>6. InOrder({group(i) : i \in matched} \cup Dates(range)) = [i \in StepsOf(range) |-> DateOf(range, i)]
  <2>1. {group(i) : i \in matched} \cup Dates(range) = Dates(range)
    BY <1>5
  <2> QED BY <2>1, DatesInOrder
<1>7. ASSUME NEW step \in StepsOf(range)
      PROVE  {i \in matched : group(i) = DateOf(range, step)} = about(step) \cap Meet(documents, filter)
  <2>1. step \in Nat \ {0}
    BY DEF StepsOf
  <2>2. ASSUME NEW i \in matched PROVE group(i) = DateOf(range, step) <=> (step - 1) * size <= from(i) /\ from(i) < step * size
    <3>1. documents[i].date \in Nat /\ range.start <= documents[i].date
      BY <1>1, <1>3, <1>4
    <3>2. group(i) = DateOf(range, step) <=> DateOf(range, step) <= documents[i].date /\ documents[i].date < DateOf(range, step) + size
      BY <2>1, <3>1, TruncatedToStep
    <3> QED BY <2>1, <3>1, <3>2, InStep
  <2>3. ASSUME NEW i \in DOMAIN documents, (step - 1) * size <= from(i) PROVE range.start <= documents[i].date
    <3>1. (step - 1) * size \in Nat
      <4>1. step - 1 \in Nat /\ size \in Nat
        BY <2>1 DEF TimeRange, Second
      <4> QED BY <4>1, Products
    <3> QED BY <1>1, <1>2, <2>3, <3>1
  <2> HIDE DEF group, from, size
  <2> QED BY <1>3, <1>4, <2>2, <2>3
<1> DEFINE groups == InOrder({group(i) : i \in matched} \cup Dates(range))
<1>8. MongooseItems(documents, filter, range)
        = [place \in DOMAIN groups |-> Cardinality({i \in matched : group(i) = groups[place]})]
  BY DEF MongooseItems, matched
<1>9. groups = [i \in StepsOf(range) |-> DateOf(range, i)]
  BY <1>6
<1> HIDE DEF groups, group, about
<1>10. MongooseItems(documents, filter, range) = [step \in StepsOf(range) |-> Cardinality({i \in matched : group(i) = DateOf(range, step)})]
  BY <1>8, <1>9
<1> QED BY <1>7, <1>10 DEF about

\* TypeORM: the windows are the steps
LEMMA TypeormCounts ==
  ASSUME NEW range \in TimeRange, NEW documents \in Seq(Dated), NEW filter \in SUBSET {"flag", "since"},
         range.start % Second = 0
  PROVE  LET from(i) == documents[i].date - range.start
             about(step) == {i \in DOMAIN documents : (2 * step - 3) * range.step < from(i)
                                                      /\ from(i) < (2 * step - 1) * range.step}
             selected == Meet(documents, filter)
         IN (/\ \A i \in DOMAIN documents, step \in {0} \cup StepsOf(range) : from(i) # (2 * step - 1) * range.step
             /\ \A step \in StepsOf(range) : about(step) = {} \/ about(step) \cap selected # {})
            => TypeormItems(documents, filter, range)
                 = [step \in StepsOf(range) |-> Cardinality(about(step) \cap selected)]
<1> DEFINE from(i) == documents[i].date - range.start
           about(step) == {i \in DOMAIN documents : (2 * step - 3) * range.step < from(i)
                                                    /\ from(i) < (2 * step - 1) * range.step}
           selected == Meet(documents, filter)
           window(date) == Window(documents, date, range)
           chosen(date) == window(date) \cap selected
           stays(date) == window(date) = {} \/ chosen(date) # {}
<1> SUFFICES ASSUME \A i \in DOMAIN documents, step \in {0} \cup StepsOf(range) : from(i) # (2 * step - 1) * range.step,
                    \A step \in StepsOf(range) : about(step) = {} \/ about(step) \cap selected # {}
             PROVE  TypeormItems(documents, filter, range) = [step \in StepsOf(range) |-> Cardinality(about(step) \cap selected)]
  OBVIOUS
<1>1. range.start \in Nat /\ range.step \in Nat /\ range.step > 0 /\ HalfStep(range) \in {range.step, range.step + 1}
  <2>1. range.start \in Nat /\ range.step \in Nat /\ range.step > 0
    BY DEF TimeRange
  <2> DEFINE half == (range.step + 1) \div 2
             rest == (range.step + 1) % 2
  <2>2. half \in Int /\ rest \in {0, 1} /\ range.step + 1 = 2 * half + rest
    BY <2>1
  <2> HIDE DEF half, rest
  <2>3. CASE rest = 0
    BY <2>1, <2>2, <2>3 DEF HalfStep, Second, half
  <2>4. CASE rest = 1
    <3>1. 2 * half = range.step
      <4> DEFINE part == range.step
      <4>1. part \in Int /\ half \in Int /\ part + 1 = 2 * half + 1
        BY <2>1, <2>2, <2>4
      <4> HIDE DEF part
      <4>2. 2 * half = part
        BY <4>1
      <4> QED BY <4>2 DEF part
    <3> QED BY <2>1, <3>1 DEF HalfStep, Second, half
  <2> QED BY <2>1, <2>2, <2>3, <2>4
<1>2. ASSUME NEW step \in StepsOf(range) PROVE window(DateOf(range, step)) = about(step)
  <2> DEFINE date == DateOf(range, step)
  <2>1. step \in Nat \ {0}
    BY DEF StepsOf
  <2>2. /\ date - range.start = (2 * step - 2) * range.step /\ (2 * step - 2) * range.step \in Int
        /\ (2 * step - 1) * range.step = (2 * step - 2) * range.step + range.step
        /\ (2 * step - 3) * range.step = (2 * step - 2) * range.step - range.step
    BY <2>1, InStep, 0 \in Nat
  <2>3. date \in Int /\ date % Second = 0
    <3>1. step + 1 \in Nat /\ step < step + 1
      BY <2>1
    <3>2. date \in Int
      BY <2>1, <3>1, LaterSteps
    <3>3. date = range.start + 2 * ((step - 1) * range.step) /\ (step - 1) * range.step \in Int
      <4>1. (step - 1) * range.step \in Int
        BY <1>1, <2>1, Distributed
      <4>2. (step - 1) * (2 * range.step) = 2 * ((step - 1) * range.step)
        BY <1>1, <2>1
      <4> QED BY <4>1, <4>2 DEF DateOf, Second
    <3> QED BY <1>1, <3>2, <3>3 DEF Second
  <2>4. ASSUME NEW i \in DOMAIN documents
        PROVE  i \in window(date) <=> i \in about(step)
    <3>1. documents[i].date \in Nat
      <4>1. documents[i] \in Dated
        OBVIOUS
      <4> QED BY <4>1 DEF Dated
    <3>2. from(i) # (2 * step - 1) * range.step
      OBVIOUS
    <3>3. from(i) # (2 * step - 3) * range.step
      <4>1. step - 1 \in {0} \cup StepsOf(range)
        <5> SUFFICES ASSUME step - 1 # 0 PROVE step - 1 \in StepsOf(range)
          OBVIOUS
        <5> QED BY StepsAreFirst
      <4>2. 2 * (step - 1) - 1 = 2 * step - 3
        BY <2>1
      <4> QED BY <4>1, <4>2
    <3>4. i \in window(date) <=> documents[i].date - HalfStep(range) < date /\ documents[i].date + HalfStep(range) > date
      BY <2>3 DEF Window
    <3>5. i \in about(step) <=> date - range.start - range.step < from(i) /\ from(i) < date - range.start + range.step
      BY <2>2
    <3>6. from(i) # date - range.start - range.step /\ from(i) # date - range.start + range.step
      BY <2>2, <3>2, <3>3
    <3> DEFINE there == documents[i].date
    <3> HIDE DEF date, about, window, there
    <3>7. there \in Int /\ there - range.start # date - range.start - range.step
          /\ there - range.start # date - range.start + range.step
      BY <3>1, <3>6 DEF there
    <3>8. i \in about(step) <=> date - range.step < there /\ there < date + range.step
      BY <1>1, <2>3, <3>5, <3>7 DEF there
    <3>9. i \in window(date) <=> there - HalfStep(range) < date /\ there + HalfStep(range) > date
      BY <3>4 DEF there
    <3>10. CASE HalfStep(range) = range.step
      BY <1>1, <2>3, <3>7, <3>8, <3>9, <3>10
    <3>11. CASE HalfStep(range) = range.step + 1
      <4>1. there # date - range.step /\ there # date + range.step
        BY <1>1, <2>3, <3>7
      <4> DEFINE part == range.step
      <4>2. part \in Int /\ date \in Int /\ there \in Int
        BY <1>1, <2>3, <3>7
      <4>3. i \in about(step) <=> date - part < there /\ there < date + part
        BY <3>8
      <4>4. i \in window(date) <=> there - (part + 1) < date /\ there + (part + 1) > date
        BY <3>9, <3>11
      <4>5. there # date - part /\ there # date + part
        BY <4>1
      <4> HIDE DEF part
      <4>6. date - part < there /\ there < date + part <=> there - (part + 1) < date /\ there + (part + 1) > date
        BY <4>2, <4>5
      <4> QED BY <4>3, <4>4, <4>6
    <3> QED BY <1>1, <3>10, <3>11
  <2> QED BY <2>4 DEF Window
<1>3. ASSUME NEW date \in Dates(range) PROVE stays(date)
  <2>1. PICK step \in StepsOf(range) : date = DateOf(range, step)
    BY DatesAreThoseOfSteps
  <2> QED BY <1>2, <2>1
<1> DEFINE line == InOrder({date \in Dates(range) : stays(date)})
<1>4. TypeormItems(documents, filter, range) = [place \in DOMAIN line |-> Cardinality(chosen(line[place]))]
  BY DEF TypeormItems
<1>5. line = [i \in StepsOf(range) |-> DateOf(range, i)]
  <2>1. {date \in Dates(range) : stays(date)} = Dates(range)
    BY <1>3
  <2> QED BY <2>1, DatesInOrder
<1> HIDE DEF line, about, window, selected
<1>6. TypeormItems(documents, filter, range) = [step \in StepsOf(range) |-> Cardinality(chosen(DateOf(range, step)))]
  BY <1>4, <1>5
<1> QED BY <1>2, <1>6
\* What an answer has been computed from
SummaryInv ==
  summary.pc = "answered" =>
    /\ summary.orm \in {"mongoose", "typeorm"}
    /\ summary.documents \in Seq(Dated) /\ summary.filter \in SUBSET {"flag", "since"} /\ summary.range \in TimeRange
    /\ summary.items = IF summary.orm = "mongoose" THEN MongooseItems(summary.documents, summary.filter, summary.range)
                                                   ELSE TypeormItems(summary.documents, summary.filter, summary.range)

\* An answer has it.
LEMMA SummaryInv_Next == SummaryInv /\ [Aggregating]_summary => SummaryInv'
<1> SUFFICES ASSUME SummaryInv, [Aggregating]_summary PROVE SummaryInv'
  OBVIOUS
<1>1. CASE UNCHANGED summary
  BY <1>1 DEF SummaryInv
<1>2. ASSUME NEW orm \in {"mongoose", "typeorm"}, NEW documents \in Seq(Dated), NEW filter \in SUBSET {"flag", "since"},
             NEW range \in TimeRange \cup {NoRange}, Aggregate(orm, documents, filter, range)
      PROVE  SummaryInv'
  <2>1. CASE range = NoRange
    <3>1. summary'.pc = "refused"
      BY <1>2, <2>1 DEF Aggregate, NoSummary
    <3> QED BY <3>1 DEF SummaryInv
  <2>2. CASE range # NoRange
    <3>1. summary' = [pc |-> "answered", orm |-> orm, documents |-> documents, filter |-> filter, range |-> range,
                      total |-> Cardinality(Meet(documents, filter)),
                      items |-> IF orm = "mongoose" THEN MongooseItems(documents, filter, range)
                                                    ELSE TypeormItems(documents, filter, range)]
      BY <1>2, <2>2 DEF Aggregate
    <3>2. /\ summary'.orm = orm /\ summary'.documents = documents /\ summary'.filter = filter /\ summary'.range = range
          /\ summary'.items = IF orm = "mongoose" THEN MongooseItems(documents, filter, range)
                                                  ELSE TypeormItems(documents, filter, range)
      BY <3>1
    <3> QED BY <2>2, <3>2 DEF SummaryInv
  <2> QED BY <2>1, <2>2
<1> QED BY <1>1, <1>2 DEF Aggregating

\* The two libraries, in the terms of the property
LEMMA SummaryStands == SummaryInv => ItemsStandForSteps
<1> SUFFICES ASSUME SummaryInv, summary.pc = "answered" PROVE ItemsStandForSteps
  BY DEF ItemsStandForSteps
<1> DEFINE range == summary.range
           documents == summary.documents
           size == Second * range.step
           steps == {i \in 1 .. range.end : range.start + (i - 1) * size < range.end}
           from(i) == documents[i].date - range.start
           calendar(step) == {i \in DOMAIN documents : (step - 1) * size <= from(i) /\ from(i) < step * size
                                                       /\ documents[i].date < range.end}
           nearest(step) == {i \in DOMAIN documents : (2 * step - 3) * range.step < from(i)
                                                      /\ from(i) < (2 * step - 1) * range.step}
           selected == Meet(documents, summary.filter)
<1>1. /\ range \in TimeRange /\ documents \in Seq(Dated) /\ summary.filter \in SUBSET {"flag", "since"}
      /\ summary.items = IF summary.orm = "mongoose" THEN MongooseItems(documents, summary.filter, range)
                                                     ELSE TypeormItems(documents, summary.filter, range)
  BY DEF SummaryInv
<1>2. steps = StepsOf(range)
  BY DEF StepsOf, DateOf
<1>3. ASSUME summary.orm = "mongoose", range.start % size = 0, "since" \notin summary.filter,
             \A i \in DOMAIN documents :
               /\ documents[i].date # range.end
               /\ summary.filter = {} => range.start <= documents[i].date /\ documents[i].date < range.end
      PROVE  summary.items = [step \in steps |-> Cardinality(calendar(step) \cap selected)]
  <2>1. summary.filter \in SUBSET {"flag"}
    BY <1>1, <1>3
  <2>2. MongooseItems(documents, summary.filter, range)
          = [step \in StepsOf(range) |-> Cardinality(calendar(step) \cap selected)]
    BY <1>1, <1>3, <2>1, MongooseCounts
  <2> QED BY <1>1, <1>2, <1>3, <2>2
<1>4. ASSUME summary.orm # "mongoose", range.start % Second = 0,
             \A i \in DOMAIN documents, step \in {0} \cup steps : from(i) # (2 * step - 1) * range.step,
             \A step \in steps : nearest(step) = {} \/ nearest(step) \cap selected # {}
      PROVE  summary.items = [step \in steps |-> Cardinality(nearest(step) \cap selected)]
  <2>0. /\ \A i \in DOMAIN documents, step \in {0} \cup StepsOf(range) : from(i) # (2 * step - 1) * range.step
        /\ \A step \in StepsOf(range) : nearest(step) = {} \/ nearest(step) \cap selected # {}
    BY <1>2, <1>4
  <2> HIDE DEF range, documents
  <2>1. TypeormItems(documents, summary.filter, range)
          = [step \in StepsOf(range) |-> Cardinality(nearest(step) \cap selected)]
    BY <1>1, <1>4, <2>0, TypeormCounts
  <2> QED BY <1>1, <1>2, <1>4, <2>1
<1>5. CASE summary.orm = "mongoose"
  BY <1>3, <1>5 DEF ItemsStandForSteps
<1>6. CASE summary.orm # "mongoose"
  BY <1>4, <1>6 DEF ItemsStandForSteps
<1> QED BY <1>5, <1>6

\* The items of an aggregation stand for the steps of its range, in their order and without a gap, but for the
\* named exceptions: for any documents, filter and range, with either library.
THEOREM ItemsAlwaysStandForSteps == AggregatesSpec => []ItemsStandForSteps
<1>1. summary = NoSummary => SummaryInv
  BY DEF SummaryInv, NoSummary
<1> QED BY <1>1, SummaryInv_Next, SummaryStands, PTL DEF AggregatesSpec
=============================================================================
