------------------------ MODULE CacheServiceProofs --------------------------
(***************************************************************************)
(* Proofs about CacheService, for every value of its constants.            *)
(***************************************************************************)
EXTENDS CacheService, FiniteSetTheorems, SequenceTheorems, TLAPS

(***************************************************************************)
(* Helpers                                                                 *)
(***************************************************************************)
\* Assigning a key keeps a record of key metadata (or of entries) one.
LEMMA PutType ==
  ASSUME NEW S, NEW T, NEW f, IsPartialFunction(f, S, T), NEW k \in S, NEW v \in T
  PROVE  IsPartialFunction(Put(f, k, v), S, T)
BY DEF IsPartialFunction, Put

\* So does deleting keys, and the other keys keep their values.
LEMMA WithoutType ==
  ASSUME NEW S, NEW T, NEW f, IsPartialFunction(f, S, T), NEW D
  PROVE  /\ IsPartialFunction(Without(f, D), S, T)
BY DEF IsPartialFunction, Without, Restrict

\* The empty function is a partial function.
LEMMA EmptyType ==
  ASSUME NEW S, NEW T
  PROVE  IsPartialFunction(<<>>, S, T) /\ DOMAIN <<>> = {}
BY DEF IsPartialFunction

\* A listing of a set of keys is a sequence of its members.
LEMMA ListingsType ==
  ASSUME NEW S \in SUBSET Key, NEW s \in Listings(S)
  PROVE  /\ Cardinality(S) \in Nat
         /\ s \in Seq(S) /\ Len(s) = Cardinality(S)
         /\ \A i, j \in 1..Len(s) : s[i] = s[j] => i = j
<1>1. IsFiniteSet(S)
  BY KeyAssumption, FS_Subset
<1>2. Cardinality(S) \in Nat
  BY <1>1, FS_CardinalityType
<1>3. s \in [1..Cardinality(S) -> S] /\ \A i, j \in DOMAIN s : s[i] = s[j] => i = j
  BY DEF Listings
<1> QED BY <1>2, <1>3

\* The del calls for a list of keys.
LEMMA DelsType ==
  ASSUME NEW keys \in Seq(Key), NEW by \in Actor, NEW prefixed \in BOOLEAN
  PROVE  /\ Dels(keys, by, prefixed) \in Seq(Command)
         /\ Len(Dels(keys, by, prefixed)) = Len(keys)
         /\ \A i \in 1..Len(keys) : /\ Dels(keys, by, prefixed)[i].op = "del"
                                    /\ Dels(keys, by, prefixed)[i].key = keys[i]
<1> DEFINE d(i) == [op |-> "del", by |-> by, key |-> keys[i], prefixed |-> prefixed]
<1>1. Len(keys) \in Nat /\ DOMAIN keys = 1..Len(keys) /\ keys \in [1..Len(keys) -> Key]
  OBVIOUS
<1>2. \A i \in 1..Len(keys) : d(i) \in Command
  BY <1>1 DEF Command
<1>3. Dels(keys, by, prefixed) = [i \in 1..Len(keys) |-> d(i)]
  BY <1>1 DEF Dels
<1> QED BY <1>1, <1>2, <1>3

(***************************************************************************)
(* Type correctness                                                        *)
(***************************************************************************)
\* The victims of an eviction: their number, and that they are distinct keys of kept.
LEMMA VictimsType ==
  ASSUME NEW kept, IsPartialFunction(kept, Key, KeyMeta), NEW sorted \in SortedKeys(kept)
  PROVE  LET n == Cardinality(DOMAIN kept) - MaxItems
             victims == SubSeq(sorted, 1, n)
         IN  /\ n \in Int /\ victims \in Seq(DOMAIN kept) /\ victims \in Seq(Key)
             /\ Len(victims) = IF n > 0 THEN n ELSE 0
             /\ \A i, j \in 1..Len(victims) : victims[i] = victims[j] => i = j
<1> DEFINE n == Cardinality(DOMAIN kept) - MaxItems
           victims == SubSeq(sorted, 1, n)
<1>1. DOMAIN kept \in SUBSET Key
  BY DEF IsPartialFunction
<1>2. sorted \in Listings(DOMAIN kept)
  BY DEF SortedKeys
<1>3. /\ Cardinality(DOMAIN kept) \in Nat
      /\ sorted \in Seq(DOMAIN kept) /\ Len(sorted) = Cardinality(DOMAIN kept)
      /\ \A i, j \in 1..Len(sorted) : sorted[i] = sorted[j] => i = j
  BY <1>1, <1>2, ListingsType
<1>4. n \in Int /\ n <= Len(sorted)
  BY <1>3, OptionAssumption
<1>5. /\ victims \in Seq(DOMAIN kept)
      /\ Len(victims) = IF n > 0 THEN n ELSE 0
      /\ \A i \in 1..n : victims[i] = sorted[i]
  BY <1>3, <1>4, SubSeqProperties
<1>6. victims \in Seq(Key)
  BY <1>1, <1>5, SeqMonotonic
<1> QED BY <1>3, <1>4, <1>5, <1>6

\* An eviction keeps the types.
LEMMA EvictExcessEntriesType ==
  ASSUME TypeOK, NEW meta, IsPartialFunction(meta, Key, KeyMeta),
         NEW queue \in Seq(Command), NEW actor \in Actor,
         EvictExcessEntries(meta, queue, actor)
  PROVE  /\ IsPartialFunction(store', Key, Entry)
         /\ IsPartialFunction(keysMeta', Key, KeyMeta)
         /\ pending' \in Seq(Command)
<1> DEFINE kept == Without(meta, Expired(meta))
           removeCount == Cardinality(DOMAIN kept) - MaxItems
           by == IF EvictionDeferred THEN Deferred ELSE actor
<1>1. IsPartialFunction(kept, Key, KeyMeta)
  BY WithoutType
<1>2. PICK sorted \in SortedKeys(kept) :
        /\ store' = Without(store, Range(SubSeq(sorted, 1, removeCount)))
        /\ pending' = queue \o Dels(SubSeq(sorted, 1, removeCount), by, FALSE)
  BY DEF EvictExcessEntries
<1>3. SubSeq(sorted, 1, removeCount) \in Seq(Key)
  BY <1>1, VictimsType
<1>4. by \in Actor
  BY DEF Actor
<1>5. Dels(SubSeq(sorted, 1, removeCount), by, FALSE) \in Seq(Command)
  BY <1>3, <1>4, DelsType
<1>6. pending' \in Seq(Command)
  BY <1>2, <1>5, ConcatProperties
<1>7. IsPartialFunction(store', Key, Entry)
  BY <1>2, WithoutType DEF TypeOK
<1>8. keysMeta' = kept
  BY DEF EvictExcessEntries
<1> QED BY <1>1, <1>6, <1>7, <1>8

\* An eviction adds del commands to the queue.
LEMMA EvictExcessEntriesQueue ==
  ASSUME TypeOK, NEW meta, IsPartialFunction(meta, Key, KeyMeta),
         NEW queue \in Seq(Command), NEW actor \in Actor,
         EvictExcessEntries(meta, queue, actor)
  PROVE  \E dels \in Seq(Command) : pending' = queue \o dels
<1> DEFINE kept == Without(meta, Expired(meta))
           removeCount == Cardinality(DOMAIN kept) - MaxItems
           by == IF EvictionDeferred THEN Deferred ELSE actor
<1>1. IsPartialFunction(kept, Key, KeyMeta)
  BY WithoutType
<1>2. PICK sorted \in SortedKeys(kept) :
        pending' = queue \o Dels(SubSeq(sorted, 1, removeCount), by, FALSE)
  BY DEF EvictExcessEntries
<1>3. SubSeq(sorted, 1, removeCount) \in Seq(Key) /\ by \in Actor
  BY <1>1, VictimsType DEF Actor
<1>4. Dels(SubSeq(sorted, 1, removeCount), by, FALSE) \in Seq(Command)
  BY <1>3, DelsType
<1> QED BY <1>2, <1>4

\* The queue behind a reply, and the reply itself.
LEMMA HeadType ==
  ASSUME TypeOK, pending # <<>>
  PROVE  /\ Head(pending) \in Command /\ Head(pending) = pending[1]
         /\ Tail(pending) \in Seq(Command)
         /\ Len(pending) \in Nat \ {0} /\ Len(Tail(pending)) = Len(pending) - 1
         /\ \A i \in 1..Len(pending) - 1 : Tail(pending)[i] = pending[i + 1]
<1>1. pending \in Seq(Command)
  BY DEF TypeOK
<1>2. Len(pending) \in Nat \ {0}
  BY <1>1, EmptySeq
<1> QED BY <1>1, <1>2, HeadTailProperties

\* Times computed from a ttl are natural numbers.
LEMMA TtlType ==
  ASSUME TypeOK, NEW ttl \in TtlArg
  PROVE  StoreTtl(ttl) \in Nat /\ MetaExpiresAt(ttl) \in Nat
<1>1. ttl \in Nat /\ now \in Nat /\ DefaultTtl \in Nat
  BY OptionAssumption DEF TypeOK
<1> QED BY <1>1 DEF StoreTtl, MetaExpiresAt, NoExpiry

\* Metadata that is used once more is metadata.
LEMMA UsedType ==
  ASSUME TypeOK, NEW meta \in KeyMeta
  PROVE  Used(meta) \in KeyMeta
BY DEF TypeOK, KeyMeta, Used

\* Each step keeps the types.
LEMMA TypeStep == TypeOK /\ [Next]_vars => TypeOK'
<1> SUFFICES ASSUME TypeOK, [Next]_vars PROVE TypeOK'
  OBVIOUS
<1>0. /\ now \in Nat /\ now \in Nat \ {0} /\ IsPartialFunction(store, Key, Entry)
      /\ IsPartialFunction(keysMeta, Key, KeyMeta)
      /\ IsPartialFunction(metaFile, Key, KeyMeta)
      /\ pending \in Seq(Command) /\ scans \in Seq(Scan)
      /\ phase \in {"down", "starting", "running", "stopping"}
  BY DEF TypeOK
<1>1. ASSUME NEW c \in Caller, NEW k \in Key, Get(c, k) PROVE TypeOK'
  <2> DEFINE data == IF k \in DOMAIN store THEN store[k].value ELSE Null
             cmd == [op |-> "get", by |-> c, key |-> k, data |-> data]
  <2>1. data \in Value \cup {Null}
    BY <1>0 DEF IsPartialFunction, Entry
  <2>2. cmd \in Command
    BY <2>1 DEF Command, Actor
  <2>3. pending' = Append(pending, cmd)
    BY <1>1 DEF Get
  <2> QED BY <1>0, <1>1, <2>2, <2>3 DEF Get, TypeOK
<1>2. ASSUME NEW c \in Caller, NEW k \in Key, Del(c, k) PROVE TypeOK'
  <2>1. [op |-> "del", by |-> c, key |-> k, prefixed |-> FALSE] \in Command
    BY DEF Command, Actor
  <2>2. IsPartialFunction(store', Key, Entry)
    BY <1>0, <1>2, WithoutType DEF Del
  <2> QED BY <1>0, <1>2, <2>1, <2>2 DEF Del, TypeOK
<1>3. ASSUME NEW c \in Caller, NEW k \in Key, NEW v \in Value, NEW ttl \in TtlArg,
             Set(c, k, v, ttl)
      PROVE  TypeOK'
  <2>1. StoreTtl(ttl) \in Nat
    BY TtlType
  <2>2. [value |-> v, expiresAt |-> now + StoreTtl(ttl)] \in Entry
    BY <1>0, <2>1 DEF Entry
  <2>3. [op |-> "set", by |-> c, key |-> k, ttl |-> ttl] \in Command
    BY DEF Command, Actor
  <2>4. IsPartialFunction(store', Key, Entry)
    BY <1>0, <1>3, <2>2, PutType DEF Set
  <2> QED BY <1>0, <1>3, <2>3, <2>4 DEF Set, TypeOK
<1>4. ASSUME NEW c \in Caller, NEW pattern \in Pattern, Expire(c, pattern) PROVE TypeOK'
  <2>1. PICK by \in {c} \cup (IF ChangeDeferred THEN {Deferred} ELSE {}) :
          scans' = Append(scans, [by |-> by, keys |-> pattern \cap DOMAIN store])
    BY <1>4 DEF Expire
  <2>2. [by |-> by, keys |-> pattern \cap DOMAIN store] \in Scan
    BY <1>0 DEF Scan, Actor, IsPartialFunction
  <2> QED BY <1>0, <1>4, <2>1, <2>2 DEF Expire, TypeOK
<1>5. ASSUME GetReply PROVE TypeOK'
  <2> DEFINE k == Head(pending).key
             meta == IF k \in DOMAIN keysMeta THEN keysMeta[k] ELSE NewMeta(0, NoExpiry)
  <2>1. pending # <<>> /\ Head(pending).op = "get"
    BY <1>5 DEF GetReply
  <2>2. k \in Key
    BY <2>1, HeadType DEF Command
  <2>3. meta \in KeyMeta
    BY <1>0 DEF IsPartialFunction, NewMeta, KeyMeta, NoExpiry
  <2>4. Used(meta) \in KeyMeta
    BY <2>3, UsedType
  <2>5. IsPartialFunction(Put(keysMeta, k, Used(meta)), Key, KeyMeta)
    BY <1>0, <2>2, <2>4, PutType
  <2>6. keysMeta' = keysMeta \/ keysMeta' = Put(keysMeta, k, Used(meta))
    BY <1>5 DEF GetReply
  <2> QED BY <1>0, <1>5, <2>1, <2>5, <2>6, HeadType DEF GetReply, TypeOK
<1>6. ASSUME SetReply PROVE TypeOK'
  <2> DEFINE ttl == Head(pending).ttl
             meta == NewMeta(1, MetaExpiresAt(ttl))
  <2>1. pending # <<>> /\ Head(pending).op = "set"
    BY <1>6 DEF SetReply
  <2>2. Head(pending).key \in Key /\ ttl \in TtlArg /\ Head(pending).by \in Actor
    BY <2>1, HeadType DEF Command
  <2>3. MetaExpiresAt(ttl) \in Nat
    BY <2>2, TtlType
  <2>4. meta \in KeyMeta
    BY <1>0, <2>3 DEF KeyMeta, NewMeta
  <2>5. IsPartialFunction(Put(keysMeta, Head(pending).key, meta), Key, KeyMeta)
    BY <1>0, <2>2, <2>4, PutType
  <2>6. EvictExcessEntries(Put(keysMeta, Head(pending).key, meta),
                           Tail(pending), Head(pending).by)
    BY <1>6 DEF SetReply
  <2>7. /\ IsPartialFunction(store', Key, Entry)
        /\ IsPartialFunction(keysMeta', Key, KeyMeta)
        /\ pending' \in Seq(Command)
    BY <2>1, <2>2, <2>5, <2>6, HeadType, EvictExcessEntriesType
  <2> QED BY <1>0, <1>6, <2>7 DEF SetReply, TypeOK
<1>7. ASSUME DelReply PROVE TypeOK'
  <2>1. pending # <<>>
    BY <1>7 DEF DelReply
  <2>2. IsPartialFunction(Without(keysMeta, {Head(pending).key}), Key, KeyMeta)
    BY <1>0, WithoutType
  <2>3. IsPartialFunction(keysMeta', Key, KeyMeta)
    BY <1>0, <1>7, <2>2 DEF DelReply
  <2> QED BY <1>0, <1>7, <2>1, <2>3, HeadType DEF DelReply, TypeOK
<1>8. ASSUME NEW i \in DOMAIN scans, ExpireKeys(i) PROVE TypeOK'
  <2>1. i \in 1..Len(scans) /\ Len(scans) \in Nat /\ scans[i] \in Scan
    BY <1>0
  <2>2. scans[i].keys \in SUBSET Key /\ scans[i].by \in Actor
    BY <2>1 DEF Scan
  <2>3. PICK found \in Listings(scans[i].keys) :
          pending' = pending \o Dels(found, scans[i].by, TRUE)
    BY <1>8 DEF ExpireKeys, DelKeys
  <2>4. found \in Seq(Key)
    BY <2>2, ListingsType, SeqMonotonic
  <2>5. pending' \in Seq(Command)
    BY <1>0, <2>2, <2>3, <2>4, DelsType, ConcatProperties
  <2>6. IsPartialFunction(store', Key, Entry)
    BY <1>0, <1>8, WithoutType DEF ExpireKeys, DelKeys
  <2>7. SubSeq(scans, 1, i - 1) \in Seq(Scan) /\ SubSeq(scans, i + 1, Len(scans)) \in Seq(Scan)
    BY <1>0, <2>1
  <2>8. scans' \in Seq(Scan)
    BY <1>8, <2>7, ConcatProperties DEF ExpireKeys
  <2> QED BY <1>0, <1>8, <2>5, <2>6, <2>8 DEF ExpireKeys, DelKeys, TypeOK
<1>9. ASSUME NEW i \in DOMAIN scans, LoadKeysMeta(i) PROVE TypeOK'
  <2>1. /\ IsPartialFunction(store', Key, Entry)
        /\ IsPartialFunction(keysMeta', Key, KeyMeta)
        /\ pending' \in Seq(Command)
    <3>1. CASE scans[i].keys = {}
      BY <1>0, <1>9, <3>1 DEF LoadKeysMeta
    <3>2. CASE scans[i].keys # {}
      BY <1>0, <1>9, <3>2, EvictExcessEntriesType DEF LoadKeysMeta, Actor
    <3> QED BY <3>1, <3>2
  <2> QED BY <1>0, <1>9, <2>1 DEF LoadKeysMeta, TypeOK
<1>10. ASSUME LifeCycle PROVE TypeOK'
  <2>1. CASE Start
    <3>1. [by |-> Boot, keys |-> DOMAIN store] \in Scan
      BY <1>0 DEF Scan, Actor, IsPartialFunction
    <3> QED BY <1>0, <2>1, <3>1 DEF Start, TypeOK
  <2>2. CASE Ready
    BY <1>0, <2>2 DEF Ready, TypeOK
  <2>3. CASE Stop
    <3>1. IsPartialFunction(metaFile', Key, KeyMeta)
      BY <1>0, <2>3, EmptyType DEF Stop
    <3> QED BY <1>0, <2>3, <3>1 DEF Stop, TypeOK
  <2>4. CASE Exit
    BY <1>0, <2>4, EmptyType DEF Exit, TypeOK
  <2> QED BY <1>10, <2>1, <2>2, <2>3, <2>4 DEF LifeCycle
<1>11. ASSUME Tick PROVE TypeOK'
  <2>1. IsPartialFunction(store', Key, Entry)
    BY <1>0, <1>11, WithoutType DEF Tick
  <2> QED BY <1>0, <1>11, <2>1 DEF Tick, TypeOK
<1>12. ASSUME UNCHANGED vars PROVE TypeOK'
  BY <1>12 DEF vars, TypeOK
<1> QED
  BY <1>1, <1>2, <1>3, <1>4, <1>5, <1>6, <1>7, <1>8, <1>9, <1>10, <1>11, <1>12
     DEF Next, Call, Reply, ScanReply

\* The states of the service have the types TypeOK gives them.
THEOREM TypeCorrect == SafeSpec => []TypeOK
<1>1. Init => TypeOK
  BY EmptyType DEF Init, TypeOK
<1> QED BY <1>1, TypeStep, PTL DEF SafeSpec

(***************************************************************************)
(* Tracked, of explicit states                                             *)
(*                                                                         *)
(* A reply handler changes the queue, the metadata and the store at once.  *)
(* TrackedIn is Tracked as an operator of these three and the clock, so    *)
(* that a handler can be taken apart: it removes the reply, it forgets     *)
(* expired metadata, it issues commands.                                   *)
(***************************************************************************)
BeingSetIn(entries, queue, t, k) ==
  \E i \in DOMAIN queue :
    /\ Sets(queue[i], k)
    /\ entries[k].expiresAt <= t + StoreTtl(queue[i].ttl)
    /\ \A j \in DOMAIN queue : j > i => ~Writes(queue[j], k)

HasMetaIn(entries, meta, queue, k) ==
  /\ \A i \in DOMAIN queue : ~Writes(queue[i], k)
  /\ k \in DOMAIN meta
  /\ Covers(meta[k], entries[k])

TrackedIn(entries, meta, queue, t, k) ==
  k \in DOMAIN entries => BeingSetIn(entries, queue, t, k) \/ HasMetaIn(entries, meta, queue, k)

\* TrackedIn, of the variables, is Tracked, before a step and after.
LEMMA TrackedInIsTracked ==
  ASSUME NEW k \in Key
  PROVE  /\ Tracked(k) <=> TrackedIn(store, keysMeta, pending, now, k)
         /\ Tracked(k)' <=> TrackedIn(store', keysMeta', pending', now', k)
BY DEF Tracked, TrackedIn, BeingSet, BeingSetIn, HasMeta, HasMetaIn

\* Taking a reply off the queue: the metadata of k may change only if the reply is
\* to a write of k, and must outlast the entry if it is to a set.
LEMMA PopTracks ==
  ASSUME NEW k \in Key, NEW queue \in Seq(Command), queue # <<>>,
         NEW entries, NEW meta, NEW t \in Nat, IsPartialFunction(entries, Key, Entry),
         NEW newMeta, TrackedIn(entries, meta, queue, t, k),
         ~Writes(Head(queue), k) /\ k \in DOMAIN meta
           => k \in DOMAIN newMeta /\ newMeta[k].expiresAt = meta[k].expiresAt,
         Sets(Head(queue), k)
           => /\ k \in DOMAIN newMeta
              /\ \/ newMeta[k].expiresAt = NoExpiry
                 \/ newMeta[k].expiresAt \in Nat
                    /\ newMeta[k].expiresAt >= t + StoreTtl(Head(queue).ttl)
  PROVE  TrackedIn(entries, newMeta, Tail(queue), t, k)
<1> SUFFICES ASSUME k \in DOMAIN entries
             PROVE  \/ BeingSetIn(entries, Tail(queue), t, k)
                    \/ HasMetaIn(entries, newMeta, Tail(queue), k)
  BY DEF TrackedIn
<1>1. /\ Len(queue) \in Nat \ {0} /\ Head(queue) = queue[1] /\ Head(queue) \in Command
      /\ Tail(queue) \in Seq(Command) /\ Len(Tail(queue)) = Len(queue) - 1
      /\ \A i \in 1..Len(queue) - 1 : Tail(queue)[i] = queue[i + 1]
      /\ DOMAIN queue = 1..Len(queue) /\ DOMAIN Tail(queue) = 1..Len(queue) - 1
  BY HeadTailProperties, EmptySeq
<1>2. CASE BeingSetIn(entries, queue, t, k)
  <2>1. PICK i \in 1..Len(queue) :
          /\ Sets(queue[i], k)
          /\ entries[k].expiresAt <= t + StoreTtl(queue[i].ttl)
          /\ \A j \in 1..Len(queue) : j > i => ~Writes(queue[j], k)
    BY <1>1, <1>2 DEF BeingSetIn
  <2>2. CASE i = 1
    <3>1. k \in DOMAIN newMeta /\ Sets(Head(queue), k)
      BY <1>1, <2>1, <2>2
    <3>2. Head(queue).ttl \in TtlArg
      BY <1>1, <3>1 DEF Sets, Command
    <3>3. StoreTtl(Head(queue).ttl) \in Nat /\ entries[k].expiresAt \in Nat
      BY <3>2, OptionAssumption DEF StoreTtl, IsPartialFunction, Entry
    <3>4. Covers(newMeta[k], entries[k])
      BY <1>1, <2>1, <2>2, <3>1, <3>3 DEF Covers
    <3>5. \A j \in 1..Len(queue) - 1 : ~Writes(Tail(queue)[j], k)
      BY <1>1, <2>1, <2>2
    <3> QED BY <1>1, <3>1, <3>4, <3>5 DEF HasMetaIn
  <2>3. CASE i # 1
    <3>1. i - 1 \in 1..Len(queue) - 1 /\ Tail(queue)[i - 1] = queue[i]
      BY <1>1, <2>3
    <3>2. \A j \in 1..Len(queue) - 1 : j > i - 1 => ~Writes(Tail(queue)[j], k)
      BY <1>1, <2>1
    <3> QED BY <1>1, <2>1, <3>1, <3>2 DEF BeingSetIn
  <2> QED BY <2>2, <2>3
<1>3. CASE HasMetaIn(entries, meta, queue, k)
  <2>1. \A j \in 1..Len(queue) : ~Writes(queue[j], k)
    BY <1>1, <1>3 DEF HasMetaIn
  <2>2. k \in DOMAIN newMeta /\ newMeta[k].expiresAt = meta[k].expiresAt
    BY <1>1, <1>3, <2>1 DEF HasMetaIn
  <2>3. \A j \in 1..Len(queue) - 1 : ~Writes(Tail(queue)[j], k)
    BY <1>1, <2>1
  <2> QED BY <1>1, <1>3, <2>2, <2>3 DEF HasMetaIn, Covers
<1> QED BY <1>2, <1>3 DEF TrackedIn

\* Issuing commands: those that write k leave no entry of k behind.
LEMMA IssueTracks ==
  ASSUME NEW k \in Key, NEW queue \in Seq(Command), NEW more \in Seq(Command),
         NEW entries, NEW newEntries, NEW meta, NEW t \in Nat,
         TrackedIn(entries, meta, queue, t, k),
         k \in DOMAIN newEntries => /\ k \in DOMAIN entries
                                    /\ newEntries[k] = entries[k]
                                    /\ \A i \in 1..Len(more) : ~Writes(more[i], k)
  PROVE  TrackedIn(newEntries, meta, queue \o more, t, k)
<1> SUFFICES ASSUME k \in DOMAIN newEntries
             PROVE  \/ BeingSetIn(newEntries, queue \o more, t, k)
                    \/ HasMetaIn(newEntries, meta, queue \o more, k)
  BY DEF TrackedIn
<1> DEFINE longer == queue \o more
<1>1. /\ Len(queue) \in Nat /\ Len(more) \in Nat
      /\ DOMAIN queue = 1..Len(queue) /\ longer \in Seq(Command)
      /\ DOMAIN longer = 1..Len(queue) + Len(more)
      /\ \A i \in 1..Len(queue) + Len(more) :
           longer[i] = IF i <= Len(queue) THEN queue[i] ELSE more[i - Len(queue)]
  BY ConcatProperties, LenProperties
<1>2. \A i \in 1..Len(queue) + Len(more) : i > Len(queue) => ~Writes(longer[i], k)
  <2> TAKE i \in 1..Len(queue) + Len(more)
  <2> HAVE i > Len(queue)
  <2>1. i - Len(queue) \in 1..Len(more)
    BY <1>1
  <2> QED BY <1>1, <2>1
<1>3. CASE BeingSetIn(entries, queue, t, k)
  <2>1. PICK i \in 1..Len(queue) :
          /\ Sets(queue[i], k)
          /\ entries[k].expiresAt <= t + StoreTtl(queue[i].ttl)
          /\ \A j \in 1..Len(queue) : j > i => ~Writes(queue[j], k)
    BY <1>1, <1>3 DEF BeingSetIn
  <2>2. i \in 1..Len(queue) + Len(more) /\ longer[i] = queue[i]
    BY <1>1
  <2>3. \A j \in 1..Len(queue) + Len(more) : j > i => ~Writes(longer[j], k)
    <3> TAKE j \in 1..Len(queue) + Len(more)
    <3> HAVE j > i
    <3>1. CASE j > Len(queue)
      BY <1>2, <3>1
    <3>2. CASE j <= Len(queue)
      BY <1>1, <2>1, <3>2
    <3> QED BY <1>1, <3>1, <3>2
  <2> HIDE DEF longer
  <2> QED BY <1>1, <2>1, <2>2, <2>3 DEF BeingSetIn, longer
<1>4. CASE HasMetaIn(entries, meta, queue, k)
  <2>1. \A j \in 1..Len(queue) + Len(more) : ~Writes(longer[j], k)
    <3> TAKE j \in 1..Len(queue) + Len(more)
    <3>1. CASE j > Len(queue)
      BY <1>2, <3>1
    <3>2. CASE j <= Len(queue)
      BY <1>1, <1>4, <3>2 DEF HasMetaIn
    <3> QED BY <1>1, <3>1, <3>2
  <2> QED BY <1>1, <1>4, <2>1 DEF HasMetaIn
<1> QED BY <1>3, <1>4 DEF TrackedIn

\* Time passing, entries leaving the store, metadata that does not cover an entry
\* leaving keysMeta.
LEMMA ForgetTracks ==
  ASSUME NEW k \in Key, NEW queue, queue \in Seq(Command), NEW t \in Nat, NEW u \in Nat, t <= u,
         NEW entries, IsPartialFunction(entries, Key, Entry),
         NEW newEntries, NEW meta, NEW newMeta,
         TrackedIn(entries, meta, queue, t, k),
         k \in DOMAIN newEntries => k \in DOMAIN entries /\ newEntries[k] = entries[k],
         k \in DOMAIN newEntries /\ k \in DOMAIN meta /\ Covers(meta[k], entries[k])
           => k \in DOMAIN newMeta /\ newMeta[k] = meta[k]
  PROVE  TrackedIn(newEntries, newMeta, queue, u, k)
<1> SUFFICES ASSUME k \in DOMAIN newEntries
             PROVE  \/ BeingSetIn(newEntries, queue, u, k)
                    \/ HasMetaIn(newEntries, newMeta, queue, k)
  BY DEF TrackedIn
<1>1. CASE BeingSetIn(entries, queue, t, k)
  <2>1. PICK i \in DOMAIN queue :
          /\ Sets(queue[i], k)
          /\ entries[k].expiresAt <= t + StoreTtl(queue[i].ttl)
          /\ \A j \in DOMAIN queue : j > i => ~Writes(queue[j], k)
    BY <1>1 DEF BeingSetIn
  <2>2. queue[i].ttl \in TtlArg
    BY <2>1 DEF Sets, Command
  <2>3. StoreTtl(queue[i].ttl) \in Nat /\ entries[k].expiresAt \in Nat
    BY <2>2, OptionAssumption DEF StoreTtl, IsPartialFunction, Entry
  <2> QED BY <2>1, <2>3 DEF BeingSetIn
<1>2. CASE HasMetaIn(entries, meta, queue, k)
  BY <1>2 DEF HasMetaIn, Covers
<1> QED BY <1>1, <1>2 DEF TrackedIn

(***************************************************************************)
(* No step loses track of an entry                                         *)
(***************************************************************************)
\* Redis holds no entry past its time.
StoreFresh == \A k \in DOMAIN store : store[k].expiresAt >= now

\* The del calls for some keys, issued together with their effect on the store.
LEMMA DelsTrack ==
  ASSUME NEW k \in Key, NEW queue \in Seq(Command), NEW keys \in Seq(Key),
         NEW by \in Actor, NEW prefixed \in BOOLEAN, NEW gone, Range(keys) \subseteq gone,
         NEW entries, IsPartialFunction(entries, Key, Entry), NEW meta, NEW t \in Nat,
         TrackedIn(entries, meta, queue, t, k)
  PROVE  TrackedIn(Without(entries, gone), meta, queue \o Dels(keys, by, prefixed), t, k)
<1> DEFINE more == Dels(keys, by, prefixed)
<1>1. /\ more \in Seq(Command) /\ Len(more) = Len(keys)
      /\ \A i \in 1..Len(keys) : more[i].key = keys[i]
  BY DelsType
<1>2. \A i \in 1..Len(keys) : keys[i] \in Range(keys)
  BY DEF Range
<1>3. k \in DOMAIN Without(entries, gone)
        => /\ k \in DOMAIN entries
           /\ Without(entries, gone)[k] = entries[k]
           /\ \A i \in 1..Len(more) : ~Writes(more[i], k)
  BY <1>1, <1>2 DEF Without, Restrict, Writes
<1> HIDE DEF more
<1>4. TrackedIn(Without(entries, gone), meta, queue \o more, t, k)
  BY <1>1, <1>3, IssueTracks
<1> QED BY <1>4 DEF more

\* An eviction loses track of no entry.
LEMMA EvictExcessEntriesTracks ==
  ASSUME TypeOK, StoreFresh, NEW k \in Key,
         NEW meta, IsPartialFunction(meta, Key, KeyMeta),
         NEW queue \in Seq(Command), NEW actor \in Actor,
         TrackedIn(store, meta, queue, now, k),
         EvictExcessEntries(meta, queue, actor)
  PROVE  TrackedIn(store', keysMeta', pending', now, k)
<1> DEFINE kept == Without(meta, Expired(meta))
           removeCount == Cardinality(DOMAIN kept) - MaxItems
           by == IF EvictionDeferred THEN Deferred ELSE actor
<1>1. now \in Nat /\ IsPartialFunction(store, Key, Entry) /\ IsPartialFunction(kept, Key, KeyMeta)
  BY WithoutType DEF TypeOK
<1>2. TrackedIn(store, kept, queue, now, k)
  <2>1. ASSUME k \in DOMAIN store, k \in DOMAIN meta, Covers(meta[k], store[k])
        PROVE  k \notin Expired(meta)
    <3>1. meta[k].expiresAt \in Nat /\ store[k].expiresAt \in Nat /\ store[k].expiresAt >= now
      BY <1>1, <2>1 DEF IsPartialFunction, KeyMeta, Entry, StoreFresh
    <3> QED BY <1>1, <2>1, <3>1 DEF Expired, Covers
  <2>2. k \in DOMAIN store /\ k \in DOMAIN meta /\ Covers(meta[k], store[k])
          => k \in DOMAIN kept /\ kept[k] = meta[k]
    BY <2>1 DEF Without, Restrict
  <2> HIDE DEF kept
  <2> QED BY <1>1, <2>2, ForgetTracks
<1>3. PICK sorted \in SortedKeys(kept) :
        /\ store' = Without(store, Range(SubSeq(sorted, 1, removeCount)))
        /\ pending' = queue \o Dels(SubSeq(sorted, 1, removeCount), by, FALSE)
  BY DEF EvictExcessEntries
<1>4. SubSeq(sorted, 1, removeCount) \in Seq(Key)
  BY <1>1, VictimsType
<1>5. by \in Actor /\ keysMeta' = kept
  BY DEF Actor, EvictExcessEntries
<1> HIDE DEF kept, removeCount, by
<1> QED BY <1>1, <1>2, <1>3, <1>4, <1>5, DelsTrack

\* No step of a running process loses track of an entry.
LEMMA TrackedStep ==
  ASSUME TypeOK, StoreFresh, [Next]_vars, Serving, Serving', NEW k \in Key, Tracked(k)
  PROVE  Tracked(k)'
<1>0. /\ now \in Nat /\ IsPartialFunction(store, Key, Entry)
      /\ IsPartialFunction(keysMeta, Key, KeyMeta)
      /\ IsPartialFunction(metaFile, Key, KeyMeta)
      /\ pending \in Seq(Command) /\ scans \in Seq(Scan)
      /\ TrackedIn(store, keysMeta, pending, now, k)
  BY TrackedInIsTracked DEF TypeOK
<1> SUFFICES TrackedIn(store', keysMeta', pending', now', k)
  BY TrackedInIsTracked
<1>1. ASSUME NEW c \in Caller, NEW l \in Key, Get(c, l)
      PROVE  TrackedIn(store', keysMeta', pending', now', k)
  <2> DEFINE data == IF l \in DOMAIN store THEN store[l].value ELSE Null
             cmd == [op |-> "get", by |-> c, key |-> l, data |-> data]
  <2>1. data \in Value \cup {Null}
    BY <1>0 DEF IsPartialFunction, Entry
  <2>2. cmd \in Command /\ cmd.op = "get"
    BY <2>1 DEF Command, Actor
  <2>3. pending' = pending \o <<cmd>> /\ <<cmd>> \in Seq(Command)
    BY <1>0, <1>1, <2>2 DEF Get
  <2>4. \A i \in 1..Len(<<cmd>>) : ~Writes(<<cmd>>[i], k)
    BY <2>2 DEF Writes
  <2> HIDE DEF cmd
  <2>5. TrackedIn(store, keysMeta, pending \o <<cmd>>, now, k)
    BY <1>0, <2>3, <2>4, IssueTracks
  <2> QED BY <1>1, <2>3, <2>5 DEF Get
<1>2. ASSUME NEW c \in Caller, NEW l \in Key, Del(c, l)
      PROVE  TrackedIn(store', keysMeta', pending', now', k)
  <2> DEFINE cmd == [op |-> "del", by |-> c, key |-> l, prefixed |-> FALSE]
  <2>1. cmd \in Command /\ cmd.key = l
    BY DEF Command, Actor
  <2>2. pending' = pending \o <<cmd>> /\ <<cmd>> \in Seq(Command)
    <3> HIDE DEF cmd
    <3>1. pending' = Append(pending, cmd)
      BY <1>2 DEF Del, cmd
    <3> QED BY <1>0, <2>1, <3>1
  <2>3. k \in DOMAIN store' => /\ k \in DOMAIN store
                               /\ store'[k] = store[k]
                               /\ \A i \in 1..Len(<<cmd>>) : ~Writes(<<cmd>>[i], k)
    BY <1>2, <2>1 DEF Without, Restrict, Del, Writes
  <2> HIDE DEF cmd
  <2>4. TrackedIn(store', keysMeta, pending \o <<cmd>>, now, k)
    BY <1>0, <2>2, <2>3, IssueTracks
  <2> QED BY <1>2, <2>2, <2>4 DEF Del
<1>3. ASSUME NEW c \in Caller, NEW l \in Key, NEW v \in Value, NEW ttl \in TtlArg,
             Set(c, l, v, ttl)
      PROVE  TrackedIn(store', keysMeta', pending', now', k)
  <2> DEFINE cmd == [op |-> "set", by |-> c, key |-> l, ttl |-> ttl]
             entry == [value |-> v, expiresAt |-> now + StoreTtl(ttl)]
  <2>1. cmd \in Command /\ cmd.key = l /\ cmd.op = "set" /\ cmd.ttl = ttl
    BY DEF Command, Actor
  <2>2. /\ pending' = pending \o <<cmd>> /\ <<cmd>> \in Seq(Command)
        /\ store' = Put(store, l, entry) /\ keysMeta' = keysMeta /\ now' = now
    BY <1>0, <1>3, <2>1 DEF Set
  <2>3. CASE k = l
    <3> DEFINE n == Len(pending) + 1
    <3>1. /\ DOMAIN pending' = 1..n /\ n \in 1..n
          /\ pending'[n] = cmd /\ \A j \in 1..n : ~(j > n)
      BY <1>0, <2>2
    <3>2. StoreTtl(ttl) \in Nat /\ store'[k] = entry
      BY <2>2, <2>3, TtlType DEF Put
    <3>3. Sets(pending'[n], k) /\ store'[k].expiresAt <= now' + StoreTtl(pending'[n].ttl)
      BY <1>0, <2>1, <2>2, <2>3, <3>1, <3>2 DEF Sets
    <3> HIDE DEF n
    <3> QED BY <3>1, <3>3 DEF TrackedIn, BeingSetIn
  <2>4. CASE k # l
    <3>1. k \in DOMAIN store' => /\ k \in DOMAIN store
                                 /\ store'[k] = store[k]
                                 /\ \A i \in 1..Len(<<cmd>>) : ~Writes(<<cmd>>[i], k)
      BY <2>1, <2>2, <2>4 DEF Put, Writes
    <3> HIDE DEF cmd
    <3>2. TrackedIn(store', keysMeta, pending \o <<cmd>>, now, k)
      BY <1>0, <2>2, <3>1, IssueTracks
    <3> QED BY <2>2, <3>2
  <2> QED BY <2>3, <2>4
<1>4. ASSUME NEW c \in Caller, NEW pattern \in Pattern, Expire(c, pattern)
      PROVE  TrackedIn(store', keysMeta', pending', now', k)
  BY <1>0, <1>4 DEF Expire
<1>5. ASSUME GetReply PROVE TrackedIn(store', keysMeta', pending', now', k)
  <2> DEFINE l == Head(pending).key
             meta == IF l \in DOMAIN keysMeta THEN keysMeta[l] ELSE NewMeta(0, NoExpiry)
  <2>1. pending # <<>> /\ Head(pending).op = "get"
    BY <1>5 DEF GetReply
  <2>2. ~Writes(Head(pending), k) /\ ~Sets(Head(pending), k)
    BY <2>1 DEF Writes, Sets
  <2>3. k \in DOMAIN keysMeta
          => k \in DOMAIN keysMeta' /\ keysMeta'[k].expiresAt = keysMeta[k].expiresAt
    BY <1>5 DEF GetReply, Put, Used
  <2>4. TrackedIn(store, keysMeta', Tail(pending), now, k)
    BY <1>0, <2>1, <2>2, <2>3, PopTracks
  <2> QED BY <1>5, <2>4 DEF GetReply
<1>6. ASSUME SetReply PROVE TrackedIn(store', keysMeta', pending', now', k)
  <2> DEFINE l == Head(pending).key
             ttl == Head(pending).ttl
             meta == NewMeta(1, MetaExpiresAt(ttl))
             newMeta == Put(keysMeta, l, meta)
  <2>1. pending # <<>> /\ Head(pending).op = "set"
    BY <1>6 DEF SetReply
  <2>2. l \in Key /\ ttl \in TtlArg /\ Head(pending).by \in Actor
    BY <2>1, HeadType DEF Command
  <2>3. MetaExpiresAt(ttl) \in Nat /\ ttl \in Nat
    BY <2>2, TtlType, OptionAssumption
  <2>4. meta \in KeyMeta /\ meta.expiresAt = MetaExpiresAt(ttl)
    BY <1>0, <2>3 DEF NewMeta, KeyMeta
  <2>5. IsPartialFunction(newMeta, Key, KeyMeta)
    BY <1>0, <2>2, <2>4, PutType
  <2>6. ~Writes(Head(pending), k) /\ k \in DOMAIN keysMeta
          => k \in DOMAIN newMeta /\ newMeta[k].expiresAt = keysMeta[k].expiresAt
    BY <2>1 DEF Put, Writes
  <2>7. ASSUME Sets(Head(pending), k)
        PROVE  /\ k \in DOMAIN newMeta
               /\ \/ newMeta[k].expiresAt = NoExpiry
                  \/ newMeta[k].expiresAt \in Nat /\ newMeta[k].expiresAt >= now + StoreTtl(ttl)
    <3>1. k = l /\ k \in DOMAIN newMeta /\ newMeta[k] = meta
      BY <2>7 DEF Sets, Put
    <3>2. \/ MetaExpiresAt(ttl) = NoExpiry
          \/ MetaExpiresAt(ttl) >= now + StoreTtl(ttl)
      BY <1>0, <2>3 DEF MetaExpiresAt, StoreTtl
    <3> QED BY <2>3, <2>4, <3>1, <3>2
  <2> HIDE DEF newMeta
  <2>8. TrackedIn(store, newMeta, Tail(pending), now, k)
    BY <1>0, <2>1, <2>6, <2>7, PopTracks
  <2>9. EvictExcessEntries(newMeta, Tail(pending), Head(pending).by)
    BY <1>6 DEF SetReply, newMeta
  <2>10. TrackedIn(store', keysMeta', pending', now, k)
    BY <2>1, <2>2, <2>5, <2>8, <2>9, HeadType, EvictExcessEntriesTracks
  <2> QED BY <1>6, <2>10 DEF SetReply
<1>7. ASSUME DelReply PROVE TrackedIn(store', keysMeta', pending', now', k)
  <2>1. pending # <<>> /\ Head(pending).op = "del"
    BY <1>7 DEF DelReply
  <2>2. ~Sets(Head(pending), k)
    BY <2>1 DEF Sets
  <2>3. ~Writes(Head(pending), k) => Head(pending).key # k
    BY <2>1 DEF Writes
  <2>4. ~Writes(Head(pending), k) /\ k \in DOMAIN keysMeta
          => k \in DOMAIN keysMeta' /\ keysMeta'[k] = keysMeta[k]
    BY <1>7, <2>3 DEF Without, Restrict, DelReply
  <2>5. TrackedIn(store, keysMeta', Tail(pending), now, k)
    BY <1>0, <2>1, <2>2, <2>4, PopTracks
  <2> QED BY <1>7, <2>5 DEF DelReply
<1>8. ASSUME NEW i \in DOMAIN scans, ExpireKeys(i)
      PROVE  TrackedIn(store', keysMeta', pending', now', k)
  <2>1. scans[i] \in Scan
    BY <1>0
  <2>2. scans[i].keys \in SUBSET Key /\ scans[i].by \in Actor
    BY <2>1 DEF Scan
  <2>3. PICK found \in Listings(scans[i].keys) :
          pending' = pending \o Dels(found, scans[i].by, TRUE)
    BY <1>8 DEF ExpireKeys, DelKeys
  <2>4. found \in Seq(scans[i].keys) /\ found \in Seq(Key)
    BY <2>2, ListingsType, SeqMonotonic
  <2>5. Range(found) \subseteq scans[i].keys
    BY <2>4 DEF Range
  <2>6. /\ store' = Without(store, scans[i].keys)
        /\ keysMeta' = keysMeta /\ now' = now
    BY <1>8 DEF ExpireKeys, DelKeys
  <2>7. TrackedIn(Without(store, scans[i].keys), keysMeta,
                  pending \o Dels(found, scans[i].by, TRUE), now, k)
    BY <1>0, <2>2, <2>4, <2>5, DelsTrack
  <2> QED BY <2>3, <2>6, <2>7
<1>9. ASSUME NEW i \in DOMAIN scans, LoadKeysMeta(i)
      PROVE  TrackedIn(store', keysMeta', pending', now', k)
  BY <1>9 DEF LoadKeysMeta, Serving
<1>10. ASSUME LifeCycle PROVE TrackedIn(store', keysMeta', pending', now', k)
  BY <1>0, <1>10 DEF LifeCycle, Start, Ready, Stop, Exit, Serving
<1>11. ASSUME Tick PROVE TrackedIn(store', keysMeta', pending', now', k)
  <2>1. now' \in Nat /\ now <= now'
    BY <1>0, <1>11 DEF Tick
  <2>2. k \in DOMAIN store' => k \in DOMAIN store /\ store'[k] = store[k]
    BY <1>11 DEF Without, Restrict, Tick
  <2>3. TrackedIn(store', keysMeta, pending, now', k)
    BY <1>0, <2>1, <2>2, ForgetTracks
  <2> QED BY <1>11, <2>3 DEF Tick
<1>12. ASSUME UNCHANGED vars PROVE TrackedIn(store', keysMeta', pending', now', k)
  BY <1>0, <1>12 DEF vars
<1> QED
  BY <1>1, <1>2, <1>3, <1>4, <1>5, <1>6, <1>7, <1>8, <1>9, <1>10, <1>11, <1>12
     DEF Next, Call, Reply, ScanReply

\* Redis drops an entry the moment its time is over.
LEMMA FreshStep == TypeOK /\ StoreFresh /\ [Next]_vars => StoreFresh'
<1> SUFFICES ASSUME TypeOK, StoreFresh, [Next]_vars PROVE StoreFresh'
  OBVIOUS
<1>0. now \in Nat /\ IsPartialFunction(store, Key, Entry)
  BY DEF TypeOK
<1>1. ASSUME NEW S, store' = Without(store, S), now' = now PROVE StoreFresh'
  BY <1>1 DEF Without, Restrict, StoreFresh
<1>2. ASSUME UNCHANGED <<store, now>> PROVE StoreFresh'
  BY <1>2 DEF StoreFresh
<1>3. ASSUME NEW meta, NEW queue, NEW actor, EvictExcessEntries(meta, queue, actor), now' = now
      PROVE  StoreFresh'
  <2>1. PICK S : store' = Without(store, S)
    BY <1>3 DEF EvictExcessEntries
  <2> QED BY <1>1, <1>3, <2>1
<1>4. ASSUME NEW c \in Caller, NEW k \in Key, NEW v \in Value, NEW ttl \in TtlArg,
             Set(c, k, v, ttl)
      PROVE  StoreFresh'
  <2>1. StoreTtl(ttl) \in Nat
    BY TtlType
  <2> QED BY <1>0, <1>4, <2>1 DEF Set, Put, StoreFresh
<1>5. ASSUME NEW c \in Caller, NEW k \in Key, Get(c, k) \/ Del(c, k) PROVE StoreFresh'
  BY <1>1, <1>2, <1>5 DEF Get, Del
<1>6. ASSUME NEW c \in Caller, NEW pattern \in Pattern, Expire(c, pattern) PROVE StoreFresh'
  BY <1>2, <1>6 DEF Expire
<1>7. ASSUME Reply PROVE StoreFresh'
  BY <1>2, <1>3, <1>7 DEF Reply, GetReply, SetReply, DelReply
<1>8. ASSUME NEW i \in DOMAIN scans, ExpireKeys(i) \/ LoadKeysMeta(i) PROVE StoreFresh'
  BY <1>1, <1>2, <1>3, <1>8 DEF ExpireKeys, DelKeys, LoadKeysMeta
<1>9. ASSUME LifeCycle \/ UNCHANGED vars PROVE StoreFresh'
  BY <1>2, <1>9 DEF LifeCycle, Start, Ready, Stop, Exit, vars
<1>10. ASSUME Tick PROVE StoreFresh'
  <2>1. \A k \in DOMAIN store' : k \in DOMAIN store /\ store'[k] = store[k] /\ ~(store[k].expiresAt < now')
    BY <1>10 DEF Without, Restrict, Tick
  <2>2. now' \in Nat /\ \A k \in DOMAIN store : store[k].expiresAt \in Nat
    BY <1>0, <1>10 DEF Tick, IsPartialFunction, Entry
  <2> QED BY <2>1, <2>2 DEF StoreFresh
<1> QED
  BY <1>4, <1>5, <1>6, <1>7, <1>8, <1>9, <1>10 DEF Next, Call, ScanReply

\* A running process never loses track of an entry of Redis, whether or not it
\* started from a clean cache.
THEOREM NeverLosesTrack == SafeSpec => StaysTracked
<1>1. Init => TypeOK /\ StoreFresh
  BY EmptyType DEF Init, TypeOK, StoreFresh
<1>2. TypeOK /\ StoreFresh /\ [Next]_vars => TypeOK' /\ StoreFresh'
  BY TypeStep, FreshStep
<1>3. TypeOK /\ StoreFresh /\ [Next]_vars
        => [\A k \in Key : Serving /\ Serving' /\ Tracked(k) => Tracked(k)']_vars
  BY TrackedStep
<1> QED BY <1>1, <1>2, <1>3, PTL DEF SafeSpec, StaysTracked

(***************************************************************************)
(* A clean start                                                           *)
(***************************************************************************)
\* While a process that starts clean is starting, the scan of onModuleInit knows
\* every entry of the store, and once it has been dealt with there is none.
CleanBoot ==
  CleanStart /\ phase = "starting" =>
    /\ Len(scans) <= 1
    /\ scans = <<>> => DOMAIN store = {}
    /\ scans # <<>> => scans[1].by = Boot /\ DOMAIN store \subseteq scans[1].keys

\* A sequence of one element at most has one index at most.
LEMMA OneIndex == \A n \in Nat : \A i \in 1..n : n <= 1 => i = 1 /\ n = 1
OBVIOUS

\* Every step keeps CleanBoot.
LEMMA CleanBootStep == TypeOK /\ CleanBoot /\ [Next]_vars => CleanBoot'
<1> SUFFICES ASSUME TypeOK, CleanBoot, [Next]_vars, CleanStart, phase' = "starting"
             PROVE  CleanBoot'
  BY DEF CleanBoot
<1>0. scans \in Seq(Scan)
  BY DEF TypeOK
<1>1. ASSUME phase = "starting", scans' = scans, DOMAIN store' \subseteq DOMAIN store
      PROVE  CleanBoot'
  BY <1>1 DEF CleanBoot
<1>2. ASSUME NEW c \in Caller, Call(c) PROVE CleanBoot'
  BY <1>2 DEF Call, Get, Set, Del, Expire, Serving
<1>3. CASE Reply
  <2>1. phase = "starting" /\ scans' = scans
    BY <1>3 DEF Reply, GetReply, SetReply, DelReply
  <2>2. CASE SetReply
    <3>1. PICK S : store' = Without(store, S)
      BY <2>2 DEF SetReply, EvictExcessEntries
    <3> QED BY <1>1, <2>1, <3>1 DEF Without, Restrict
  <2>3. CASE GetReply \/ DelReply
    BY <1>1, <2>1, <2>3 DEF GetReply, DelReply
  <2> QED BY <1>3, <2>2, <2>3 DEF Reply
<1>4. ASSUME NEW i \in DOMAIN scans, ExpireKeys(i) PROVE CleanBoot'
  <2>0. phase = "starting" /\ Len(scans) <= 1
    BY <1>4 DEF ExpireKeys, CleanBoot
  <2>1. Len(scans) \in Nat /\ i \in 1..Len(scans)
    BY <1>0
  <2>2. i = 1 /\ Len(scans) = 1
    BY <2>0, <2>1, OneIndex
  <2>3. scans' = SubSeq(scans, 1, 0) \o SubSeq(scans, 2, 1)
    BY <1>4, <2>2 DEF ExpireKeys
  <2>4. scans' = <<>>
    BY <1>0, <2>2, <2>3
  <2>5. DOMAIN store \subseteq scans[1].keys
    BY <1>0, <2>0, <2>2 DEF CleanBoot
  <2>6. store' = Without(store, scans[1].keys)
    BY <1>4, <2>2 DEF ExpireKeys, DelKeys
  <2>7. DOMAIN store' = {}
    BY <2>5, <2>6 DEF Without, Restrict
  <2> QED BY <2>4, <2>7 DEF CleanBoot
<1>5. ASSUME NEW i \in DOMAIN scans, LoadKeysMeta(i) PROVE CleanBoot'
  BY <1>5 DEF LoadKeysMeta
<1>6. CASE LifeCycle
  <2>1. CASE Start
    BY <2>1 DEF Start, CleanBoot
  <2>2. CASE Ready \/ Stop \/ Exit
    BY <2>2 DEF Ready, Stop, Exit
  <2> QED BY <1>6, <2>1, <2>2 DEF LifeCycle
<1>7. CASE Tick
  <2>1. DOMAIN store' \subseteq DOMAIN store
    BY <1>7 DEF Tick, Without, Restrict
  <2> QED BY <1>1, <1>7, <2>1 DEF Tick
<1>8. CASE UNCHANGED vars
  BY <1>1, <1>8 DEF vars
<1> QED
  BY <1>2, <1>3, <1>4, <1>5, <1>6, <1>7, <1>8 DEF Next, ScanReply

\* A process that starts clean begins to serve with an empty store.
LEMMA ServesFromEmpty ==
  ASSUME TypeOK, CleanBoot, CleanStart, [Next]_vars, ~Serving, Serving'
  PROVE  DOMAIN store' = {} /\ UNCHANGED <<store, pending>>
<1>1. Ready
  <2>1. ASSUME phase' = phase PROVE FALSE
    BY <2>1 DEF Serving
  <2>2. ~(\E c \in Caller : Call(c)) /\ ~Reply /\ ~(\E a \in Actor : ScanReply(a)) /\ ~Tick
        /\ ~UNCHANGED vars
    BY <2>1 DEF Call, Get, Set, Del, Expire, Reply, GetReply, SetReply, DelReply,
                ScanReply, ExpireKeys, LoadKeysMeta, Tick, vars
  <2>3. ~Start /\ ~Stop /\ ~Exit
    BY DEF Start, Stop, Exit, Serving
  <2> QED BY <2>2, <2>3 DEF Next, LifeCycle
<1>2. phase = "starting" /\ Idle(Boot) /\ UNCHANGED <<store, pending>>
  BY <1>1 DEF Ready
<1>3. scans \in Seq(Scan)
  BY DEF TypeOK
<1>4. scans = <<>>
  BY <1>2, <1>3 DEF Idle, CleanBoot
<1> QED BY <1>2, <1>4 DEF CleanBoot

\* Every step keeps StoreTracked.
LEMMA StoreTrackedStep ==
  TypeOK /\ StoreFresh /\ CleanBoot /\ StoreTracked /\ [Next]_vars => StoreTracked'
<1> SUFFICES ASSUME TypeOK, StoreFresh, CleanBoot, StoreTracked, [Next]_vars,
                    CleanStart, Serving', NEW k \in Key
             PROVE  Tracked(k)'
  BY DEF StoreTracked
<1>1. CASE Serving
  BY <1>1, TrackedStep DEF StoreTracked
<1>2. CASE ~Serving
  BY <1>2, ServesFromEmpty DEF Tracked
<1> QED BY <1>1, <1>2

\* Every entry of the store a clean process serves from is tracked.
THEOREM StoreAlwaysTracked == SafeSpec => []StoreTracked
<1>1. Init => TypeOK /\ StoreFresh /\ CleanBoot /\ StoreTracked
  BY EmptyType DEF Init, TypeOK, StoreFresh, CleanBoot, StoreTracked, Serving
<1>2. TypeOK /\ StoreFresh /\ CleanBoot /\ StoreTracked /\ [Next]_vars
        => TypeOK' /\ StoreFresh' /\ CleanBoot' /\ StoreTracked'
  BY TypeStep, FreshStep, CleanBootStep, StoreTrackedStep
<1> QED BY <1>1, <1>2, PTL DEF SafeSpec

(***************************************************************************)
(* The limit of maxItems                                                   *)
(***************************************************************************)
\* A list without repetitions is as long as its range is large.
LEMMA RangeCardinality ==
  ASSUME NEW S, NEW s \in Seq(S), \A i, j \in 1..Len(s) : s[i] = s[j] => i = j
  PROVE  IsFiniteSet(Range(s)) /\ Cardinality(Range(s)) = Len(s)
<1>1. Len(s) \in Nat /\ DOMAIN s = 1..Len(s) /\ s \in [1..Len(s) -> Range(s)]
  BY DEF Range
<1>2. s \in Injection(1..Len(s), Range(s)) /\ s \in Surjection(1..Len(s), Range(s))
  BY <1>1 DEF Injection, Surjection, Range, IsInjective
<1>3. ExistsBijection(1..Len(s), Range(s))
  BY <1>2 DEF ExistsBijection, Bijection
<1>4. IsFiniteSet(1..Len(s)) /\ Cardinality(1..Len(s)) = Len(s)
  BY <1>1, FS_Interval
<1> QED BY <1>3, <1>4, FS_Bijection

\* Eviction leaves at most maxItems of the keys it finds metadata of in the store.
LEMMA EvictionSuffices ==
  ASSUME TypeOK, NEW meta, IsPartialFunction(meta, Key, KeyMeta), NEW queue, NEW actor,
         DOMAIN store \subseteq DOMAIN meta \ Expired(meta),
         EvictExcessEntries(meta, queue, actor)
  PROVE  Cardinality(DOMAIN store') <= MaxItems
<1> DEFINE kept == Without(meta, Expired(meta))
           removeCount == Cardinality(DOMAIN kept) - MaxItems
<1>1. IsPartialFunction(kept, Key, KeyMeta)
  BY WithoutType
<1>2. PICK sorted \in SortedKeys(kept) :
        store' = Without(store, Range(SubSeq(sorted, 1, removeCount)))
  BY DEF EvictExcessEntries
<1> DEFINE victims == SubSeq(sorted, 1, removeCount)
<1>3. /\ victims \in Seq(DOMAIN kept)
      /\ Len(victims) = IF removeCount > 0 THEN removeCount ELSE 0
      /\ \A i, j \in 1..Len(victims) : victims[i] = victims[j] => i = j
  BY <1>1, VictimsType
<1>4. Range(victims) \subseteq DOMAIN kept
  BY <1>3 DEF Range
<1>5. IsFiniteSet(Range(victims)) /\ Cardinality(Range(victims)) = Len(victims)
  BY <1>3, RangeCardinality
<1>6. IsFiniteSet(DOMAIN kept) /\ Cardinality(DOMAIN kept) \in Nat
  BY <1>1, KeyAssumption, FS_Subset, FS_CardinalityType DEF IsPartialFunction
<1>7. DOMAIN store' \subseteq DOMAIN kept \ Range(victims)
  BY <1>2 DEF Without, Restrict
<1> HIDE DEF kept, victims
<1>8. Cardinality(DOMAIN kept \ Range(victims)) = Cardinality(DOMAIN kept) - Len(victims)
  <2>1. DOMAIN kept \cap Range(victims) = Range(victims)
    BY <1>4
  <2>2. Cardinality(DOMAIN kept \ Range(victims))
          = Cardinality(DOMAIN kept) - Cardinality(DOMAIN kept \cap Range(victims))
    BY <1>6, FS_Difference
  <2> QED BY <1>5, <2>1, <2>2
<1>9. /\ IsFiniteSet(DOMAIN kept \ Range(victims))
      /\ Cardinality(DOMAIN store') <= Cardinality(DOMAIN kept \ Range(victims))
      /\ Cardinality(DOMAIN store') \in Nat
  BY <1>6, <1>7, FS_Subset, FS_CardinalityType
<1> QED BY <1>3, <1>6, <1>8, <1>9, OptionAssumption

\* The step that ends the last set in flight is the one that has to evict enough.
LEMMA MaxItemsHeldStep ==
  TypeOK /\ StoreFresh /\ CleanBoot /\ StoreTracked /\ MaxItemsHeld /\ [Next]_vars => MaxItemsHeld'
<1> SUFFICES ASSUME TypeOK, StoreFresh, CleanBoot, StoreTracked, MaxItemsHeld, [Next]_vars,
                    CleanStart, Serving', ~SetInFlight'
             PROVE  Cardinality(DOMAIN store') <= MaxItems
  BY DEF MaxItemsHeld
<1>0. /\ IsPartialFunction(store, Key, Entry) /\ pending \in Seq(Command)
      /\ IsPartialFunction(keysMeta, Key, KeyMeta) /\ now \in Nat
  BY DEF TypeOK
<1>1. CASE ~Serving
  BY <1>1, ServesFromEmpty, FS_EmptySet, OptionAssumption
<1>2. ASSUME Serving, ~SetInFlight, DOMAIN store' \subseteq DOMAIN store
      PROVE  Cardinality(DOMAIN store') <= MaxItems
  <2>1. IsFiniteSet(DOMAIN store)
    BY <1>0, KeyAssumption, FS_Subset DEF IsPartialFunction
  <2>2. /\ Cardinality(DOMAIN store') <= Cardinality(DOMAIN store)
        /\ Cardinality(DOMAIN store) \in Nat /\ Cardinality(DOMAIN store') \in Nat
    BY <1>2, <2>1, FS_Subset, FS_CardinalityType
  <2>3. Cardinality(DOMAIN store) <= MaxItems
    BY <1>2 DEF MaxItemsHeld
  <2> QED BY <2>2, <2>3, OptionAssumption
<1>3. ASSUME NEW more \in Seq(Command), pending' = pending \o more PROVE ~SetInFlight
  <2>1. \A i \in 1..Len(pending) : i \in DOMAIN pending' /\ pending'[i] = pending[i]
    BY <1>0, <1>3, ConcatProperties
  <2>2. DOMAIN pending = 1..Len(pending)
    BY <1>0
  <2> QED BY <2>1, <2>2 DEF SetInFlight
<1>4. CASE Serving /\ SetReply
  <2> DEFINE k == Head(pending).key
             ttl == Head(pending).ttl
             meta == Put(keysMeta, k, NewMeta(1, MetaExpiresAt(ttl)))
  <2>1. pending # <<>> /\ Head(pending).op = "set"
    BY <1>4 DEF SetReply
  <2>2. k \in Key /\ ttl \in TtlArg /\ Head(pending).by \in Actor
    BY <2>1, HeadType DEF Command
  <2>3. MetaExpiresAt(ttl) \in Nat /\ ttl \in Nat
    BY <2>2, TtlType, OptionAssumption
  <2>4. NewMeta(1, MetaExpiresAt(ttl)) \in KeyMeta
    BY <1>0, <2>3 DEF NewMeta, KeyMeta
  <2>5. IsPartialFunction(meta, Key, KeyMeta)
    BY <1>0, <2>2, <2>4, PutType
  <2>6. EvictExcessEntries(meta, Tail(pending), Head(pending).by)
    BY <1>4 DEF SetReply
  <2>7. \A i \in 1..Len(Tail(pending)) : Tail(pending)[i].op # "set"
    <3>1. PICK more \in Seq(Command) : pending' = Tail(pending) \o more
      BY <2>1, <2>2, <2>5, <2>6, HeadType, EvictExcessEntriesQueue
    <3>2. Tail(pending) \in Seq(Command)
      BY <2>1, HeadType
    <3>3. \A i \in 1..Len(Tail(pending)) :
            i \in DOMAIN pending' /\ pending'[i] = Tail(pending)[i]
      BY <3>1, <3>2, ConcatProperties
    <3> QED BY <3>3 DEF SetInFlight
  <2>8. k \in DOMAIN meta /\ meta[k].expiresAt = MetaExpiresAt(ttl)
    BY DEF Put, NewMeta
  <2>9. \/ meta[k].expiresAt = NoExpiry
        \/ meta[k].expiresAt \in Nat /\ meta[k].expiresAt >= now
    <3>1. MetaExpiresAt(ttl) = NoExpiry \/ MetaExpiresAt(ttl) >= now
      BY <1>0, <2>3 DEF MetaExpiresAt
    <3> QED BY <2>3, <2>8, <3>1
  <2>10. \A l \in DOMAIN keysMeta : l # k => l \in DOMAIN meta /\ meta[l] = keysMeta[l]
    BY DEF Put
  <2>11. \A l \in Key : Tracked(l)
    BY <1>4 DEF StoreTracked
  <2> HIDE DEF meta
  <2>12. DOMAIN store \subseteq DOMAIN meta \ Expired(meta)
    \* every entry has metadata: that of k is new, and no other key is being set
    <3> SUFFICES ASSUME NEW l \in DOMAIN store
                 PROVE  l \in DOMAIN meta /\ l \notin Expired(meta)
      OBVIOUS
    <3>1. l \in Key /\ store[l].expiresAt \in Nat /\ store[l].expiresAt >= now
      BY <1>0 DEF StoreFresh, IsPartialFunction, Entry
    <3>2. CASE l = k
      BY <1>0, <2>8, <2>9, <3>2 DEF Expired
    <3>3. CASE l # k
      <4>1. ~BeingSet(l)
        <5> SUFFICES ASSUME NEW i \in DOMAIN pending, Sets(pending[i], l) PROVE FALSE
          BY DEF BeingSet
        <5>1. i \in 1..Len(pending)
          BY <1>0
        <5>2. i # 1
          BY <2>1, <3>3, HeadType DEF Sets
        <5>3. i - 1 \in 1..Len(Tail(pending)) /\ Tail(pending)[i - 1] = pending[i]
          BY <2>1, <5>1, <5>2, HeadType
        <5> QED BY <2>7, <5>3 DEF Sets
      <4>2. l \in DOMAIN keysMeta /\ Covers(keysMeta[l], store[l])
        BY <2>11, <3>1, <4>1 DEF Tracked, HasMeta
      <4>3. l \in DOMAIN meta /\ meta[l] = keysMeta[l]
        BY <2>10, <3>3, <4>2
      <4>4. meta[l].expiresAt \in Nat
        BY <1>0, <4>2, <4>3 DEF IsPartialFunction, KeyMeta
      <4> QED BY <1>0, <3>1, <4>2, <4>3, <4>4 DEF Expired, Covers
    <3> QED BY <3>2, <3>3
  <2> QED BY <2>5, <2>6, <2>12, EvictionSuffices
<1>5. ASSUME Serving, pending # <<>>, pending' = Tail(pending), Head(pending).op # "set"
      PROVE  ~SetInFlight
  <2> SUFFICES ASSUME NEW i \in DOMAIN pending, pending[i].op = "set" PROVE FALSE
    BY DEF SetInFlight
  <2>1. i - 1 \in 1..Len(Tail(pending)) /\ Tail(pending)[i - 1] = pending[i]
    BY <1>0, <1>5, HeadType
  <2>2. DOMAIN pending' = 1..Len(Tail(pending))
    BY <1>5, HeadType
  <2> QED BY <1>5, <2>1, <2>2 DEF SetInFlight
<1>6. CASE Serving /\ (GetReply \/ DelReply)
  BY <1>2, <1>5, <1>6 DEF GetReply, DelReply
<1>7. ASSUME Serving, NEW c \in Caller, NEW k \in Key, Get(c, k)
      PROVE  Cardinality(DOMAIN store') <= MaxItems
  <2> DEFINE data == IF k \in DOMAIN store THEN store[k].value ELSE Null
             cmd == [op |-> "get", by |-> c, key |-> k, data |-> data]
  <2>1. data \in Value \cup {Null}
    BY <1>0 DEF IsPartialFunction, Entry
  <2>2. cmd \in Command
    BY <2>1 DEF Command, Actor
  <2>3. pending' = Append(pending, cmd)
    BY <1>7 DEF Get
  <2> HIDE DEF cmd
  <2>4. pending' = pending \o <<cmd>> /\ <<cmd>> \in Seq(Command)
    BY <1>0, <2>2, <2>3
  <2> QED BY <1>2, <1>3, <1>7, <2>4 DEF Get
<1>8. ASSUME Serving, NEW c \in Caller, NEW k \in Key, Del(c, k)
      PROVE  Cardinality(DOMAIN store') <= MaxItems
  <2> DEFINE cmd == [op |-> "del", by |-> c, key |-> k, prefixed |-> FALSE]
  <2>1. cmd \in Command
    BY DEF Command, Actor
  <2>2. pending' = Append(pending, cmd) /\ DOMAIN store' \subseteq DOMAIN store
    BY <1>8 DEF Del, Without, Restrict
  <2> HIDE DEF cmd
  <2>3. pending' = pending \o <<cmd>> /\ <<cmd>> \in Seq(Command)
    BY <1>0, <2>1, <2>2
  <2> QED BY <1>2, <1>3, <1>8, <2>2, <2>3
<1>9. ASSUME Serving, NEW c \in Caller, NEW k \in Key, NEW v \in Value, NEW ttl \in TtlArg,
             Set(c, k, v, ttl)
      PROVE  FALSE
  <2> DEFINE cmd == [op |-> "set", by |-> c, key |-> k, ttl |-> ttl]
  <2>1. pending' = Append(pending, cmd) /\ cmd.op = "set"
    BY <1>9 DEF Set
  <2> HIDE DEF cmd
  <2>2. Len(pending) + 1 \in DOMAIN pending' /\ pending'[Len(pending) + 1] = cmd
    BY <1>0, <2>1
  <2> QED BY <2>1, <2>2 DEF SetInFlight
<1>10. ASSUME Serving, NEW i \in DOMAIN scans, ExpireKeys(i)
       PROVE  Cardinality(DOMAIN store') <= MaxItems
  <2>0. scans[i] \in Scan
    BY DEF TypeOK
  <2>1. scans[i].keys \in SUBSET Key /\ scans[i].by \in Actor
    BY <2>0 DEF Scan
  <2>2. PICK found \in Listings(scans[i].keys) :
          pending' = pending \o Dels(found, scans[i].by, TRUE)
    BY <1>10 DEF ExpireKeys, DelKeys
  <2>3. found \in Seq(Key)
    BY <2>1, ListingsType, SeqMonotonic
  <2>4. Dels(found, scans[i].by, TRUE) \in Seq(Command)
    BY <2>1, <2>3, DelsType
  <2>5. DOMAIN store' \subseteq DOMAIN store
    BY <1>10 DEF ExpireKeys, DelKeys, Without, Restrict
  <2> QED BY <1>2, <1>3, <1>10, <2>2, <2>4, <2>5
<1>11. ASSUME Serving, DOMAIN store' \subseteq DOMAIN store, pending' = pending
       PROVE  Cardinality(DOMAIN store') <= MaxItems
  BY <1>2, <1>11 DEF SetInFlight
<1>12. CASE Serving /\ ((\E c \in Caller, pattern \in Pattern : Expire(c, pattern))
                       \/ LifeCycle \/ Tick \/ UNCHANGED vars)
  <2>1. DOMAIN store' \subseteq DOMAIN store /\ pending' = pending
    BY <1>12 DEF Expire, LifeCycle, Start, Ready, Stop, Exit, Tick, vars, Serving,
                 Without, Restrict
  <2> QED BY <1>11, <1>12, <2>1
<1>13. ASSUME Serving, NEW i \in DOMAIN scans, LoadKeysMeta(i) PROVE FALSE
  BY <1>13 DEF LoadKeysMeta
<1> QED
  BY <1>1, <1>4, <1>6, <1>7, <1>8, <1>9, <1>10, <1>12, <1>13
     DEF Next, Call, Reply, ScanReply

\* Redis holds more than maxItems entries only while a set is in flight.
THEOREM NeverTooManyItems == SafeSpec => []MaxItemsHeld
<1>1. Init => TypeOK /\ StoreFresh /\ CleanBoot /\ StoreTracked /\ MaxItemsHeld
  BY EmptyType DEF Init, TypeOK, StoreFresh, CleanBoot, StoreTracked, MaxItemsHeld, Serving
<1>2. TypeOK /\ StoreFresh /\ CleanBoot /\ StoreTracked /\ MaxItemsHeld /\ [Next]_vars
        => TypeOK' /\ StoreFresh' /\ CleanBoot' /\ StoreTracked' /\ MaxItemsHeld'
  BY TypeStep, FreshStep, CleanBootStep, StoreTrackedStep, MaxItemsHeldStep
<1> QED BY <1>1, <1>2, PTL DEF SafeSpec

(***************************************************************************)
(* A restart with metadata.json                                            *)
(***************************************************************************)
\* A process that has ended has nothing under way.  While one that keeps the entries of the
\* last is starting, the scan of loadKeysMeta knows every entry of the store, and no
\* command is on its way before the scan is dealt with.
KeptBoot ==
  /\ phase = "down" => pending = <<>> /\ scans = <<>>
  /\ phase = "starting" /\ ~CleanStart =>
       \A i \in DOMAIN scans :
         scans[i].by = Boot /\ DOMAIN store \subseteq scans[i].keys /\ pending = <<>>

\* Every step keeps KeptBoot.
LEMMA KeptBootStep == TypeOK /\ KeptBoot /\ [Next]_vars => KeptBoot'
<1> SUFFICES ASSUME TypeOK, KeptBoot, [Next]_vars PROVE KeptBoot'
  OBVIOUS
<1>0. pending \in Seq(Command) /\ scans \in Seq(Scan)
  BY DEF TypeOK
<1>1. ASSUME NEW c \in Caller, Call(c) PROVE KeptBoot'
  BY <1>1 DEF KeptBoot, Call, Get, Set, Del, Expire, Serving
<1>2. CASE Reply
  <2>1. pending # <<>> /\ phase' = phase /\ scans' = scans
    BY <1>2 DEF Reply, GetReply, SetReply, DelReply
  <2> QED BY <2>1 DEF KeptBoot
<1>3. ASSUME NEW i \in DOMAIN scans, ExpireKeys(i) PROVE KeptBoot'
  <2>1. phase' = phase /\ scans # <<>>
    BY <1>0, <1>3 DEF ExpireKeys
  <2>2. ~(phase = "starting" /\ ~CleanStart)
    BY <1>3 DEF ExpireKeys, KeptBoot
  <2> QED BY <2>1, <2>2 DEF KeptBoot
<1>4. ASSUME NEW i \in DOMAIN scans, LoadKeysMeta(i) PROVE KeptBoot'
  BY <1>4 DEF LoadKeysMeta, KeptBoot
<1>5. CASE Start
  <2>1. scans' = <<[by |-> Boot, keys |-> DOMAIN store]>> /\ pending' = <<>> /\ store' = store
    BY <1>5 DEF Start, KeptBoot
  <2>2. \A i \in DOMAIN scans' : scans'[i] = [by |-> Boot, keys |-> DOMAIN store]
    BY <2>1
  <2> QED BY <1>5, <2>1, <2>2 DEF Start, KeptBoot
<1>6. CASE Ready \/ Stop \/ Exit
  BY <1>6 DEF Ready, Stop, Exit, KeptBoot
<1>7. CASE Tick \/ UNCHANGED vars
  <2>1. DOMAIN store' \subseteq DOMAIN store /\ UNCHANGED <<phase, pending, scans>>
    BY <1>7 DEF Tick, vars, Without, Restrict
  <2> QED BY <2>1 DEF KeptBoot
<1> QED
  BY <1>1, <1>2, <1>3, <1>4, <1>5, <1>6, <1>7 DEF Next, ScanReply, LifeCycle

\* The step of a starting process that ends its last scan is that of loadKeysMeta, and what it
\* leaves in the store the file has told it of.
LEMMA ReloadTracksStep ==
  ASSUME TypeOK, StoreFresh, KeptBoot, [Next]_vars, ~CleanStart, phase' = "starting",
         scans # <<>>, scans' = <<>>, FileCoversStore, NEW k \in Key
  PROVE  Tracked(k)'
<1>0. /\ pending \in Seq(Command) /\ scans \in Seq(Scan)
      /\ IsPartialFunction(metaFile, Key, KeyMeta)
  BY DEF TypeOK
<1>1. PICK i \in DOMAIN scans : LoadKeysMeta(i)
  <2>1. ~(\E c \in Caller : Call(c))
    <3>1. ASSUME NEW c \in Caller, NEW pattern \in Pattern, Expire(c, pattern) PROVE FALSE
      <4>1. PICK scan : scans' = Append(scans, scan)
        BY <3>1 DEF Expire
      <4> QED BY <1>0, <4>1
    <3> QED BY <3>1 DEF Call, Get, Set, Del
  <2>2. ~Reply /\ ~Ready /\ ~Stop /\ ~Exit /\ ~Tick /\ ~UNCHANGED vars
    BY DEF Reply, GetReply, SetReply, DelReply, Ready, Stop, Exit, Tick, vars
  <2>3. ~Start
    BY DEF Start
  <2>4. ASSUME NEW i \in DOMAIN scans, ExpireKeys(i) PROVE FALSE
    BY <2>4 DEF ExpireKeys, KeptBoot
  <2> QED BY <2>1, <2>2, <2>3, <2>4 DEF Next, ScanReply, LifeCycle
<1>2. /\ phase = "starting" /\ now' = now /\ metaFile' = metaFile
      /\ pending = <<>> /\ DOMAIN store \subseteq scans[i].keys
  BY <1>1 DEF LoadKeysMeta, KeptBoot
<1>3. CASE scans[i].keys = {}
  BY <1>1, <1>2, <1>3 DEF LoadKeysMeta, Tracked
<1>4. CASE scans[i].keys # {}
  <2>1. EvictExcessEntries(metaFile, pending, Boot)
    BY <1>1, <1>4 DEF LoadKeysMeta
  <2>2. \A j \in DOMAIN pending : FALSE
    BY <1>2
  <2>3. TrackedIn(store, metaFile, pending, now, k)
    BY <2>2 DEF TrackedIn, HasMetaIn, FileCoversStore
  <2>4. TrackedIn(store', keysMeta', pending', now, k)
    BY <1>0, <2>1, <2>3, EvictExcessEntriesTracks DEF Actor
  <2> QED BY <1>2, <2>4, TrackedInIsTracked
<1> QED BY <1>3, <1>4

\* A restart that finds a metadata.json as recent as the store tracks every entry that loading
\* and the eviction behind it leave (cache.service.ts:145-152).
THEOREM ReloadAlwaysTracks == SafeSpec => ReloadTracks
<1>1. Init => TypeOK /\ StoreFresh /\ KeptBoot
  BY EmptyType DEF Init, TypeOK, StoreFresh, KeptBoot
<1>2. TypeOK /\ StoreFresh /\ KeptBoot /\ [Next]_vars => TypeOK' /\ StoreFresh' /\ KeptBoot'
  BY TypeStep, FreshStep, KeptBootStep
<1>3. TypeOK /\ StoreFresh /\ KeptBoot /\ [Next]_vars =>
        [~CleanStart /\ phase' = "starting" /\ scans # <<>> /\ scans' = <<>> /\ FileCoversStore
           => \A k \in Key : Tracked(k)']_vars
  BY ReloadTracksStep
<1> QED BY <1>1, <1>2, <1>3, PTL DEF SafeSpec, ReloadTracks
=============================================================================
