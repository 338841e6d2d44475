---------------------------- MODULE CacheService ----------------------------
(***************************************************************************)
(* CacheService (src/lib/cache/cache.service.ts) over the Redis store, the *)
(* default of CACHE_TYPE.                                                  *)
(*                                                                         *)
(* The service keeps two states that no transaction ties together: the     *)
(* entries, in Redis, and keysMeta, in the memory of the process.  Every   *)
(* operation of the service awaits Redis between the two.  A call is       *)
(* therefore two kinds of step here: the one that issues Redis commands,   *)
(* and the one that runs the continuation when a reply arrives.            *)
(*                                                                         *)
(* Redis and its client are external.  All commands of a process share one *)
(* connection: they take effect in the order they are issued, and replies  *)
(* come back in that order, so a command is applied to store when it is    *)
(* issued and its reply waits in the queue pending.  A key scan is the     *)
(* exception: its promise resolves on the end event of a stream, some time *)
(* after the reply, and its results wait in scans.                         *)
(***************************************************************************)
EXTENDS Integers, FiniteSets, Sequences, Functions

CONSTANTS
  Key,              \* cache keys, unprefixed, as callers pass them
  Caller,           \* asynchronous flows of control that use the service
  Value,            \* what callers cache
  Null,             \* "not found"
  Boot,             \* the flow of control of onModuleInit
  Deferred,         \* the owner of promises nobody awaits
  Pattern,          \* patterns that can be expired: the sets of keys they match
  TtlArg,           \* values of the ttl argument of set
  DefaultTtl,       \* cache.ttl, used by service and store alike
  MaxItems,         \* cache.maxItems
  EvictionStrategy, \* cache.evictionStrategy
  EvictionDeferred, \* cache.evictionDeferred
  ChangeDeferred,   \* cache.changeDeferred
  CleanStart,       \* cache.cleanStart
  MaxNow,           \* bound: the last instant of the clock
  MaxUses,          \* bound: no lookups of a key used this often
  MaxScans          \* bound: scans under way at a time

ASSUME KeyAssumption == IsFiniteSet(Key) /\ Pattern \subseteq SUBSET Key
ASSUME ActorAssumption ==
  Boot \notin Caller /\ Deferred \notin Caller /\ Boot # Deferred
ASSUME ValueAssumption == Null \notin Value
ASSUME OptionAssumption ==
  /\ TtlArg \subseteq Nat
  /\ DefaultTtl \in Nat \ {0}
  /\ MaxItems \in Nat
  /\ EvictionStrategy \in {"LRU", "LFU", "FIFO"}
  /\ {EvictionDeferred, ChangeDeferred, CleanStart} \subseteq BOOLEAN
ASSUME BoundAssumption == MaxNow \in Nat \ {0} /\ MaxUses \in Nat /\ MaxScans \in Nat

VARIABLES
  now,       \* Date.now() and the clock of Redis, in seconds
  phase,     \* of the process: down, starting, running, stopping
  store,     \* the entries Redis holds
  keysMeta,  \* the metadata the process holds
  metaFile,  \* metadata.json
  pending,   \* commands whose reply has not been processed, oldest first
  scans      \* key scans not yet reported

vars == <<now, phase, store, keysMeta, metaFile, pending, scans>>

Actor == Caller \cup {Boot, Deferred}

\* expiresAt is undefined or 0 for an entry that never expires: line 299 takes
\* both for false.
NoExpiry == 0

Entry == [value : Value, expiresAt : Nat]

KeyMeta == [usedCount : Nat, createdAt : Nat, lastUsedAt : Nat, expiresAt : Nat]

IsPartialFunction(f, S, T) == DOMAIN f \subseteq S /\ f \in [DOMAIN f -> T]

\* A del names its key with or without the prefix: expire passes on the prefixed
\* keys the store reports, and keysMeta has no entry under such a name.
Command ==
  [op : {"get"}, by : Actor, key : Key, data : Value \cup {Null}]
    \cup [op : {"set"}, by : Actor, key : Key, ttl : TtlArg]
    \cup [op : {"del"}, by : Actor, key : Key, prefixed : BOOLEAN]

Scan == [by : Actor, keys : SUBSET Key]

(***************************************************************************)
(* Helpers                                                                 *)
(***************************************************************************)
\* f[k] = v
Put(f, k, v) == [x \in DOMAIN f \cup {k} |-> IF x = k THEN v ELSE f[x]]

\* delete f[k], for every k in S
Without(f, S) == Restrict(f, DOMAIN f \ S)

\* c awaits no reply
Idle(c) ==
  /\ \A i \in DOMAIN pending : pending[i].by # c
  /\ \A i \in DOMAIN scans : scans[i].by # c

Serving == phase \in {"running", "stopping"}

\* Every order in which the members of S can be listed.
Listings(S) ==
  {s \in [1..Cardinality(S) -> S] : \A i, j \in DOMAIN s : s[i] = s[j] => i = j}

Dels(keys, by, prefixed) ==
  [i \in DOMAIN keys |->
     [op |-> "del", by |-> by, key |-> keys[i], prefixed |-> prefixed]]

\* The ttl the store applies (line 118: 0 reaches it as undefined), and the
\* expiration time the metadata records.
StoreTtl(ttl) == IF ttl = 0 THEN DefaultTtl ELSE ttl
\* Mutant: the ttl of the call is forgotten.
MetaExpiresAtDefault(ttl) == IF ttl = 0 THEN NoExpiry ELSE now + DefaultTtl
MetaExpiresAt(ttl) == IF ttl = 0 THEN NoExpiry ELSE now + ttl

(***************************************************************************)
(* Eviction                                                                *)
(***************************************************************************)
\* The comparators of sortLRU, sortLFU and sortFIFO: m may be listed before n.
\* The score of sortLFU is Infinity for an entry created this very instant, and
\* the NaN of comparing two such entries counts as a tie.
LRUOrder(m, n) == m.lastUsedAt <= n.lastUsedAt

FIFOOrder(m, n) == m.createdAt <= n.createdAt

LFUOrder(m, n) ==
  \/ n.createdAt = now
  \/ /\ m.createdAt # now
     /\ m.usedCount * (now - n.createdAt) <= n.usedCount * (now - m.createdAt)

EvictionOrder(m, n) ==
  CASE EvictionStrategy = "LRU"  -> LRUOrder(m, n)
    [] EvictionStrategy = "LFU"  -> LFUOrder(m, n)
    [] EvictionStrategy = "FIFO" -> FIFOOrder(m, n)

\* The keys of meta as the sort of the strategy may list them.  The sort keeps
\* ties in the insertion order of the object; here ties fall either way.
SortedKeys(meta) ==
  {s \in Listings(DOMAIN meta) :
     \A i, j \in DOMAIN s : i < j => EvictionOrder(meta[s[i]], meta[s[j]])}

\* Mutant: an entry counts as expired in the last instant of its life.
ExpiredEarly(meta) ==
  {k \in DOMAIN meta : meta[k].expiresAt # NoExpiry /\ meta[k].expiresAt <= now}

Expired(meta) ==
  {k \in DOMAIN meta : meta[k].expiresAt # NoExpiry /\ meta[k].expiresAt < now}

\* Mutant: one entry too few is evicted.
EvictOneLess(meta, queue, actor) ==
  LET kept == Without(meta, Expired(meta))
      removeCount == Cardinality(DOMAIN kept) - MaxItems - 1
      by == IF EvictionDeferred THEN Deferred ELSE actor
  IN  /\ keysMeta' = kept
      /\ \E sorted \in SortedKeys(kept) :
           LET victims == SubSeq(sorted, 1, removeCount)
           IN  /\ store' = Without(store, Range(victims))
               /\ pending' = queue \o Dels(victims, by, FALSE)

\* evictExcessEntries, run by actor, on the metadata meta and with queue the
\* commands already waiting.  All the del calls are issued in the same turn, and
\* evict awaits their replies unless eviction is deferred.
EvictExcessEntries(meta, queue, actor) ==
  LET kept == Without(meta, Expired(meta))
      removeCount == Cardinality(DOMAIN kept) - MaxItems
      by == IF EvictionDeferred THEN Deferred ELSE actor
  IN  /\ keysMeta' = kept
      /\ \E sorted \in SortedKeys(kept) :
           LET victims == SubSeq(sorted, 1, removeCount)
           IN  /\ store' = Without(store, Range(victims))
               /\ pending' = queue \o Dels(victims, by, FALSE)

(***************************************************************************)
(* Calls of the service                                                    *)
(***************************************************************************)
Get(c, k) ==
  /\ Serving /\ Idle(c)
  /\ k \in DOMAIN keysMeta => keysMeta[k].usedCount < MaxUses
  /\ LET data == IF k \in DOMAIN store THEN store[k].value ELSE Null
     IN  pending' = Append(pending, [op |-> "get", by |-> c, key |-> k, data |-> data])
  /\ UNCHANGED <<now, phase, store, keysMeta, metaFile, scans>>

Set(c, k, v, ttl) ==
  /\ Serving /\ Idle(c)
  /\ store' = Put(store, k, [value |-> v, expiresAt |-> now + StoreTtl(ttl)])
  /\ pending' = Append(pending, [op |-> "set", by |-> c, key |-> k, ttl |-> ttl])
  /\ UNCHANGED <<now, phase, keysMeta, metaFile, scans>>

Del(c, k) ==
  /\ Serving /\ Idle(c)
  /\ store' = Without(store, {k})
  /\ pending' = Append(pending, [op |-> "del", by |-> c, key |-> k, prefixed |-> FALSE])
  /\ UNCHANGED <<now, phase, keysMeta, metaFile, scans>>

\* expire, up to the scan; awaited by c, or by nobody when expireOnChange defers it
Expire(c, pattern) ==
  /\ Serving /\ Idle(c)
  /\ Len(scans) < MaxScans
  /\ \E by \in {c} \cup (IF ChangeDeferred THEN {Deferred} ELSE {}) :
       scans' = Append(scans, [by |-> by, keys |-> pattern \cap DOMAIN store])
  /\ UNCHANGED <<now, phase, store, keysMeta, metaFile, pending>>

(***************************************************************************)
(* Continuations of the calls, run when their reply arrives                *)
(***************************************************************************)
NewMeta(usedCount, expiresAt) ==
  [usedCount |-> usedCount, createdAt |-> now, lastUsedAt |-> now,
   expiresAt |-> expiresAt]

Used(meta) ==
  [usedCount |-> meta.usedCount + 1, createdAt |-> meta.createdAt, lastUsedAt |-> now,
   expiresAt |-> meta.expiresAt]

\* Mutant: the promise of a miss is never resolved.
GetReplyHit ==
  /\ pending # <<>> /\ Head(pending).op = "get" /\ Head(pending).data # Null
  /\ LET k == Head(pending).key
         meta == IF k \in DOMAIN keysMeta THEN keysMeta[k] ELSE NewMeta(0, NoExpiry)
     IN  keysMeta' = Put(keysMeta, k, Used(meta))
  /\ pending' = Tail(pending)
  /\ UNCHANGED <<now, phase, store, metaFile, scans>>

\* get, after its await: a hit counts as a use.  A key whose metadata is gone gets
\* new metadata, without an expiration time.
GetReply ==
  /\ pending # <<>> /\ Head(pending).op = "get"
  /\ LET k == Head(pending).key
         meta == IF k \in DOMAIN keysMeta THEN keysMeta[k] ELSE NewMeta(0, NoExpiry)
     IN  keysMeta' = IF Head(pending).data = Null THEN keysMeta
                     ELSE Put(keysMeta, k, Used(meta))
  /\ pending' = Tail(pending)
  /\ UNCHANGED <<now, phase, store, metaFile, scans>>

\* set, after its await: new metadata, then evict
SetReply ==
  /\ pending # <<>> /\ Head(pending).op = "set"
  /\ LET meta == NewMeta(1, MetaExpiresAt(Head(pending).ttl))
     IN  EvictExcessEntries(Put(keysMeta, Head(pending).key, meta),
                            Tail(pending), Head(pending).by)
  /\ UNCHANGED <<now, phase, metaFile, scans>>

\* del, after its await
DelReply ==
  /\ pending # <<>> /\ Head(pending).op = "del"
  /\ keysMeta' = IF Head(pending).prefixed THEN keysMeta
                 ELSE Without(keysMeta, {Head(pending).key})
  /\ pending' = Tail(pending)
  /\ UNCHANGED <<now, phase, store, metaFile, scans>>

Reply == GetReply \/ SetReply \/ DelReply

\* Every del of the keys a scan found, issued in the same turn
DelKeys(scan) ==
  /\ store' = Without(store, scan.keys)
  /\ \E found \in Listings(scan.keys) :
       pending' = pending \o Dels(found, scan.by, TRUE)
  /\ UNCHANGED keysMeta

\* expire, after its scan
ExpireKeys(i) ==
  /\ scans[i].by = Boot => CleanStart
  /\ DelKeys(scans[i])
  /\ scans' = SubSeq(scans, 1, i - 1) \o SubSeq(scans, i + 1, Len(scans))
  /\ UNCHANGED <<now, phase, metaFile>>

(***************************************************************************)
(* Life of the process                                                     *)
(***************************************************************************)
\* onModuleInit lists the keys of the store, to delete them or to find out
\* whether there is metadata worth loading.
Start ==
  /\ phase = "down"
  /\ phase' = "starting"
  /\ scans' = <<[by |-> Boot, keys |-> DOMAIN store]>>
  /\ UNCHANGED <<now, store, keysMeta, metaFile, pending>>

\* Mutant: what the file holds is dropped.
LoadNothing(i) ==
  /\ phase = "starting" /\ scans[i].by = Boot /\ ~CleanStart
  /\ IF scans[i].keys = {}
     THEN UNCHANGED <<store, keysMeta, pending>>
     ELSE EvictExcessEntries(keysMeta, pending, Boot)
  /\ scans' = <<>>
  /\ UNCHANGED <<now, phase, metaFile>>

\* loadKeysMeta, after its scan.  A missing or unreadable file loads as no keys.
LoadKeysMeta(i) ==
  /\ phase = "starting" /\ scans[i].by = Boot /\ ~CleanStart
  /\ IF scans[i].keys = {}
     THEN UNCHANGED <<store, keysMeta, pending>>
     ELSE EvictExcessEntries(metaFile, pending, Boot)
  /\ scans' = <<>>
  /\ UNCHANGED <<now, phase, metaFile>>

\* Mutant: nobody awaits onModuleInit.
ReadyAtOnce ==
  /\ phase = "starting"
  /\ phase' = "running"
  /\ UNCHANGED <<now, store, keysMeta, metaFile, pending, scans>>

\* Requests are served once every onModuleInit has returned.
Ready ==
  /\ phase = "starting" /\ Idle(Boot)
  /\ phase' = "running"
  /\ UNCHANGED <<now, store, keysMeta, metaFile, pending, scans>>

\* onModuleDestroy, while requests are still served.  The write of the file may
\* fail, or be cut short by the end of the process and leave nothing to load.
Stop ==
  /\ phase = "running"
  /\ phase' = "stopping"
  /\ IF CleanStart THEN UNCHANGED metaFile
     ELSE metaFile' \in {keysMeta, metaFile, <<>>}
  /\ UNCHANGED <<now, store, keysMeta, pending, scans>>

\* The process ends, after onModuleDestroy or by a crash.
Exit ==
  /\ phase # "down"
  /\ phase' = "down"
  /\ keysMeta' = <<>> /\ pending' = <<>> /\ scans' = <<>>
  /\ UNCHANGED <<now, store, metaFile>>

\* Time passes, and Redis drops the entries that outlived their ttl.
Tick ==
  /\ now < MaxNow
  /\ now' = now + 1
  /\ store' = Without(store, {k \in DOMAIN store : store[k].expiresAt < now'})
  /\ UNCHANGED <<phase, keysMeta, metaFile, pending, scans>>

-----------------------------------------------------------------------------
Init ==
  /\ now = 1
  /\ phase = "down"
  /\ store = <<>> /\ keysMeta = <<>> /\ metaFile = <<>>
  /\ pending = <<>> /\ scans = <<>>

Call(c) ==
  \/ \E k \in Key : Get(c, k) \/ Del(c, k)
  \/ \E k \in Key, v \in Value, ttl \in TtlArg : Set(c, k, v, ttl)
  \/ \E pattern \in Pattern : Expire(c, pattern)

ScanReply(actor) ==
  \E i \in DOMAIN scans : scans[i].by = actor /\ (ExpireKeys(i) \/ LoadKeysMeta(i))

LifeCycle == Start \/ Ready \/ Stop \/ Exit

Next ==
  \/ \E c \in Caller : Call(c)
  \/ Reply
  \/ \E actor \in Actor : ScanReply(actor)
  \/ LifeCycle
  \/ Tick

\* Redis answers, every scan ends, and the event loop runs what that wakes up.
Fairness == WF_vars(Reply) /\ \A actor \in Actor : WF_vars(ScanReply(actor))

SafeSpec == Init /\ [][Next]_vars

Spec == SafeSpec /\ Fairness

-----------------------------------------------------------------------------
TypeOK ==
  /\ now \in Nat \ {0}
  /\ phase \in {"down", "starting", "running", "stopping"}
  /\ IsPartialFunction(store, Key, Entry)
  /\ IsPartialFunction(keysMeta, Key, KeyMeta)
  /\ IsPartialFunction(metaFile, Key, KeyMeta)
  /\ pending \in Seq(Command)
  /\ scans \in Seq(Scan)

(***************************************************************************)
(* What the service promises                                               *)
(***************************************************************************)
Sets(command, k) == command.op = "set" /\ command.key = k

Writes(command, k) == command.op \in {"set", "del"} /\ command.key = k

\* meta outlives entry: evictExcessEntries cannot forget an entry Redis still holds.
Covers(meta, entry) == meta.expiresAt = NoExpiry \/ meta.expiresAt >= entry.expiresAt

\* The last write of k still in flight is the set that stored its entry.
BeingSet(k) ==
  \E i \in DOMAIN pending :
    /\ Sets(pending[i], k)
    /\ store[k].expiresAt <= now + StoreTtl(pending[i].ttl)
    /\ \A j \in DOMAIN pending : j > i => ~Writes(pending[j], k)

HasMeta(k) ==
  /\ \A i \in DOMAIN pending : ~Writes(pending[i], k)
  /\ k \in DOMAIN keysMeta
  /\ Covers(keysMeta[k], store[k])

\* keysMeta knows the entry of k, or is about to.
Tracked(k) == k \in DOMAIN store => BeingSet(k) \/ HasMeta(k)

SetInFlight == \E i \in DOMAIN pending : pending[i].op = "set"

\* Every entry in Redis has metadata that lasts at least as long as the entry, or a
\* set that will write it: no entry escapes the limit of maxItems because two
\* operations on its key, an eviction and an expiration crossed (lines 121-130, 139,
\* 304-306).
StoreTracked == Serving /\ CleanStart => \A k \in Key : Tracked(k)

\* Redis holds more than maxItems entries only while a set that will evict some is
\* in flight, whatever gets, dels, expirations and deferred evictions run beside it.
MaxItemsHeld ==
  Serving /\ CleanStart => SetInFlight \/ Cardinality(DOMAIN store) <= MaxItems

\* Without cleanStart, entries of an earlier process may be in Redis without
\* metadata.  Even then no step of a running process makes it lose track of an entry.
StaysTracked == [][\A k \in Key : Serving /\ Serving' /\ Tracked(k) => Tracked(k)']_vars

FileCoversStore ==
  \A k \in DOMAIN store : k \in DOMAIN metaFile /\ Covers(metaFile[k], store[k])

\* A restart that finds a metadata.json as recent as the store tracks every entry
\* that loading (and the eviction that follows it, line 152) leaves in the store.
ReloadTracks ==
  [][~CleanStart /\ phase' = "starting" /\ scans # <<>> /\ scans' = <<>> /\ FileCoversStore
     => \A k \in Key : Tracked(k)']_vars

\* Every call of the service returns while the process lives, those that await
\* the deletion of what they evict or expire included.
CallsReturn == \A c \in Caller : Serving /\ ~Idle(c) ~> Idle(c)
=============================================================================
