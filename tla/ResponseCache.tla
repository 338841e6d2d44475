--------------------------- MODULE ResponseCache ----------------------------
(***************************************************************************)
(* Reads through the cache beside changes of the resource they read.       *)
(*                                                                         *)
(* A reader is findAndCacheUser (src/lib/auth/auth.service.ts) or a        *)
(* request under CacheInterceptor: look the key up, on a miss query the    *)
(* database, store what was found.  A writer is a create, update or delete *)
(* of a resource service (src/lib/resource/services): change the database, *)
(* then have CacheService expire what depends on the resource.  Neither    *)
(* holds a lock, and each of these steps is an await.                      *)
(*                                                                         *)
(* The resource is its version, and a response the version it was computed *)
(* from.                                                                   *)
(***************************************************************************)
EXTENDS CacheService

CONSTANTS
  Reader, Writer,   \* requests that read and that change the resource
  Related,          \* keys of responses that name the resource
  ChangeStrategy,   \* cache.changeStrategy
  MaxVersion        \* bound: the last version of the resource

ASSUME RequestAssumption == Reader \cup Writer = Caller /\ Reader \cap Writer = {}
ASSUME ResourceAssumption ==
  /\ MaxVersion \in Nat /\ Value = 0..MaxVersion
  /\ Related \subseteq Key /\ {Related, Key} \subseteq Pattern
  /\ DefaultTtl \in TtlArg
  /\ ChangeStrategy \in {"expire-all", "expire-related", "none"}

VARIABLES
  db,       \* the version in the database
  pc,       \* what each request does next
  wanted,   \* the key each reader looks up
  loaded,   \* the version each reader found in the database
  raced,    \* history: keys filled with a version the database no longer had
  lapsed    \* history: versions whose writer never expired anything

requestVars == <<db, pc, wanted, loaded, raced, lapsed>>
allVars == <<vars, requestVars>>

RInit ==
  /\ Init
  /\ db = 0
  /\ pc = [c \in Caller |-> "idle"]
  /\ wanted \in [Reader -> Related]
  /\ loaded = [r \in Reader |-> 0]
  /\ raced = {} /\ lapsed = {}

(***************************************************************************)
(* Readers                                                                 *)
(***************************************************************************)
Lookup(r, k) ==
  /\ pc[r] = "idle"
  /\ Get(r, k)
  /\ pc' = [pc EXCEPT ![r] = "looking"]
  /\ wanted' = [wanted EXCEPT ![r] = k]
  /\ UNCHANGED <<db, loaded, raced, lapsed>>

\* The answer to the get of r: a hit is the response, a miss needs the database.
Answer(r) ==
  /\ pending # <<>> /\ Head(pending).op = "get" /\ Head(pending).by = r
  /\ GetReply
  /\ pc' = [pc EXCEPT ![r] = IF Head(pending).data = Null THEN "missed" ELSE "idle"]
  /\ UNCHANGED <<db, wanted, loaded, raced, lapsed>>

Load(r) ==
  /\ Serving /\ pc[r] = "missed"
  /\ loaded' = [loaded EXCEPT ![r] = db]
  /\ pc' = [pc EXCEPT ![r] = "loaded"]
  /\ UNCHANGED <<vars, db, wanted, raced, lapsed>>

\* Mutant: the answer goes to the store without CacheService.
FillDirectly(r) ==
  /\ pc[r] = "loaded" /\ Serving
  /\ store' = Put(store, wanted[r], [value |-> loaded[r], expiresAt |-> now + DefaultTtl])
  /\ raced' = IF loaded[r] = db THEN raced \ {wanted[r]} ELSE raced \cup {wanted[r]}
  /\ pc' = [pc EXCEPT ![r] = "idle"]
  /\ UNCHANGED <<now, phase, keysMeta, metaFile, pending, scans, db, wanted, loaded, lapsed>>

Fill(r) ==
  /\ pc[r] = "loaded"
  /\ Set(r, wanted[r], loaded[r], DefaultTtl)
  /\ raced' = IF loaded[r] = db THEN raced \ {wanted[r]} ELSE raced \cup {wanted[r]}
  /\ pc' = [pc EXCEPT ![r] = "idle"]
  /\ UNCHANGED <<db, wanted, loaded, lapsed>>

(***************************************************************************)
(* Writers                                                                 *)
(***************************************************************************)
Save(w) ==
  /\ Serving /\ Idle(w) /\ pc[w] = "idle" /\ db < MaxVersion
  /\ db' = db + 1
  /\ pc' = [pc EXCEPT ![w] = "saved"]
  /\ UNCHANGED <<vars, wanted, loaded, raced, lapsed>>

\* A step between the save and the end of the request fails: the handler throws
\* and never reaches expireCache.
FailAfterSave(w) ==
  /\ Serving /\ pc[w] = "saved"
  /\ lapsed' = lapsed \cup {db}
  /\ pc' = [pc EXCEPT ![w] = "idle"]
  /\ UNCHANGED <<vars, db, wanted, loaded, raced>>

\* Mutant: the pattern of expire-related selects the other resources.
ChangedKeysOther == IF ChangeStrategy = "expire-all" THEN Key ELSE Key \ Related

ChangedKeys == IF ChangeStrategy = "expire-all" THEN Key ELSE Related

\* expireOnChange
ExpireOnChange(w) ==
  /\ pc[w] = "saved" /\ ChangeStrategy # "none"
  /\ Expire(w, ChangedKeys)
  /\ scans'[Len(scans')].by = IF ChangeDeferred THEN Deferred ELSE w
  /\ pc' = [pc EXCEPT ![w] = "idle"]
  /\ UNCHANGED <<db, wanted, loaded, raced, lapsed>>

(***************************************************************************)
(* The rest of the process                                                 *)
(***************************************************************************)
\* Replies and scans no reader acts on, and time
Background ==
  /\ SetReply \/ DelReply \/ (\E actor \in Actor : ScanReply(actor)) \/ Tick
  /\ UNCHANGED requestVars

Expiring == (\E w \in Writer : pc[w] = "saved") \/ scans # <<>>

Boots == (Start \/ Ready \/ Stop) /\ UNCHANGED requestVars

\* The end of the process is the end of its requests.
ExitAll ==
  /\ Exit
  /\ lapsed' = IF Expiring THEN lapsed \cup {db} ELSE lapsed
  /\ pc' = [c \in Caller |-> "idle"]
  /\ UNCHANGED <<db, wanted, loaded, raced>>

Read(r) == (\E k \in Related : Lookup(r, k)) \/ Answer(r) \/ Load(r) \/ Fill(r)

Write(w) == Save(w) \/ FailAfterSave(w) \/ ExpireOnChange(w)

RNext ==
  \/ \E r \in Reader : Read(r)
  \/ \E w \in Writer : Write(w)
  \/ Background
  \/ Boots
  \/ ExitAll

RSpec == RInit /\ [][RNext]_allVars

-----------------------------------------------------------------------------
\* The requests use the cache only as CacheService allows: what is proved of its
\* specification holds here.
UsesCacheService == SafeSpec

Stale(k) == k \in Related /\ k \in DOMAIN store /\ store[k].value < db

Explained(k) ==
  \/ \E w \in Writer : pc[w] = "saved"
  \/ \E i \in DOMAIN scans : scans[i].by # Boot /\ k \in scans[i].keys
  \/ k \in raced
  \/ \E v \in lapsed : store[k].value < v

\* A response older than the database is in the cache only while a writer has yet to
\* expire it, because its reader queried the database before the change and stored
\* the answer after it, or because the writer failed or the process died between its
\* save and its expiration.
StaleIsExplained == \A k \in Key : Stale(k) => Explained(k)

\* After a clean start nothing an earlier process failed to expire is served.
CleanStartIsFresh ==
  [][CleanStart /\ ~Serving /\ Serving' => \A k \in Key : ~Stale(k)']_allVars
=============================================================================
