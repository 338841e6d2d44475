------------------------ MODULE ResponseCacheProofs -------------------------
(***************************************************************************)
(* Proofs about ResponseCache, for every value of its constants.           *)
(***************************************************************************)
EXTENDS ResponseCache, CacheServiceProofs

(***************************************************************************)
(* Requests use the cache as CacheService allows.                          *)
(***************************************************************************)
RequestTypeOK ==
  /\ db \in Value
  /\ pc \in [Caller -> {"idle", "looking", "missed", "loaded", "saved"}]
  /\ wanted \in [Reader -> Related]
  /\ loaded \in [Reader -> Value]

\* The variables of the requests begin with their types.
LEMMA RequestTypes == RInit => RequestTypeOK
<1> SUFFICES ASSUME RInit PROVE RequestTypeOK
  OBVIOUS
<1>1. 0 \in Value
  BY ResourceAssumption
<1> QED BY <1>1 DEF RInit, RequestTypeOK

\* Every step keeps the types of the variables of the requests.
LEMMA RequestTypesStep == RequestTypeOK /\ [RNext]_allVars => RequestTypeOK'
<1> SUFFICES ASSUME RequestTypeOK, [RNext]_allVars PROVE RequestTypeOK'
  OBVIOUS
<1> USE DEF RequestTypeOK
<1>0. Reader \subseteq Caller /\ Writer \subseteq Caller
      /\ Value = 0..MaxVersion /\ MaxVersion \in Nat
  BY RequestAssumption, ResourceAssumption
<1>1. ASSUME NEW r \in Reader, Read(r) PROVE RequestTypeOK'
  <2>1. ASSUME NEW k \in Related, Lookup(r, k) PROVE RequestTypeOK'
    BY <1>0, <2>1 DEF Lookup
  <2>2. CASE Answer(r)
    BY <1>0, <2>2 DEF Answer
  <2>3. CASE Load(r)
    BY <1>0, <2>3 DEF Load
  <2>4. CASE Fill(r)
    BY <1>0, <2>4 DEF Fill
  <2> QED BY <1>1, <2>1, <2>2, <2>3, <2>4 DEF Read
<1>2. ASSUME NEW w \in Writer, Write(w) PROVE RequestTypeOK'
  <2>1. CASE Save(w)
    BY <1>0, <2>1 DEF Save
  <2>2. CASE FailAfterSave(w) \/ ExpireOnChange(w)
    BY <1>0, <2>2 DEF FailAfterSave, ExpireOnChange
  <2> QED BY <1>2, <2>1, <2>2 DEF Write
<1>3. CASE Background \/ Boots \/ UNCHANGED allVars
  BY <1>3 DEF Background, Boots, allVars, requestVars
<1>4. CASE ExitAll
  BY <1>4 DEF ExitAll
<1> QED BY <1>1, <1>2, <1>3, <1>4 DEF RNext

\* Every step of a request is a step of the cache, or none of its business.
LEMMA RequestStep == RequestTypeOK /\ [RNext]_allVars => [Next]_vars
<1> SUFFICES ASSUME RequestTypeOK, [RNext]_allVars PROVE [Next]_vars
  OBVIOUS
<1>0. Reader \subseteq Caller /\ Writer \subseteq Caller /\ Related \subseteq Key
      /\ ChangedKeys \in Pattern /\ DefaultTtl \in TtlArg
  BY RequestAssumption, ResourceAssumption DEF ChangedKeys
<1>1. ASSUME NEW c \in Caller, Call(c) PROVE Next
  BY <1>1 DEF Next
<1>2. ASSUME NEW r \in Reader, Read(r) PROVE [Next]_vars
  <2>1. ASSUME NEW k \in Related, Lookup(r, k) PROVE Call(r)
    BY <1>0, <2>1 DEF Lookup, Call
  <2>2. CASE Answer(r)
    BY <2>2 DEF Answer, Next, Reply
  <2>3. CASE Load(r)
    BY <2>3 DEF Load
  <2>4. CASE Fill(r)
    <3>1. Set(r, wanted[r], loaded[r], DefaultTtl)
      BY <2>4 DEF Fill
    <3>2. wanted[r] \in Key /\ loaded[r] \in Value
      BY <1>0, <1>2 DEF RequestTypeOK
    <3> QED BY <1>0, <1>1, <3>1, <3>2 DEF Call
  <2> QED BY <1>0, <1>1, <1>2, <2>1, <2>2, <2>3, <2>4 DEF Read
<1>3. ASSUME NEW w \in Writer, Write(w) PROVE [Next]_vars
  <2>1. CASE Save(w) \/ FailAfterSave(w)
    BY <2>1 DEF Save, FailAfterSave
  <2>2. CASE ExpireOnChange(w)
    <3>1. Expire(w, ChangedKeys)
      BY <2>2 DEF ExpireOnChange
    <3> QED BY <1>0, <1>1, <3>1 DEF Call
  <2> QED BY <1>0, <1>1, <1>3, <2>1, <2>2 DEF Write
<1>4. CASE Background
  BY <1>4, Zenon DEF Background, Next, Reply
<1>5. CASE Boots \/ ExitAll
  BY <1>5 DEF Boots, ExitAll, Next, LifeCycle
<1>6. CASE UNCHANGED allVars
  BY <1>6 DEF allVars
<1> QED BY <1>2, <1>3, <1>4, <1>5, <1>6 DEF RNext

\* The variables of the requests always have their types.
LEMMA RequestTypeCorrect == RSpec => []RequestTypeOK
BY RequestTypes, RequestTypesStep, PTL DEF RSpec

\* UsesCacheService: readers and writers, whatever they do and wherever they fail,
\* take no step that CacheService does not specify.
THEOREM RequestsImplementCache == RSpec => UsesCacheService
<1>1. RInit => Init
  BY DEF RInit
<1> QED
  BY <1>1, RequestStep, RequestTypeCorrect, PTL DEF RSpec, UsesCacheService, SafeSpec

(***************************************************************************)
(* Stale responses                                                         *)
(***************************************************************************)
\* The entries left in the cache are entries it held.
OnlyRemoves == \A k \in DOMAIN store' : k \in DOMAIN store /\ store'[k] = store[k]

\* An eviction only removes entries.
LEMMA EvictOnlyRemoves ==
  ASSUME NEW meta, NEW queue, NEW actor, EvictExcessEntries(meta, queue, actor)
  PROVE  OnlyRemoves
<1>1. PICK gone : store' = Without(store, gone)
  BY DEF EvictExcessEntries
<1> QED BY <1>1 DEF OnlyRemoves, Without, Restrict

\* Removing one scan keeps the others, and adds none.
LEMMA RemoveAt ==
  ASSUME NEW S, NEW s \in Seq(S), NEW i \in DOMAIN s
  PROVE  LET r == SubSeq(s, 1, i - 1) \o SubSeq(s, i + 1, Len(s))
         IN  /\ \A j \in DOMAIN s : j # i => \E m \in DOMAIN r : r[m] = s[j]
             /\ \A m \in DOMAIN r : \E j \in DOMAIN s : r[m] = s[j]
<1> DEFINE a == SubSeq(s, 1, i - 1)
           b == SubSeq(s, i + 1, Len(s))
           r == a \o b
<1>1. i \in 1..Len(s) /\ Len(s) \in Nat /\ DOMAIN s = 1..Len(s)
  OBVIOUS
<1>2. /\ a \in Seq(S) /\ Len(a) = i - 1 /\ \A j \in 1..i - 1 : a[j] = s[j]
      /\ b \in Seq(S) /\ Len(b) = Len(s) - i
      /\ \A j \in 1..Len(s) - i : b[j] = s[i + j]
  BY <1>1
<1> HIDE DEF a, b
<1>3. /\ DOMAIN r = 1..Len(s) - 1
      /\ \A j \in 1..i - 1 : r[j] = s[j]
      /\ \A j \in i..Len(s) - 1 : r[j] = s[j + 1]
  <2>1. /\ r \in Seq(S) /\ Len(r) = Len(s) - 1 /\ DOMAIN r = 1..Len(s) - 1
        /\ \A j \in 1..Len(s) - 1 : r[j] = IF j <= i - 1 THEN a[j] ELSE b[j - (i - 1)]
    <3>1. r \in Seq(S) /\ Len(r) = Len(a) + Len(b)
          /\ \A j \in 1..Len(a) + Len(b) : r[j] = IF j <= Len(a) THEN a[j] ELSE b[j - Len(a)]
      BY <1>2
    <3>2. Len(a) + Len(b) = Len(s) - 1
      BY <1>1, <1>2
    <3> HIDE DEF r
    <3> QED BY <1>2, <3>1, <3>2
  <2>2. ASSUME NEW j \in i..Len(s) - 1 PROVE r[j] = s[j + 1]
    <3>1. j - (i - 1) \in 1..Len(s) - i /\ i + (j - (i - 1)) = j + 1 /\ ~(j <= i - 1)
          /\ j \in 1..Len(s) - 1
      BY <1>1
    <3> HIDE DEF r
    <3>2. r[j] = b[j - (i - 1)]
      BY <2>1, <3>1
    <3> QED BY <1>2, <3>1, <3>2
  <2>3. ASSUME NEW j \in 1..i - 1 PROVE r[j] = s[j]
    <3> HIDE DEF r
    <3> QED BY <1>1, <1>2, <2>1
  <2> QED BY <2>1, <2>2, <2>3
<1> HIDE DEF r
<1>4. ASSUME NEW j \in 1..Len(s), j # i PROVE \E m \in DOMAIN r : r[m] = s[j]
  <2>1. CASE j < i
    BY <1>1, <1>3, <2>1
  <2>2. CASE j > i
    <3>1. j - 1 \in i..Len(s) - 1 /\ (j - 1) + 1 = j
      BY <1>1, <2>2
    <3> QED BY <1>1, <1>3, <3>1
  <2> QED BY <1>1, <1>4, <2>1, <2>2
<1>5. ASSUME NEW m \in DOMAIN r PROVE \E j \in 1..Len(s) : r[m] = s[j]
  <2>1. CASE m < i
    BY <1>1, <1>3, <2>1
  <2>2. CASE m >= i
    <3>1. m + 1 \in 1..Len(s) /\ m \in i..Len(s) - 1
      BY <1>1, <1>3, <2>2
    <3> QED BY <1>3, <3>1
  <2> QED BY <1>1, <1>3, <2>1, <2>2
<1> QED BY <1>1, <1>4, <1>5 DEF r, a, b

\* A process that does not serve has no scan but its own.
OnlyBootScans == ~Serving => \A i \in DOMAIN scans : scans[i].by = Boot

\* Every step keeps OnlyBootScans.
LEMMA BootScansStep == TypeOK /\ OnlyBootScans /\ [Next]_vars => OnlyBootScans'
<1> SUFFICES ASSUME TypeOK, OnlyBootScans, [Next]_vars PROVE OnlyBootScans'
  OBVIOUS
<1> USE DEF OnlyBootScans, Serving
<1>1. ASSUME NEW c \in Caller, Call(c) PROVE OnlyBootScans'
  <2>1. Serving /\ UNCHANGED phase
    BY <1>1 DEF Call, Get, Set, Del, Expire
  <2> QED BY <2>1
<1>2. CASE Reply
  BY <1>2 DEF Reply, GetReply, SetReply, DelReply
<1>3. ASSUME NEW i \in DOMAIN scans, ExpireKeys(i) PROVE OnlyBootScans'
  <2>1. \A m \in DOMAIN scans' : \E j \in DOMAIN scans : scans'[m] = scans[j]
    BY <1>3, RemoveAt DEF ExpireKeys, TypeOK
  <2> QED BY <1>3, <2>1 DEF ExpireKeys
<1>4. ASSUME NEW i \in DOMAIN scans, LoadKeysMeta(i) PROVE OnlyBootScans'
  BY <1>4 DEF LoadKeysMeta
<1>5. CASE LifeCycle
  BY <1>5 DEF LifeCycle, Start, Ready, Stop, Exit
<1>6. CASE Tick \/ UNCHANGED vars
  BY <1>6 DEF Tick, vars
<1> QED BY <1>1, <1>2, <1>3, <1>4, <1>5, <1>6 DEF Next, ScanReply

\* A key that becomes stale has a cause, and one that stays so keeps one.
LEMMA ExplainedStep ==
  ASSUME TypeOK, RequestTypeOK, OnlyBootScans, [RNext]_allVars,
         NEW k \in Key, Stale(k) => Explained(k)
  PROVE  Stale(k)' => Explained(k)'
<1>0. /\ Reader \subseteq Caller /\ Writer \subseteq Caller
      /\ Reader \cap Writer = {} /\ Related \subseteq Key
      /\ Boot \notin Caller /\ Boot # Deferred
      /\ Value = 0..MaxVersion /\ MaxVersion \in Nat
  BY RequestAssumption, ResourceAssumption, ActorAssumption
<1> SUFFICES ASSUME Stale(k)' PROVE Explained(k)'
  OBVIOUS
\* A step that only drops entries and scans of other keys leaves the explanation.
<1>1. ASSUME OnlyRemoves, UNCHANGED requestVars,
             \A i \in DOMAIN scans : scans[i].by # Boot /\ k \in scans[i].keys
               => \E m \in DOMAIN scans' : scans'[m] = scans[i]
      PROVE  Explained(k)'
  BY <1>1 DEF OnlyRemoves, Stale, Explained, requestVars
<1>2. ASSUME NEW r \in Reader, Read(r) PROVE Explained(k)'
  <2>1. \A w \in Writer : pc'[w] = pc[w]
    BY <1>0, <1>2 DEF Read, Lookup, Answer, Load, Fill, RequestTypeOK
  <2>2. CASE (\E x \in Related : Lookup(r, x)) \/ Answer(r) \/ Load(r)
    <3>1. UNCHANGED <<store, scans, db, raced, lapsed>>
      BY <2>2 DEF Lookup, Get, Answer, GetReply, Load, vars
    <3> QED BY <2>1, <3>1 DEF Stale, Explained
  <2>3. CASE Fill(r)
    <3>1. /\ UNCHANGED <<scans, db, lapsed>>
          /\ loaded[r] \in Value /\ db \in Value
      BY <2>3 DEF Fill, Set, RequestTypeOK
    <3>2. CASE k = wanted[r]
      <4>1. store'[k].value = loaded[r]
        BY <2>3, <3>2 DEF Fill, Set, Put
      <4>2. loaded[r] # db
        BY <1>0, <3>1, <4>1 DEF Stale
      <4> QED BY <2>3, <3>2, <4>2 DEF Fill, Explained
    <3>3. CASE k # wanted[r]
      <4>1. k \in DOMAIN store /\ store'[k] = store[k]
        BY <2>3, <3>3 DEF Fill, Set, Put, Stale
      <4>2. k \in raced => k \in raced'
        BY <2>3, <3>3 DEF Fill
      <4> QED BY <2>1, <3>1, <4>1, <4>2 DEF Stale, Explained
    <3> QED BY <3>2, <3>3
  <2> QED BY <1>2, <2>2, <2>3 DEF Read
<1>3. ASSUME NEW w \in Writer, Write(w) PROVE Explained(k)'
  <2>1. CASE Save(w)
    BY <1>0, <2>1 DEF Save, Explained, RequestTypeOK
  <2>2. CASE FailAfterSave(w)
    BY <2>2 DEF FailAfterSave, Stale, Explained
  <2>3. CASE ExpireOnChange(w)
    <3>1. PICK by \in {w, Deferred} :
            scans' = Append(scans, [by |-> by, keys |-> ChangedKeys \cap DOMAIN store])
      BY <2>3 DEF ExpireOnChange, Expire
    <3> DEFINE new == [by |-> by, keys |-> ChangedKeys \cap DOMAIN store]
    <3>2. new.by # Boot /\ k \in new.keys
      BY <1>0, <2>3 DEF ChangedKeys, Stale, ExpireOnChange, Expire
    <3> HIDE DEF new
    <3>3. Len(scans) + 1 \in DOMAIN scans' /\ scans'[Len(scans) + 1] = new
      BY <3>1 DEF new, TypeOK
    <3> QED BY <3>2, <3>3 DEF Explained
  <2> QED BY <1>3, <2>1, <2>2, <2>3 DEF Write
<1>4. CASE Background
  <2>1. UNCHANGED requestVars
    BY <1>4 DEF Background
  <2>2. CASE SetReply
    BY <1>1, <2>1, <2>2, EvictOnlyRemoves DEF SetReply
  <2>3. CASE DelReply
    BY <1>1, <2>1, <2>3 DEF DelReply, OnlyRemoves
  <2>4. ASSUME NEW i \in DOMAIN scans, ExpireKeys(i) PROVE Explained(k)'
    <3>1. OnlyRemoves /\ k \notin scans[i].keys
      BY <2>4 DEF ExpireKeys, DelKeys, OnlyRemoves, Without, Restrict, Stale
    <3>2. \A j \in DOMAIN scans : j # i => \E m \in DOMAIN scans' : scans'[m] = scans[j]
      BY <2>4, RemoveAt DEF ExpireKeys, TypeOK
    <3> QED BY <1>1, <2>1, <3>1, <3>2
  <2>5. ASSUME NEW i \in DOMAIN scans, LoadKeysMeta(i) PROVE Explained(k)'
    <3>1. OnlyRemoves
      BY <2>5, EvictOnlyRemoves DEF LoadKeysMeta, OnlyRemoves
    <3>2. \A j \in DOMAIN scans : scans[j].by = Boot
      BY <2>5 DEF LoadKeysMeta, OnlyBootScans, Serving
    <3> QED BY <1>1, <2>1, <3>1, <3>2
  <2>6. CASE Tick
    BY <1>1, <2>1, <2>6 DEF Tick, OnlyRemoves, Without, Restrict
  <2> QED BY <1>4, <2>2, <2>3, <2>4, <2>5, <2>6 DEF Background, ScanReply
<1>5. CASE Boots
  <2>1. UNCHANGED requestVars /\ UNCHANGED store
    BY <1>5 DEF Boots, Start, Ready, Stop
  <2>2. CASE Start
    <3>1. \A j \in DOMAIN scans : scans[j].by = Boot
      BY <2>2 DEF Start, OnlyBootScans, Serving
    <3> QED BY <1>1, <2>1, <3>1 DEF OnlyRemoves
  <2>3. CASE Ready \/ Stop
    BY <1>1, <2>1, <2>3 DEF Ready, Stop, OnlyRemoves
  <2> QED BY <1>5, <2>2, <2>3 DEF Boots
<1>6. CASE ExitAll
  <2>1. UNCHANGED <<store, db, raced>>
    BY <1>6 DEF ExitAll, Exit
  <2>2. CASE Expiring
    BY <1>6, <2>1, <2>2 DEF ExitAll, Stale, Explained
  <2>3. CASE ~Expiring
    <3>1. lapsed' = lapsed /\ DOMAIN scans = {} /\ \A w \in Writer : pc[w] # "saved"
      BY <1>6, <2>3 DEF ExitAll, Expiring
    <3> QED BY <2>1, <3>1 DEF Stale, Explained
  <2> QED BY <2>2, <2>3
<1>7. CASE UNCHANGED allVars
  BY <1>7 DEF allVars, vars, requestVars, Stale, Explained
<1> QED BY <1>2, <1>3, <1>4, <1>5, <1>6, <1>7 DEF RNext

\* What the cache promises any caller, for its requests.
LEMMA RequestsTypeCorrect == RSpec => [](TypeOK /\ OnlyBootScans)
<1>1. Init => OnlyBootScans
  BY DEF Init, OnlyBootScans
<1>2. SafeSpec => []TypeOK
  BY TypeCorrect
<1>3. RSpec => SafeSpec
  BY RequestsImplementCache DEF UsesCacheService
<1> QED BY <1>1, <1>2, <1>3, BootScansStep, PTL DEF SafeSpec

\* StaleIsExplained: a change that reaches its expiration leaves no response older
\* than itself in the cache, whatever reads, writes, evictions and restarts cross it.
THEOREM StaleAlwaysExplained == RSpec => []StaleIsExplained
<1>1. RInit => StaleIsExplained
  BY DEF RInit, Init, StaleIsExplained, Stale
<1>2. /\ TypeOK /\ OnlyBootScans /\ RequestTypeOK
      /\ StaleIsExplained /\ [RNext]_allVars
      => StaleIsExplained'
  BY ExplainedStep DEF StaleIsExplained
<1> QED
  BY <1>1, <1>2, RequestsTypeCorrect, RequestTypeCorrect, PTL DEF RSpec

(***************************************************************************)
(* Clean starts                                                            *)
(***************************************************************************)
\* While a clean start is under way, every entry is in a scan that will delete it.
Cleaning ==
  CleanStart /\ phase = "starting"
    => \A k \in DOMAIN store : \E i \in DOMAIN scans :
         scans[i].by = Boot /\ k \in scans[i].keys

\* Every step keeps Cleaning.
LEMMA CleaningStep == TypeOK /\ Cleaning /\ [Next]_vars => Cleaning'
<1> SUFFICES ASSUME TypeOK, Cleaning, [Next]_vars, CleanStart, phase' = "starting"
             PROVE  Cleaning'
  BY DEF Cleaning
<1>0. ASSUME phase = "starting", OnlyRemoves, UNCHANGED scans PROVE Cleaning'
  BY <1>0 DEF Cleaning, OnlyRemoves
<1>1. ASSUME NEW c \in Caller, Call(c) PROVE Cleaning'
  <2>1. Serving /\ UNCHANGED phase
    BY <1>1 DEF Call, Get, Set, Del, Expire
  <2> QED BY <2>1 DEF Serving
<1>2. CASE Reply
  <2>1. CASE SetReply
    BY <1>0, <2>1, EvictOnlyRemoves DEF SetReply
  <2>2. CASE GetReply \/ DelReply
    BY <1>0, <2>2 DEF GetReply, DelReply, OnlyRemoves
  <2> QED BY <1>2, <2>1, <2>2 DEF Reply
<1>3. ASSUME NEW i \in DOMAIN scans, ExpireKeys(i) PROVE Cleaning'
  <2>1. ASSUME NEW k \in DOMAIN store' PROVE k \in DOMAIN store /\ k \notin scans[i].keys
    BY <1>3, <2>1 DEF ExpireKeys, DelKeys, Without, Restrict
  <2>2. \A j \in DOMAIN scans : j # i => \E m \in DOMAIN scans' : scans'[m] = scans[j]
    BY <1>3, RemoveAt DEF ExpireKeys, TypeOK
  <2> QED BY <1>3, <2>1, <2>2 DEF ExpireKeys, Cleaning
<1>4. ASSUME NEW i \in DOMAIN scans, LoadKeysMeta(i) PROVE Cleaning'
  BY <1>4 DEF LoadKeysMeta
<1>5. CASE LifeCycle
  BY <1>5 DEF LifeCycle, Start, Ready, Stop, Exit, Cleaning
<1>6. CASE Tick
  BY <1>0, <1>6 DEF Tick, OnlyRemoves, Without, Restrict
<1>7. CASE UNCHANGED vars
  BY <1>0, <1>7 DEF vars, OnlyRemoves
<1> QED BY <1>1, <1>2, <1>3, <1>4, <1>5, <1>6, <1>7 DEF Next, ScanReply

\* Only Ready starts to serve.
LEMMA ReadyServes == [Next]_vars /\ ~Serving /\ Serving' => Ready
<1> SUFFICES ASSUME [Next]_vars, ~Serving, Serving' PROVE Ready
  OBVIOUS
<1>1. ASSUME NEW c \in Caller, Call(c) PROVE Serving
  BY <1>1 DEF Call, Get, Set, Del, Expire
<1>2. CASE Reply \/ Tick \/ UNCHANGED vars
  <2>1. UNCHANGED phase
    BY <1>2 DEF Reply, GetReply, SetReply, DelReply, Tick, vars
  <2> QED BY <2>1 DEF Serving
<1>3. ASSUME NEW i \in DOMAIN scans, ExpireKeys(i) \/ LoadKeysMeta(i) PROVE Ready
  <2>1. UNCHANGED phase
    BY <1>3 DEF ExpireKeys, LoadKeysMeta
  <2> QED BY <2>1 DEF Serving
<1>4. CASE Start \/ Stop \/ Exit
  BY <1>4 DEF Start, Stop, Exit, Serving
<1> QED BY <1>1, <1>2, <1>3, <1>4 DEF Next, ScanReply, LifeCycle

\* CleanStartIsFresh: a process that cleans the cache when it starts serves nothing
\* that an earlier process left behind, however that process ended.
THEOREM CleanStartAlwaysFresh == RSpec => CleanStartIsFresh
<1>1. Init => Cleaning
  BY DEF Init, Cleaning
<1>2. Cleaning /\ [Next]_vars
      => (CleanStart /\ ~Serving /\ Serving' => \A k \in Key : ~Stale(k)')
  <2> SUFFICES ASSUME Cleaning, [Next]_vars, CleanStart, ~Serving, Serving',
                      NEW k \in Key, Stale(k)'
               PROVE  FALSE
    OBVIOUS
  <2>1. Ready
    BY ReadyServes
  <2>2. k \in DOMAIN store
    BY <2>1 DEF Ready, Stale
  <2> QED BY <2>1, <2>2 DEF Ready, Cleaning, Idle
<1>3. SafeSpec => []TypeOK
  BY TypeCorrect
<1>4. RSpec => SafeSpec
  BY RequestsImplementCache DEF UsesCacheService
<1>5. SafeSpec => []Cleaning
  BY <1>1, <1>3, CleaningStep, PTL DEF SafeSpec
<1>6. RequestTypeOK /\ Cleaning /\ [RNext]_allVars
      => (CleanStart /\ ~Serving /\ Serving' => \A k \in Key : ~Stale(k)')
  BY <1>2, RequestStep
<1> QED
  BY <1>4, <1>5, <1>6, RequestTypeCorrect, PTL DEF RSpec, CleanStartIsFresh
=============================================================================
