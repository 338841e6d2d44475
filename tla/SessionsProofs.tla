--------------------------- MODULE SessionsProofs ---------------------------
(***************************************************************************)
(* Proofs about Sessions and Logins as Authentication composes them, for   *)
(* any number of requests and logins, any times and any number of tries.   *)
(***************************************************************************)
EXTENDS Authentication, TLAPS

(***************************************************************************)
(* Types                                                                   *)
(***************************************************************************)
Password == {0} \cup Request

User == [password : Password, logoutAt : Nat]

RequestState ==
  [op : {"login", "access", "refresh", "logout", "change"},
   pc : {"idle", "missed", "loaded", "updating", "read", "saved", "accepted", "rejected"},
   ticket : Nat, user : User, at : Nat, late : BOOLEAN, stale : BOOLEAN,
   overlapped : BOOLEAN, replaced : Password]

Entry == [user : User, raced : BOOLEAN]

SessionsTypeOK ==
  /\ orm \in {"mongoose", "typeorm"}
  /\ now \in Nat /\ outAt \in Nat
  /\ row \in User
  /\ cache \in [Lookup -> Entry \cup {Null}]
  /\ request \in [Request -> RequestState]
  /\ retired \subseteq Password
  /\ lapsed \in BOOLEAN /\ reverted \in BOOLEAN

(***************************************************************************)
(* The inductive invariant                                                 *)
(***************************************************************************)

\* Requests that no longer save
Done == {r \in Request : request[r].pc \in {"saved", "accepted", "rejected"}}

\* The passwords of requests that have saved, and the first one
Old == {0} \cup Done

\* What has ended is not valid for user.
Ends(user) == user.logoutAt >= outAt /\ user.password \notin retired

\* The ticket of a late request had ended.
HadEnded(req) == IF req.op = "login" THEN req.ticket \in retired ELSE req.ticket < outAt

\* What is true of a request that looks its user up
Looks(r) ==
  /\ request[r].pc = "idle" => request[r] = Blank
  /\ request[r].pc \in {"missed", "loaded"} /\ request[r].late => HadEnded(request[r])
  /\ request[r].pc = "loaded" /\ request[r].late /\ ~reverted =>
       ~Matches(request[r].op, request[r].ticket, request[r].user)

\* What is true of a request that updates: unless another one saved in between, it has the
\* row of the database, which is not newer than its update.
Updates(r) ==
  /\ request[r].at <= now /\ request[r].user.logoutAt <= now
  /\ request[r].pc \in {"updating", "read"} /\ ~request[r].overlapped => row.logoutAt <= request[r].at
  /\ request[r].pc = "read" /\ ~request[r].overlapped => request[r].user = row

\* What is true of a request that has saved and is to reply
Saves(r) ==
  request[r].pc = "saved" /\ ~reverted =>
    /\ request[r].op \in {"logout", "change"} => request[r].at <= row.logoutAt
    /\ request[r].op = "change" => row.password # request[r].replaced
    /\ request[r].replaced \in Old

SessionsInv ==
  /\ SessionsTypeOK
  /\ row.logoutAt <= now
  /\ ~reverted => Ends(row) /\ row.password \in Old /\ retired \subseteq Old
  /\ \A l \in Lookup : cache[l] # Null /\ ~cache[l].raced /\ ~reverted => Ends(cache[l].user)
  /\ \A r \in Request : Looks(r) /\ Updates(r) /\ Saves(r)
  /\ CachedUserIsCurrent
  /\ EndedSessionsFail

(***************************************************************************)
(* Facts about the operators                                               *)
(***************************************************************************)
LEMMA RequestFacts == /\ \A r \in Request : r \in Nat \ {0}
                      /\ Null \notin Nat /\ MaxTime \in Nat
<1>1. ASSUME NEW r \in Request PROVE r \in Nat \ {0}
  <2>1. r \in 1 .. Cardinality(Request)
    BY SessionsAssumption
  <2> QED BY <2>1
<1> QED BY <1>1, SessionsAssumption

\* The request that has not come yet, and the user that is nobody.
LEMMA BlankTypes ==
  /\ Blank \in RequestState /\ NoUser \in User
  /\ Blank.pc = "idle" /\ Blank.at = 0 /\ Blank.user.logoutAt = 0
  /\ ~Blank.late /\ ~Blank.overlapped
<1>1. NoUser \in User /\ NoUser.logoutAt = 0
  BY DEF NoUser, User, Password
<1>2. 0 \in Password
  BY DEF Password
<1> QED BY <1>1, <1>2 DEF Blank, RequestState

\* How a request ends that changes nothing
Refused(req) ==
  /\ req.pc = "rejected" /\ req.at = 0 /\ req.user.logoutAt = 0 /\ ~req.late /\ ~req.overlapped

\* A request that has failed knows nothing any more.
LEMMA FailedTypes ==
  ASSUME NEW op \in {"login", "access", "refresh", "logout", "change"}
  PROVE  /\ [Blank EXCEPT !.pc = "rejected", !.op = op] \in RequestState
         /\ Refused([Blank EXCEPT !.pc = "rejected", !.op = op])
<1> DEFINE failed == [Blank EXCEPT !.pc = "rejected", !.op = op]
<1>1. Blank \in RequestState /\ Blank.at = 0 /\ Blank.user.logoutAt = 0 /\ ~Blank.late /\ ~Blank.overlapped
  BY BlankTypes
<1>2. failed \in RequestState /\ Refused(failed)
  BY <1>1 DEF RequestState, Refused
<1> QED BY <1>2

\* A request that is refused knows nothing any more.
LEMMA RejectedTypes ==
  [Blank EXCEPT !.pc = "rejected"] \in RequestState /\ Refused([Blank EXCEPT !.pc = "rejected"])
<1> DEFINE failed == [Blank EXCEPT !.pc = "rejected"]
<1>1. Blank \in RequestState /\ Blank.at = 0 /\ Blank.user.logoutAt = 0 /\ ~Blank.late /\ ~Blank.overlapped
  BY BlankTypes
<1>2. failed \in RequestState /\ Refused(failed)
  BY <1>1 DEF RequestState, Refused
<1> QED BY <1>2

\* A request whose user is known is refused, or has a ticket that is valid for it.
LEMMA DecidedTypes ==
  ASSUME NEW req \in RequestState, NEW user \in User, NEW raced \in BOOLEAN, now \in Nat
  PROVE  LET decided == Decided(req, user, raced) IN
         /\ decided \in RequestState
         /\ \/ Refused(decided)
            \/ /\ Matches(req.op, req.ticket, user)
               /\ decided.pc \in {"accepted", "updating"} /\ decided.op = req.op
               /\ decided.late = req.late /\ decided.stale = raced
               /\ decided.user = NoUser /\ decided.overlapped = req.overlapped
               /\ decided.at = IF decided.pc = "updating" THEN now ELSE req.at
<1>1. CASE ~Matches(req.op, req.ticket, user)
  <2>1. Decided(req, user, raced) = [Blank EXCEPT !.pc = "rejected"]
    BY <1>1 DEF Decided
  <2> QED BY <2>1, RejectedTypes
<1>2. CASE Matches(req.op, req.ticket, user)
  <2>1. NoUser \in User
    BY BlankTypes
  <2>2. CASE req.op = "access"
    <3>1. Decided(req, user, raced) =
            [req EXCEPT !.stale = raced, !.user = NoUser, !.pc = "accepted"]
      BY <1>2, <2>2 DEF Decided
    <3> QED BY <1>2, <2>1, <3>1 DEF RequestState
  <2>3. CASE req.op # "access"
    <3>1. Decided(req, user, raced) =
            [req EXCEPT !.stale = raced, !.user = NoUser, !.pc = "updating", !.at = now]
      BY <1>2, <2>3 DEF Decided
    <3> QED BY <1>2, <2>1, <3>1 DEF RequestState
  <2> QED BY <2>2, <2>3
<1> QED BY <1>1, <1>2

\* What has ended is refused for a user it ends for.
LEMMA EndedIsRefused ==
  ASSUME SessionsTypeOK, NEW req \in RequestState, NEW user \in User, HadEnded(req), Ends(user)
  PROVE  ~Matches(req.op, req.ticket, user)
  BY DEF HadEnded, Ends, Matches, RequestState, User, SessionsTypeOK

\* The sessions begin with their invariant.
LEMMA SessionsStart == Init => SessionsInv
<1> SUFFICES ASSUME Init PROVE SessionsInv
  OBVIOUS
<1>1. SessionsTypeOK
  BY BlankTypes DEF Init, SessionsTypeOK
<1>2. row = NoUser /\ row.logoutAt = 0 /\ row.password = 0 /\ now = 1
  BY DEF Init, NoUser
<1>3. Ends(row) /\ row.password \in Old /\ retired \subseteq Old
  BY <1>2 DEF Init, Ends, Old
<1>4. \A r \in Request : request[r] = Blank
  BY DEF Init
<1>5. \A r \in Request : Looks(r) /\ Updates(r) /\ Saves(r)
  BY <1>2, <1>4, BlankTypes DEF Looks, Updates, Saves
<1>6. EndedSessionsFail
  BY <1>4, BlankTypes DEF EndedSessionsFail
<1>7. \A l \in Lookup : cache[l] = Null
  BY DEF Init
<1>8. CachedUserIsCurrent
  BY <1>7 DEF CachedUserIsCurrent
<1> QED BY <1>1, <1>2, <1>3, <1>5, <1>6, <1>7, <1>8 DEF SessionsInv

(***************************************************************************)
(* What a step changes and keeps                                           *)
(***************************************************************************)

\* The request becomes new, and nothing else of the requests changes.
Moves(r, new) ==
  /\ request' = [request EXCEPT ![r] = new]
  /\ request'[r] = new
  /\ \A q \in Request : q # r => request'[q] = request[q]

\* A step of a request changes that request alone.
LEMMA StepMoves ==
  ASSUME SessionsTypeOK, NEW r \in Request, NEW new \in RequestState, Step(r, new)
  PROVE  Moves(r, new) /\ request' \in [Request -> RequestState]
<1>1. request \in [Request -> RequestState] /\ request' = [request EXCEPT ![r] = new]
  BY DEF SessionsTypeOK, Step
<1> QED BY <1>1 DEF Moves

\* Nothing that a request relies on is taken from it.
Keeps ==
  /\ row' = row /\ now' \in Nat /\ now <= now'
  /\ outAt' \in Nat /\ outAt <= outAt' /\ retired \subseteq retired'
  /\ reverted' = reverted
  /\ Done \subseteq Done'

\* A request that does not move is not disturbed where Keeps holds.
LEMMA OthersStay ==
  ASSUME SessionsInv, Keeps, NEW q \in Request, request'[q] = request[q]
  PROVE  Looks(q)' /\ Updates(q)' /\ Saves(q)'
<1>1. /\ Looks(q) /\ Updates(q) /\ Saves(q) /\ request[q] \in RequestState /\ row \in User
      /\ now \in Nat /\ outAt \in Nat
  BY DEF SessionsInv, SessionsTypeOK
<1>2. request[q].ticket \in Nat /\ request[q].at \in Nat /\ request[q].user.logoutAt \in Nat
      /\ request[q].user \in User
  BY <1>1 DEF RequestState, User
<1>3. HadEnded(request[q]) => HadEnded(request[q])'
  BY <1>1, <1>2 DEF HadEnded, Keeps
<1>4. Looks(q)'
  BY <1>1, <1>3 DEF Looks, Keeps, Matches
<1>5. Updates(q)'
  BY <1>1, <1>2 DEF Updates, Keeps
<1>6. Saves(q)'
  BY <1>1 DEF Saves, Keeps, Old
<1> QED BY <1>4, <1>5, <1>6

\* Steps that only move one request, not among those that save
LEMMA RequestMoves ==
  ASSUME SessionsInv, NEW r \in Request, NEW new \in RequestState, Step(r, new),
         UNCHANGED <<orm, now, row, outAt, retired, reverted>>, lapsed' \in BOOLEAN,
         cache' \in [Lookup -> Entry \cup {Null}],
         r \in Done => new.pc \in {"saved", "accepted", "rejected"},
         Looks(r)', Updates(r)', Saves(r)',
         new.late /\ new.pc \notin {"missed", "loaded", "rejected"} => new.stale \/ reverted,
         CachedUserIsCurrent',
         \A l \in Lookup : cache'[l] # Null /\ ~cache'[l].raced /\ ~reverted => Ends(cache'[l].user)
  PROVE  SessionsInv'
<1> USE DEF SessionsInv
<1>1. Moves(r, new) /\ request' \in [Request -> RequestState]
  BY StepMoves
<1>2. SessionsTypeOK'
  BY <1>1 DEF SessionsTypeOK
<1>3. Done \subseteq Done'
  BY <1>1 DEF Done, Moves
<1>4. Keeps
  BY <1>3 DEF Keeps, SessionsTypeOK
<1>5. ASSUME NEW q \in Request PROVE Looks(q)' /\ Updates(q)' /\ Saves(q)'
  BY <1>1, <1>4, OthersStay DEF Moves
<1>6. EndedSessionsFail'
  BY <1>1 DEF EndedSessionsFail, Moves
<1>7. (~reverted => Ends(row) /\ row.password \in Old /\ retired \subseteq Old)'
  BY <1>3 DEF Ends, Old
<1>8. (row.logoutAt <= now)'
  OBVIOUS
<1>9. (\A l \in Lookup : cache[l] # Null /\ ~cache[l].raced /\ ~reverted => Ends(cache[l].user))'
  BY DEF Ends
<1> QED BY <1>2, <1>5, <1>6, <1>7, <1>8, <1>9

(***************************************************************************)
(* The steps                                                               *)
(***************************************************************************)

\* A cache that stays is as current as it was, unless a request leaves saved.
LEMMA CacheStays ==
  ASSUME SessionsInv, UNCHANGED <<row, cache>>, lapsed => lapsed',
         \A r \in Request : request[r].pc = "saved" => lapsed' \/ request'[r].pc = "saved"
  PROVE  CachedUserIsCurrent'
<1> SUFFICES ASSUME NEW l \in Lookup, cache'[l] # Null, cache'[l].user # row'
             PROVE  \/ cache'[l].raced \/ lapsed'
                    \/ \E r \in Request : request'[r].pc = "saved"
  BY DEF CachedUserIsCurrent
<1> QED BY DEF SessionsInv, CachedUserIsCurrent

\* A request that was decided
LEMMA DecidedHolds ==
  ASSUME SessionsInv, NEW r \in Request, NEW req \in RequestState, NEW user \in User, NEW raced \in BOOLEAN,
         UNCHANGED <<now, row, outAt, retired, reverted>>,
         req.at <= now,
         req.late /\ ~raced /\ ~reverted => ~Matches(req.op, req.ticket, user),
         request'[r] = Decided(req, user, raced)
  PROVE  /\ Looks(r)' /\ Updates(r)' /\ Saves(r)'
         /\ request'[r].late /\ request'[r].pc \notin {"missed", "loaded", "rejected"} =>
              request'[r].stale \/ reverted
<1> DEFINE new == Decided(req, user, raced)
<1>0. now \in Nat /\ row.logoutAt <= now
  BY DEF SessionsInv, SessionsTypeOK
<1>1. /\ new \in RequestState
      /\ \/ Refused(new)
         \/ /\ Matches(req.op, req.ticket, user)
            /\ new.pc \in {"accepted", "updating"}
            /\ new.late = req.late /\ new.stale = raced /\ new.user = NoUser
            /\ new.overlapped = req.overlapped
            /\ new.at = IF new.pc = "updating" THEN now ELSE req.at
  BY <1>0, DecidedTypes
<1> HIDE DEF new
<1>2. request'[r] = new
  BY DEF new
<1>3. NoUser.logoutAt = 0
  BY DEF NoUser
<1>4. new.pc \in {"rejected", "accepted", "updating"} /\ new.at <= now /\ new.user.logoutAt <= now
  BY <1>0, <1>1, <1>3 DEF Refused
<1>5. Looks(r)'
  BY <1>2, <1>4 DEF Looks
<1>6. Updates(r)'
  BY <1>0, <1>1, <1>2, <1>4 DEF Updates, Refused
<1>7. Saves(r)'
  BY <1>2, <1>4 DEF Saves
<1>8. new.late /\ new.pc # "rejected" => new.stale \/ reverted
  BY <1>1 DEF Refused
<1> QED BY <1>2, <1>5, <1>6, <1>7, <1>8

\* Come keeps the invariant.
LEMMA ComeHolds ==
  ASSUME SessionsInv, NEW r \in Request, NEW op \in {"login", "access", "refresh", "logout"},
         NEW ticket \in Nat, Come(r, op, ticket)
  PROVE  SessionsInv'
<1> USE DEF SessionsInv
<1> DEFINE late == IF op = "login" THEN ticket \in retired ELSE ticket < outAt
           req == [request[r] EXCEPT !.op = op, !.ticket = ticket, !.late = late]
           hit == cache[LookupOf(op)]
           new == IF hit = Null THEN [req EXCEPT !.pc = "missed"] ELSE Decided(req, hit.user, hit.raced)
<1>1. /\ request[r] = Blank /\ request[r] \in RequestState /\ request[r].pc = "idle"
      /\ UNCHANGED <<orm, now, row, cache, outAt, retired, lapsed, reverted>> /\ Step(r, new)
      /\ now \in Nat /\ LookupOf(op) \in Lookup
  BY DEF Come, Arrives, Looks, SessionsTypeOK, LookupOf, Lookup
<1>2. late \in BOOLEAN
  <2>1. CASE op = "login"
    <3>1. late = (ticket \in retired)
      BY <2>1
    <3> HIDE DEF late
    <3> QED BY <3>1
  <2>2. CASE op # "login"
    <3>1. late = (ticket < outAt)
      BY <2>2
    <3> HIDE DEF late
    <3> QED BY <3>1
  <2> QED BY <2>1, <2>2
<1> HIDE DEF late
<1>3. /\ req \in RequestState /\ req.op = op /\ req.ticket = ticket /\ req.late = late
      /\ ~req.overlapped /\ req.at = 0 /\ req.user.logoutAt = 0
  BY <1>1, <1>2, BlankTypes DEF RequestState
<1> HIDE DEF req
<1>4. req.late => HadEnded(req)
  BY <1>3 DEF HadEnded, late
<1>5. /\ new \in RequestState /\ Looks(r)' /\ Updates(r)' /\ Saves(r)'
      /\ new.late /\ new.pc \notin {"missed", "loaded", "rejected"} => new.stale \/ reverted
  <2>0. new \in RequestState => request'[r] = new
    BY <1>1, StepMoves DEF Moves
  <2>1. CASE hit = Null
    <3>1. /\ new \in RequestState /\ new.pc = "missed" /\ new.op = req.op /\ new.ticket = req.ticket
          /\ new.late = req.late /\ new.at = 0 /\ new.user.logoutAt = 0
      BY <1>3, <2>1 DEF RequestState
    <3>2. request'[r] = new
      BY <2>0, <3>1
    <3> HIDE DEF new
    <3>3. Looks(r)'
      BY <1>1, <1>4, <3>1, <3>2 DEF Looks, HadEnded
    <3>4. Updates(r)' /\ Saves(r)'
      BY <1>1, <3>1, <3>2 DEF Updates, Saves
    <3> QED BY <3>1, <3>3, <3>4
  <2>2. CASE hit # Null
    <3>1. hit \in Entry
      BY <1>1, <2>2 DEF SessionsTypeOK
    <3>2. hit.user \in User /\ hit.raced \in BOOLEAN
      BY <3>1 DEF Entry
    <3>3. new = Decided(req, hit.user, hit.raced) /\ new \in RequestState
      BY <1>1, <1>3, <2>2, <3>2, DecidedTypes
    <3>4. request'[r] = Decided(req, hit.user, hit.raced)
      BY <2>0, <3>3
    <3>5. req.late /\ ~hit.raced /\ ~reverted => ~Matches(req.op, req.ticket, hit.user)
      <4>1. ~hit.raced /\ ~reverted => Ends(hit.user)
        BY <1>1, <2>2
      <4> QED BY <1>3, <1>4, <3>2, <4>1, EndedIsRefused
    <3>6. /\ Looks(r)' /\ Updates(r)' /\ Saves(r)'
          /\ request'[r].late /\ request'[r].pc \notin {"missed", "loaded", "rejected"} =>
               request'[r].stale \/ reverted
      BY <1>1, <1>3, <3>2, <3>4, <3>5, DecidedHolds
    <3> QED BY <2>0, <3>3, <3>6
  <2> QED BY <2>1, <2>2
<1> HIDE DEF new
<1>6. r \notin Done
  BY <1>1 DEF Done
<1>7. CachedUserIsCurrent'
  <2>1. \A q \in Request : request[q].pc = "saved" => request'[q].pc = "saved"
    BY <1>1, <1>5, StepMoves DEF Moves
  <2> QED BY <1>1, <2>1, CacheStays
<1> QED BY <1>1, <1>5, <1>6, <1>7, RequestMoves DEF SessionsTypeOK

\* Load keeps the invariant.
LEMMA LoadHolds ==
  ASSUME SessionsInv, NEW r \in Request, Load(r)
  PROVE  SessionsInv'
<1> USE DEF SessionsInv
<1> DEFINE new == [request[r] EXCEPT !.pc = "loaded", !.user = row]
<1>1. /\ request[r] \in RequestState /\ request[r].pc = "missed" /\ row \in User
      /\ UNCHANGED <<orm, now, row, cache, outAt, retired, lapsed, reverted>> /\ Step(r, new)
  BY DEF Load, SessionsTypeOK
<1>2. /\ new \in RequestState /\ new.pc = "loaded" /\ new.user = row
      /\ new.op = request[r].op /\ new.ticket = request[r].ticket /\ new.late = request[r].late
      /\ new.at = request[r].at
  BY <1>1 DEF RequestState
<1> HIDE DEF new
<1>3. Moves(r, new)
  BY <1>1, <1>2, StepMoves
<1>4. new.late => HadEnded(new)
  BY <1>1, <1>2 DEF Looks, HadEnded
<1>5. new.late /\ ~reverted => ~Matches(new.op, new.ticket, new.user)
  BY <1>1, <1>2, <1>4, EndedIsRefused
<1>6. Looks(r)'
  BY <1>1, <1>2, <1>3, <1>4, <1>5 DEF Looks, Moves, HadEnded, Matches
<1>7. Updates(r)' /\ Saves(r)'
  BY <1>1, <1>2, <1>3 DEF Updates, Saves, Moves
<1>8. r \notin Done
  BY <1>1 DEF Done
<1>9. CachedUserIsCurrent'
  <2>1. \A q \in Request : request[q].pc = "saved" => request'[q].pc = "saved"
    BY <1>1, <1>3 DEF Moves
  <2> QED BY <1>1, <2>1, CacheStays
<1> QED BY <1>1, <1>2, <1>6, <1>7, <1>8, <1>9, RequestMoves DEF SessionsTypeOK

\* Fill keeps the invariant.
LEMMA FillHolds ==
  ASSUME SessionsInv, NEW r \in Request, Fill(r)
  PROVE  SessionsInv'
<1> USE DEF SessionsInv
<1> DEFINE user == request[r].user
           l == LookupOf(request[r].op)
           entry == [user |-> user, raced |-> user # row]
           new == Decided(request[r], user, FALSE)
<1>1. /\ request[r] \in RequestState /\ request[r].pc = "loaded"
      /\ UNCHANGED <<orm, now, row, outAt, retired, lapsed, reverted>> /\ Step(r, new)
      /\ cache' = [cache EXCEPT ![l] = entry]
  BY DEF Fill, SessionsTypeOK
<1>2. l \in Lookup /\ user \in User /\ entry \in Entry /\ now \in Nat /\ request[r].at <= now
  BY <1>1 DEF LookupOf, Lookup, RequestState, Entry, SessionsTypeOK, Updates
<1>3. new \in RequestState
  BY <1>1, <1>2, DecidedTypes
<1>4. Moves(r, new)
  BY <1>1, <1>3, StepMoves
<1>5. /\ Looks(r)' /\ Updates(r)' /\ Saves(r)'
      /\ request'[r].late /\ request'[r].pc \notin {"missed", "loaded", "rejected"} =>
           request'[r].stale \/ reverted
  <2>1. request[r].late /\ ~reverted => ~Matches(request[r].op, request[r].ticket, user)
    BY <1>1 DEF Looks
  <2>2. request'[r] = Decided(request[r], user, FALSE)
    BY <1>4 DEF Moves
  <2> HIDE DEF user, new
  <2> QED BY <1>1, <1>2, <2>1, <2>2, DecidedHolds
<1>6. r \notin Done
  BY <1>1 DEF Done
<1>7. cache'[l] = entry /\ \A k \in Lookup : k # l => cache'[k] = cache[k]
  BY <1>1, <1>2 DEF SessionsTypeOK
<1>8. cache' \in [Lookup -> Entry \cup {Null}]
  BY <1>1, <1>2 DEF SessionsTypeOK
<1> DEFINE older == user # row
<1>9. entry.user = user /\ entry.raced = older
  OBVIOUS
<1> HIDE DEF entry
<1>10. older <=> user # row
  OBVIOUS
<1> HIDE DEF older
<1>11. CachedUserIsCurrent'
  <2> SUFFICES ASSUME NEW k \in Lookup, cache'[k] # Null, cache'[k].user # row'
               PROVE  \/ cache'[k].raced \/ lapsed'
                      \/ \E q \in Request : request'[q].pc = "saved"
    BY DEF CachedUserIsCurrent
  <2>1. CASE k = l
    BY <1>1, <1>7, <1>9, <1>10, <2>1
  <2>2. CASE k # l
    BY <1>1, <1>4, <1>7, <2>2 DEF CachedUserIsCurrent, Moves
  <2> QED BY <2>1, <2>2
<1>12. \A k \in Lookup : cache'[k] # Null /\ ~cache'[k].raced /\ ~reverted => Ends(cache'[k].user)
  BY <1>7, <1>9, <1>10
<1>13. new.late /\ new.pc \notin {"missed", "loaded", "rejected"} => new.stale \/ reverted
  BY <1>4, <1>5 DEF Moves
<1> HIDE DEF new, entry, l, user
<1> QED BY <1>1, <1>3, <1>5, <1>6, <1>8, <1>11, <1>12, <1>13, RequestMoves DEF SessionsTypeOK

\* A request begins an update, or reads the row for it.
LEMMA BeginHolds ==
  ASSUME SessionsInv, NEW r \in Request, Change(r) \/ Read(r)
  PROVE  SessionsInv'
<1> USE DEF SessionsInv
<1>1. /\ request[r] \in RequestState /\ row \in User /\ now \in Nat
      /\ UNCHANGED <<orm, now, row, cache, outAt, retired, lapsed, reverted>>
      /\ request[r].pc \in {"idle", "updating"}
  BY DEF Change, Read, Arrives, SessionsTypeOK
<1>2. \E new \in RequestState :
        /\ Step(r, new) /\ Updates(r)' /\ new.pc \in {"updating", "read"}
        /\ new.late => request[r].late /\ request[r].pc = "updating" /\ new.stale = request[r].stale
  <2>1. CASE Change(r)
    <3> DEFINE new == [request[r] EXCEPT !.op = "change", !.pc = "updating", !.at = now]
    <3>1. request[r] = Blank /\ Step(r, new)
      BY <2>1 DEF Change, Arrives, Looks
    <3>2. /\ new \in RequestState /\ new.pc = "updating" /\ new.at = now /\ ~new.late
          /\ new.user = request[r].user
      BY <1>1, <3>1, BlankTypes DEF RequestState
    <3> HIDE DEF new
    <3>3. Updates(r)'
      BY <1>1, <3>1, <3>2, StepMoves DEF Updates, Moves
    <3> QED BY <3>1, <3>2, <3>3
  <2>2. CASE Read(r)
    <3> DEFINE new == [request[r] EXCEPT !.pc = "read", !.user = row]
    <3>1. request[r].pc = "updating" /\ Step(r, new)
      BY <2>2 DEF Read
    <3>2. /\ new \in RequestState /\ new.pc = "read" /\ new.at = request[r].at
          /\ new.user = row /\ new.late = request[r].late /\ new.stale = request[r].stale
          /\ new.overlapped = request[r].overlapped
      BY <1>1 DEF RequestState
    <3> HIDE DEF new
    <3>3. Updates(r)'
      BY <1>1, <3>1, <3>2, StepMoves DEF Updates, Moves
    <3> QED BY <3>1, <3>2, <3>3
  <2> QED BY <2>1, <2>2
<1>3. PICK new \in RequestState :
        /\ Step(r, new) /\ Updates(r)' /\ new.pc \in {"updating", "read"}
        /\ new.late => request[r].late /\ request[r].pc = "updating" /\ new.stale = request[r].stale
  BY <1>2
<1>4. Moves(r, new)
  BY <1>3, StepMoves
<1>5. Looks(r)' /\ Saves(r)'
  BY <1>3, <1>4 DEF Looks, Saves, Moves
<1>6. r \notin Done
  BY <1>1 DEF Done
<1>7. new.late => new.stale \/ reverted
  BY <1>3 DEF EndedSessionsFail
<1>8. CachedUserIsCurrent'
  <2>1. \A q \in Request : request[q].pc = "saved" => request'[q].pc = "saved"
    BY <1>1, <1>4 DEF Moves
  <2> QED BY <1>1, <2>1, CacheStays
<1> QED BY <1>1, <1>3, <1>5, <1>6, <1>7, <1>8, RequestMoves DEF SessionsTypeOK

\* Fail keeps the invariant.
LEMMA FailHolds ==
  ASSUME SessionsInv, NEW r \in Request, Fail(r)
  PROVE  SessionsInv'
<1> USE DEF SessionsInv
<1> DEFINE new == [Blank EXCEPT !.pc = "rejected", !.op = request[r].op]
<1>1. /\ request[r] \in RequestState /\ now \in Nat
      /\ UNCHANGED <<orm, now, row, cache, outAt, retired, reverted>> /\ Step(r, new)
      /\ lapsed' = (lapsed \/ request[r].pc = "saved")
  BY DEF Fail, SessionsTypeOK
<1>2. new \in RequestState /\ Refused(new)
  <2>1. request[r].op \in {"login", "access", "refresh", "logout", "change"}
    BY <1>1 DEF RequestState
  <2> QED BY <2>1, FailedTypes
<1> HIDE DEF new
<1>3. Moves(r, new)
  BY <1>1, <1>2, StepMoves
<1>4. Looks(r)' /\ Updates(r)' /\ Saves(r)'
  BY <1>1, <1>2, <1>3 DEF Looks, Updates, Saves, Moves, Refused
<1>5. lapsed' \in BOOLEAN
  <2>1. CASE request[r].pc = "saved"
    BY <1>1, <2>1
  <2>2. CASE request[r].pc # "saved"
    BY <1>1, <2>2 DEF SessionsTypeOK
  <2> QED BY <2>1, <2>2
<1>6. CachedUserIsCurrent'
  <2>1. \A q \in Request : request[q].pc = "saved" => lapsed' \/ request'[q].pc = "saved"
    BY <1>1, <1>3 DEF Moves
  <2> QED BY <1>1, <2>1, CacheStays
<1>7. new.pc = "rejected"
  BY <1>2 DEF Refused
<1> QED BY <1>1, <1>2, <1>4, <1>5, <1>6, <1>7, RequestMoves DEF SessionsTypeOK

\* Time passes, or entries of the cache go.
LEMMA PassingHolds ==
  ASSUME SessionsInv, Tick \/ Evict
  PROVE  SessionsInv'
<1> USE DEF SessionsInv
<1>1. /\ UNCHANGED <<orm, row, request, outAt, retired, lapsed, reverted>>
      /\ now' \in Nat /\ now <= now'
      /\ row.logoutAt \in Nat /\ now \in Nat /\ outAt \in Nat
  BY DEF Tick, Evict, SessionsTypeOK, User
<1>2. \A l \in Lookup : cache'[l] = cache[l] \/ cache'[l] = Null
  BY DEF Tick, Evict, SessionsTypeOK
<1>3. cache' \in [Lookup -> Entry \cup {Null}]
  BY DEF Tick, Evict, SessionsTypeOK
<1>4. SessionsTypeOK'
  BY <1>1, <1>3 DEF SessionsTypeOK
<1>5. Keeps
  BY <1>1 DEF Keeps, Done
<1>6. ASSUME NEW q \in Request PROVE Looks(q)' /\ Updates(q)' /\ Saves(q)'
  BY <1>1, <1>5, OthersStay
<1>7. (row.logoutAt <= now)'
  BY <1>1
<1>8. (~reverted => Ends(row) /\ row.password \in Old /\ retired \subseteq Old)'
  BY <1>1 DEF Ends, Old, Done
<1>9. (\A l \in Lookup : cache[l] # Null /\ ~cache[l].raced /\ ~reverted => Ends(cache[l].user))'
  BY <1>1, <1>2 DEF Ends
<1>10. CachedUserIsCurrent'
  BY <1>1, <1>2 DEF CachedUserIsCurrent
<1>11. EndedSessionsFail'
  BY <1>1 DEF EndedSessionsFail
<1> QED BY <1>4, <1>6, <1>7, <1>8, <1>9, <1>10, <1>11

\* Reply keeps the invariant.
LEMMA ReplyHolds ==
  ASSUME SessionsInv, NEW r \in Request, Reply(r)
  PROVE  SessionsInv'
<1> USE DEF SessionsInv
<1> DEFINE at == IF request[r].op \in {"login", "refresh"} THEN request[r].at ELSE 0
           new == [request[r] EXCEPT !.pc = "accepted", !.replaced = 0, !.at = at]
<1>1. /\ request[r] \in RequestState /\ request[r].pc = "saved" /\ Step(r, new)
      /\ UNCHANGED <<orm, now, row, lapsed, reverted>> /\ now \in Nat /\ row \in User
      /\ cache' = [l \in Lookup |-> Null] /\ outAt \in Nat
  BY DEF Reply, Expired, SessionsTypeOK
<1>2. /\ request[r].at \in Nat /\ request[r].at <= now /\ request[r].user.logoutAt <= now
      /\ request[r].replaced \in Password /\ row.logoutAt \in Nat
  BY <1>1 DEF Updates, RequestState, User
<1>3. at \in Nat /\ at <= now /\ 0 \in Password
  BY <1>1, <1>2 DEF Password
<1> HIDE DEF at
<1>4. /\ new \in RequestState /\ new.pc = "accepted" /\ new.at = at
      /\ new.user = request[r].user /\ new.late = request[r].late /\ new.stale = request[r].stale
  BY <1>1, <1>3 DEF RequestState
<1> HIDE DEF new
<1>5. Moves(r, new) /\ request' \in [Request -> RequestState]
  BY <1>1, <1>4, StepMoves
<1>6. /\ outAt' \in Nat /\ outAt <= outAt'
      /\ outAt' = outAt \/ (outAt' = request[r].at /\ request[r].op \in {"logout", "change"})
  BY <1>1, <1>2 DEF Reply
<1>7. \/ retired' = retired
      \/ retired' = retired \cup ({request[r].replaced} \ {r}) /\ request[r].op = "change"
  BY DEF Reply
<1>8. SessionsTypeOK'
  BY <1>1, <1>2, <1>5, <1>6, <1>7 DEF SessionsTypeOK
<1>9. Done \subseteq Done'
  BY <1>4, <1>5 DEF Done, Moves
<1>10. Keeps
  BY <1>1, <1>6, <1>7, <1>9 DEF Keeps
<1>11. ASSUME NEW q \in Request PROVE Looks(q)' /\ Updates(q)' /\ Saves(q)'
  <2>1. CASE q = r
    BY <1>1, <1>2, <1>3, <1>4, <1>5, <2>1 DEF Looks, Updates, Saves, Moves
  <2>2. CASE q # r
    BY <1>5, <1>10, <2>2, OthersStay DEF Moves
  <2> QED BY <2>1, <2>2
<1>12. (~reverted => Ends(row) /\ row.password \in Old /\ retired \subseteq Old)'
  <2> SUFFICES ASSUME ~reverted PROVE (Ends(row) /\ row.password \in Old /\ retired \subseteq Old)'
    BY <1>1
  <2>1. /\ request[r].op \in {"logout", "change"} => request[r].at <= row.logoutAt
        /\ request[r].op = "change" => row.password # request[r].replaced
        /\ request[r].replaced \in Old
    BY <1>1 DEF Saves
  <2>2. Old \subseteq Old'
    BY <1>9 DEF Old
  <2>3. row.logoutAt >= outAt /\ row.password \notin retired /\ row.password \in Old /\ retired \subseteq Old
    BY DEF Ends
  <2>4. row.logoutAt >= outAt'
    BY <1>2, <1>6, <2>1, <2>3
  <2>5. row.password \notin retired' /\ retired' \subseteq Old'
    BY <1>7, <2>1, <2>2, <2>3
  <2> QED BY <1>1, <2>2, <2>3, <2>4, <2>5 DEF Ends
<1>13. \A l \in Lookup : cache'[l] = Null
  BY <1>1
<1>14. CachedUserIsCurrent'
  BY <1>13 DEF CachedUserIsCurrent
<1>15. EndedSessionsFail'
  BY <1>1, <1>4, <1>5 DEF EndedSessionsFail, Moves
<1>16. (row.logoutAt <= now)'
  BY <1>1
<1> QED BY <1>8, <1>11, <1>12, <1>13, <1>14, <1>15, <1>16

\* What a save writes: the update on top of what the request has read, or of the row
LEMMA SavedRow ==
  ASSUME SessionsInv, NEW r \in Request, Save(r)
  PROVE  \E user \in {request[r].user, row} :
           /\ orm = "mongoose" => user = row
           /\ user \in User /\ user.logoutAt <= now /\ row' \in User
           /\ row'.password = IF request[r].op = "change" THEN r ELSE user.password
           /\ row'.logoutAt = IF request[r].op \in {"logout", "change"} THEN request[r].at ELSE user.logoutAt
<1> USE DEF SessionsInv
<1> DEFINE user == IF orm = "typeorm" THEN request[r].user ELSE row
           password == IF request[r].op = "change" THEN r ELSE user.password
           at == IF request[r].op \in {"logout", "change"} THEN request[r].at ELSE user.logoutAt
<1>1. request[r] \in RequestState /\ row \in User /\ request[r].user.logoutAt <= now /\ row.logoutAt <= now
  BY DEF SessionsTypeOK, Updates
<1>2. request[r].user \in User /\ request[r].at \in Nat
  BY <1>1 DEF RequestState
<1>3. user \in {request[r].user, row} /\ (orm = "mongoose" => user = row)
  OBVIOUS
<1>4. row' = [password |-> password, logoutAt |-> at]
  BY DEF Save, Saved, Updated
<1> HIDE DEF user
<1>5. user \in User /\ user.logoutAt <= now
  BY <1>1, <1>2, <1>3
<1>6. password \in Password /\ at \in Nat
  BY <1>2, <1>5 DEF User, Password
<1>7. row' \in User /\ row'.password = password /\ row'.logoutAt = at
  BY <1>4, <1>6 DEF User
<1> QED BY <1>3, <1>5, <1>7

\* Save keeps the invariant.
LEMMA SaveHolds ==
  ASSUME SessionsInv, NEW r \in Request, Save(r)
  PROVE  SessionsInv'
<1> USE DEF SessionsInv
<1>1. PICK user \in {request[r].user, row} :
        /\ orm = "mongoose" => user = row
        /\ user \in User /\ user.logoutAt <= now /\ row' \in User
        /\ row'.password = IF request[r].op = "change" THEN r ELSE user.password
        /\ row'.logoutAt = IF request[r].op \in {"logout", "change"} THEN request[r].at ELSE user.logoutAt
  BY SavedRow
<1>2. /\ request[r] \in RequestState /\ request[r].pc = "read" /\ row \in User /\ now \in Nat
      /\ UNCHANGED <<orm, now, cache, outAt, retired, lapsed>>
      /\ reverted' = (reverted \/ Reverts(r))
      /\ request[r].at <= now /\ request[r].at \in Nat
  BY DEF Save, SessionsTypeOK, Updates, RequestState
<1> DEFINE new == [request[r] EXCEPT !.pc = "saved", !.user = NoUser, !.overlapped = FALSE,
                                     !.replaced = row.password]
<1>3. /\ new \in RequestState /\ new.pc = "saved" /\ new.user = NoUser
      /\ new.replaced = row.password /\ new.op = request[r].op /\ new.at = request[r].at
      /\ new.late = request[r].late /\ new.stale = request[r].stale
  <2>1. row.password \in Password /\ NoUser \in User
    BY <1>2, BlankTypes DEF User
  <2> QED BY <1>2, <2>1 DEF RequestState
<1>4. request'[r] = new
  BY DEF Save
<1> HIDE DEF new
<1>5. ASSUME NEW q \in Request, q # r
      PROVE  /\ request'[q] \in RequestState
             /\ request'[q].pc = request[q].pc /\ request'[q].op = request[q].op
             /\ request'[q].ticket = request[q].ticket /\ request'[q].user = request[q].user
             /\ request'[q].at = request[q].at /\ request'[q].late = request[q].late
             /\ request'[q].stale = request[q].stale /\ request'[q].replaced = request[q].replaced
             /\ request[q].pc \in {"updating", "read"} => request'[q].overlapped
             /\ request[q].pc = "idle" => request'[q] = request[q]
  <2>1. request[q] \in RequestState
    BY DEF SessionsTypeOK
  <2>2. CASE request[q].pc \in {"updating", "read"}
    <3>1. request'[q] = [request[q] EXCEPT !.overlapped = TRUE]
      BY <1>5, <2>2 DEF Save
    <3> QED BY <2>1, <2>2, <3>1 DEF RequestState
  <2>3. CASE request[q].pc \notin {"updating", "read"}
    <3>1. request'[q] = request[q]
      BY <1>5, <2>3 DEF Save
    <3> QED BY <2>1, <2>3, <3>1
  <2> QED BY <2>2, <2>3
<1>6. request' \in [Request -> RequestState]
  <2>1. \A q \in Request : request'[q] \in RequestState
    BY <1>3, <1>4, <1>5
  <2>2. DOMAIN request' = Request /\ request' = [q \in Request |-> request'[q]]
    BY DEF Save
  <2> QED BY <2>1, <2>2
<1>7. /\ reverted' \in BOOLEAN
      /\ ~reverted' => /\ ~reverted /\ row'.logoutAt >= row.logoutAt
                       /\ row'.password = IF request[r].op = "change" THEN r ELSE row.password
  <2>1. row.logoutAt \in Nat /\ row'.logoutAt \in Nat
    BY <1>1, <1>2 DEF User
  <2>2. CASE Reverts(r)
    BY <1>2, <2>2
  <2>3. CASE ~Reverts(r)
    <3>1. reverted' = reverted /\ reverted \in BOOLEAN
      BY <1>2, <2>3 DEF SessionsTypeOK
    <3>2. row'.logoutAt >= row.logoutAt
      BY <2>1, <2>3 DEF Reverts
    <3>3. row'.password = IF request[r].op = "change" THEN r ELSE row.password
      BY <1>1, <2>3 DEF Reverts
    <3> QED BY <3>1, <3>2, <3>3
  <2> QED BY <2>2, <2>3
<1>8. SessionsTypeOK'
  BY <1>1, <1>2, <1>6, <1>7 DEF SessionsTypeOK
<1>9. Done' = Done \cup {r} /\ r \notin Old
  <2>1. r \notin Old
    BY <1>2, RequestFacts DEF Old, Done
  <2>2. \A q \in Request : q \in Done' <=> q \in Done \cup {r}
    BY <1>3, <1>4, <1>5 DEF Done
  <2> QED BY <2>1, <2>2 DEF Done
<1>10. (row.logoutAt <= now)'
  BY <1>1, <1>2
<1>11. (~reverted => Ends(row) /\ row.password \in Old /\ retired \subseteq Old)'
  <2> SUFFICES ASSUME ~reverted' PROVE (Ends(row) /\ row.password \in Old /\ retired \subseteq Old)'
    OBVIOUS
  <2>1. Ends(row) /\ row.password \in Old /\ retired \subseteq Old
    BY <1>7
  <2>2. row.logoutAt \in Nat /\ row'.logoutAt \in Nat /\ outAt \in Nat
    BY <1>1, <1>2 DEF User, SessionsTypeOK
  <2>3. row'.logoutAt >= outAt'
    BY <1>2, <1>7, <2>1, <2>2 DEF Ends
  <2>4. row'.password \notin retired' /\ row'.password \in Old'
    BY <1>2, <1>7, <1>9, <2>1 DEF Ends, Old
  <2> QED BY <1>2, <1>9, <2>1, <2>3, <2>4 DEF Ends, Old
<1>12. (\A l \in Lookup : cache[l] # Null /\ ~cache[l].raced /\ ~reverted => Ends(cache[l].user))'
  BY <1>2, <1>7 DEF Ends
<1>13. Looks(r)' /\ Updates(r)' /\ Saves(r)'
  <2>1. Looks(r)'
    BY <1>3, <1>4 DEF Looks
  <2>2. Updates(r)'
    BY <1>2, <1>3, <1>4 DEF Updates, NoUser
  <2>3. Saves(r)'
    <3>1. ~reverted' => row.password \in Old /\ r \notin Old /\ Old \subseteq Old'
      BY <1>7, <1>9 DEF Old
    <3> QED BY <1>1, <1>2, <1>3, <1>4, <1>7, <3>1 DEF Saves
  <2> QED BY <2>1, <2>2, <2>3
<1>14. ASSUME NEW q \in Request, q # r PROVE Looks(q)' /\ Updates(q)' /\ Saves(q)'
  <2>1. Looks(q)'
    <3>1. HadEnded(request[q]) => HadEnded(request[q])'
      BY <1>2, <1>5, <1>14 DEF HadEnded
    <3>2. Looks(q)
      BY <1>14
    <3> QED BY <1>5, <1>7, <1>14, <3>1, <3>2 DEF Looks, Matches
  <2>2. Updates(q)'
    <3>1. Updates(q)
      BY <1>14
    <3> QED BY <1>2, <1>5, <1>14, <3>1 DEF Updates
  <2>3. Saves(q)'
    <3>1. request[q].at \in Nat /\ row.logoutAt \in Nat /\ row'.logoutAt \in Nat
      BY <1>1, <1>2 DEF SessionsTypeOK, RequestState, User
    <3>2. Saves(q)
      BY <1>14
    <3> QED BY <1>5, <1>7, <1>9, <1>14, <3>1, <3>2 DEF Saves, Old
  <2> QED BY <2>1, <2>2, <2>3
<1>15. \A q \in Request : Looks(q)' /\ Updates(q)' /\ Saves(q)'
  BY <1>13, <1>14
<1>16. CachedUserIsCurrent'
  BY <1>3, <1>4 DEF CachedUserIsCurrent
<1>17. EndedSessionsFail'
  <2> SUFFICES ASSUME NEW q \in Request, request'[q].late, request'[q].pc \notin {"missed", "loaded", "rejected"}
               PROVE  request'[q].stale \/ reverted'
    BY DEF EndedSessionsFail
  <2>1. request[q].late /\ request[q].pc \notin {"missed", "loaded", "rejected"}
        /\ request'[q].stale = request[q].stale
    BY <1>2, <1>3, <1>4, <1>5
  <2> QED BY <1>2, <2>1 DEF EndedSessionsFail
<1> QED BY <1>8, <1>10, <1>11, <1>12, <1>15, <1>16, <1>17

\* Every step keeps the invariant.
LEMMA SessionsStep == SessionsInv /\ [Next]_vars => SessionsInv'
<1> SUFFICES ASSUME SessionsInv, [Next]_vars PROVE SessionsInv'
  OBVIOUS
<1>1. ASSUME NEW r \in Request, NEW password \in {0} \cup Request, Come(r, "login", password)
      PROVE  SessionsInv'
  <2>1. password \in Nat
    BY RequestFacts
  <2> QED BY <1>1, <2>1, ComeHolds
<1>2. ASSUME NEW r \in Request, NEW op \in {"access", "refresh", "logout"}, NEW iat \in Issued,
             Come(r, op, iat)
      PROVE  SessionsInv'
  <2>1. \A q \in Request : request[q].at \in Nat
    BY DEF SessionsInv, SessionsTypeOK, RequestState
  <2>2. iat \in Nat
    BY <2>1 DEF Issued
  <2> QED BY <1>2, <2>2, ComeHolds
<1>3. ASSUME NEW r \in Request,
             Load(r) \/ Fill(r) \/ Change(r) \/ Read(r) \/ Save(r) \/ Reply(r) \/ Fail(r)
      PROVE  SessionsInv'
  BY <1>3, LoadHolds, FillHolds, BeginHolds, SaveHolds, ReplyHolds, FailHolds
<1>4. CASE Tick \/ Evict
  BY <1>4, PassingHolds
<1>5. CASE UNCHANGED vars
  <2>1. UNCHANGED <<orm, now, row, cache, request, outAt, retired, lapsed, reverted>>
    BY <1>5 DEF vars
  <2> QED BY <2>1
      DEF SessionsInv, SessionsTypeOK, Ends, Old, Done, Looks, HadEnded, Matches, Updates, Saves,
          CachedUserIsCurrent, EndedSessionsFail
<1> QED BY <1>1, <1>2, <1>3, <1>4, <1>5 DEF Next

\* The invariant holds in every reachable state.
LEMMA SessionsAlways == Spec => []SessionsInv
  BY SessionsStart, SessionsStep, PTL DEF Spec

\* What Authentication adds leaves the sessions as they are.
LEMMA AuthenticationSessions == AuthenticationSpec => Spec
<1>1. AuthenticationInit => Init
  BY DEF AuthenticationInit
<1>2. [LastSession \/ LogIn]_authenticationVars => [Next]_vars
  BY DEF LastSession, LogIn, authenticationVars
<1> QED BY <1>1, <1>2, PTL DEF AuthenticationSpec, Spec

(***************************************************************************)
(* What follows                                                            *)
(***************************************************************************)

\* The state has its types.
THEOREM SessionsTypeCorrect == AuthenticationSpec => []SessionsTypeOK
<1>1. SessionsInv => SessionsTypeOK
  BY DEF SessionsInv
<1> QED BY <1>1, SessionsAlways, AuthenticationSessions, PTL

\* A session or password that has ended serves no later request, unless by a cached user
\* that was out of date when it was stored, or after a save that took the end back
\* (jwt.strategy.ts:45, auth.service.ts:104).
THEOREM EndedSessionsAlwaysFail == AuthenticationSpec => []EndedSessionsFail
<1>1. SessionsInv => EndedSessionsFail
  BY DEF SessionsInv
<1> QED BY <1>1, SessionsAlways, AuthenticationSessions, PTL

\* A cached user is the row, unless it was older when it was stored, or a save has not
\* expired it yet, or never did (auth.service.ts:104).
THEOREM CachedUserIsAlwaysCurrent == AuthenticationSpec => []CachedUserIsCurrent
<1>1. SessionsInv => CachedUserIsCurrent
  BY DEF SessionsInv
<1> QED BY <1>1, SessionsAlways, AuthenticationSessions, PTL

\* A logout or a password is taken back only by an update that another save overlapped;
\* with mongoose only by one that logs out or sets a password.
THEOREM RevertsAreAlwaysRaces == AuthenticationSpec => RevertsAreRaces
<1>1. ASSUME SessionsInv, NEW r \in Request, Save(r), Reverts(r)
      PROVE  request[r].overlapped /\ (orm = "mongoose" => request[r].op \in {"logout", "change"})
  <2>1. PICK user \in {request[r].user, row} :
          /\ orm = "mongoose" => user = row
          /\ user \in User /\ user.logoutAt <= now /\ row' \in User
          /\ row'.password = IF request[r].op = "change" THEN r ELSE user.password
          /\ row'.logoutAt = IF request[r].op \in {"logout", "change"} THEN request[r].at ELSE user.logoutAt
    BY <1>1, SavedRow
  <2>2. /\ request[r].pc = "read" /\ Updates(r) /\ row.logoutAt \in Nat /\ request[r].at \in Nat
    BY <1>1 DEF Save, SessionsInv, SessionsTypeOK, RequestState, User
  <2>3. request[r].overlapped
    <3>1. SUFFICES ASSUME ~request[r].overlapped PROVE FALSE
      OBVIOUS
    <3>2. user = row /\ row.logoutAt <= request[r].at
      BY <2>1, <2>2, <3>1 DEF Updates
    <3> QED BY <1>1, <2>1, <2>2, <3>2 DEF Reverts
  <2>4. ASSUME orm = "mongoose", request[r].op \notin {"logout", "change"} PROVE FALSE
    BY <1>1, <2>1, <2>2, <2>4 DEF Reverts
  <2> QED BY <2>3, <2>4
<1>2. SessionsInv /\ [Next]_vars =>
        [\A r \in Request : Save(r) /\ Reverts(r) =>
           /\ request[r].overlapped
           /\ orm = "mongoose" => request[r].op \in {"logout", "change"}]_vars
  BY <1>1
<1> QED BY <1>2, SessionsAlways, AuthenticationSessions, PTL DEF RevertsAreRaces, Spec

(***************************************************************************)
(* Logins                                                                  *)
(***************************************************************************)
AccountRow ==
  [source : Provider \cup {"Local", "none"}, enabled : BOOLEAN, password : {"old", "new", "none"}]

LoginState ==
  [pc : {"idle", "booting", "creating", "finding", "loading", "filling", "found",
         "signing", "granted", "failed"},
   kind : {"password", "jwt", "boot"} \cup Provider,
   shown : {"old", "new", "token", "bad"},
   found : AccountRow, tries : Nat \ {0}, past : SUBSET AccountRow, misled : BOOLEAN]

LoginsTypeOK ==
  /\ setup \in {"none", "closed", "open", "unsupported"}
  /\ account \in AccountRow
  /\ copies \in [{"name", "id"} -> AccountRow]
  /\ logins \in [Login -> LoginState]
  /\ outdated \in BOOLEAN /\ expiring \in BOOLEAN

\* A login on its way has seen the account as it is, and the row that it goes by, unless it
\* was misled; one that creates the admin user has seen that there was none.
Sees(l) ==
  LET login == logins[l]
  IN /\ account \in login.past
     /\ login.shown # "bad"
     /\ login.pc \in {"booting", "creating"} => login.kind = "boot"
     /\ login.pc \in {"finding", "loading", "filling", "found"} => login.kind # "boot"
     /\ login.pc = "creating" => NoRow \in login.past
     /\ login.pc \in {"filling", "found"} => login.found \in login.past \/ login.misled

\* A copy that is not outdated is the account, or is about to be expired and was the account
\* when each login on its way saw it.
CopiesAreKnown ==
  ~outdated => \A key \in {"name", "id"} :
    copies[key] \notin {NoRow, account} =>
      expiring /\ \A l \in Active : copies[key] \in logins[l].past

LoginsInv ==
  /\ LoginsTypeOK
  /\ setup = "none" => Active = {} /\ copies = Copies
  /\ \A l \in Active : Sees(l)
  /\ CopiesAreKnown

\* The rows and the records that the actions make are of their types.
LEMMA LoginTypes ==
  /\ NoRow \in AccountRow /\ AdminRow \in AccountRow /\ AdminRow # NoRow
  /\ \A source \in Provider \cup {"Local"} : UserRow(source) \in AccountRow
  /\ Copies \in [{"name", "id"} -> AccountRow] /\ Copies = [key \in {"name", "id"} |-> NoRow]
  /\ Idle \in LoginState
  /\ \A outcome \in {"signing", "granted", "failed"} :
       Ended(outcome) \in LoginState /\ Ended(outcome).pc = outcome
<1>1. NoRow \in AccountRow
  BY DEF NoRow, AccountRow
<1>2. \A source \in Provider \cup {"Local"} : UserRow(source) \in AccountRow
  BY DEF UserRow, AccountRow, Provider
<1>3. AdminRow \in AccountRow /\ AdminRow # NoRow
  BY <1>2 DEF AdminRow, UserRow, NoRow
<1>4. Copies = [key \in {"name", "id"} |-> NoRow]
  BY DEF Copies
<1>5. Idle \in LoginState
  BY <1>1, LoginsAssumption DEF Idle, LoginState
<1>6. ASSUME NEW outcome \in {"signing", "granted", "failed"}
      PROVE  Ended(outcome) \in LoginState /\ Ended(outcome).pc = outcome
  BY <1>5 DEF Ended, LoginState
<1> QED BY <1>1, <1>2, <1>3, <1>4, <1>5, <1>6

\* The logins begin with their invariant.
LEMMA LoginsStart == LoginsInit => LoginsInv
<1> SUFFICES ASSUME LoginsInit PROVE LoginsInv
  OBVIOUS
<1>1. LoginsTypeOK
  BY LoginTypes DEF LoginsInit, LoginsTypeOK
<1>2. Active = {}
  BY DEF LoginsInit, Active, Idle
<1>3. CopiesAreKnown
  BY LoginTypes DEF LoginsInit, CopiesAreKnown
<1> QED BY <1>1, <1>2, <1>3 DEF LoginsInv, LoginsInit

\* A step that decides a login, or leaves it with what it has seen.
Proper(l, step) ==
  \/ step.pc \in {"signing", "granted", "failed"}
  \/ /\ l \in Active /\ step.pc # "idle"
     /\ step.past = logins[l].past /\ step.shown = logins[l].shown
     /\ step.pc \in {"booting", "creating"} => step.kind = "boot"
     /\ step.pc \in {"finding", "loading", "filling", "found"} => step.kind # "boot"
     /\ step.pc = "creating" => NoRow \in step.past
     /\ step.pc \in {"filling", "found"} => step.found \in step.past \/ step.misled

\* A login goes on: it and the others on their way see the account.
LEMMA OnwardSees ==
  ASSUME LoginsInv, NEW l \in Login, NEW step \in LoginState, NEW next \in AccountRow,
         Onward(l, step, next), Proper(l, step)
  PROVE  /\ logins' \in [Login -> LoginState] /\ account' = next /\ setup' = setup
         /\ Active' \subseteq Active
         /\ logins'[l].pc = step.pc
         /\ \A k \in Login \ {l} : logins'[k].pc = logins[k].pc
         /\ \A k \in Active' : Sees(k)' /\ logins[k].past \subseteq logins'[k].past
<1> DEFINE decided == {"idle", "signing", "granted", "failed"}
           moved(k) == IF k = l THEN step ELSE logins[k]
           told(k) == IF moved(k).pc \in decided THEN moved(k)
                      ELSE [moved(k) EXCEPT !.past = moved(k).past \cup {next}]
<1>1. logins \in [Login -> LoginState] /\ \A k \in Active : Sees(k)
  BY DEF LoginsInv, LoginsTypeOK
<1>2. logins' = [k \in Login |-> told(k)] /\ account' = next /\ setup' = setup
  BY DEF Onward
<1>3. \A k \in Login : moved(k) \in LoginState
  BY <1>1
<1>4. ASSUME NEW k \in Login
      PROVE  /\ told(k) \in LoginState /\ told(k).pc = moved(k).pc
             /\ moved(k).pc \notin decided =>
                  /\ told(k).past = moved(k).past \cup {next} /\ told(k).shown = moved(k).shown
                  /\ told(k).kind = moved(k).kind /\ told(k).found = moved(k).found
                  /\ told(k).misled = moved(k).misled
  <2>1. moved(k) \in LoginState
    BY <1>3
  <2>2. told(k) = IF moved(k).pc \in decided THEN moved(k)
                  ELSE [moved(k) EXCEPT !.past = moved(k).past \cup {next}]
    OBVIOUS
  <2> HIDE DEF moved, told
  <2>3. CASE moved(k).pc \in decided
    BY <2>1, <2>2, <2>3
  <2>4. CASE moved(k).pc \notin decided
    BY <2>1, <2>2, <2>4 DEF LoginState
  <2> QED BY <2>3, <2>4
<1>5. \A k \in Login : logins'[k] = told(k)
  BY <1>2
<1> HIDE DEF told
<1>6. logins' \in [Login -> LoginState]
  BY <1>2, <1>4
<1>7. Active' = {k \in Login : moved(k).pc \notin decided}
  BY <1>4, <1>5 DEF Active
<1>8. \A k \in Active' : k \in Login /\ k \in Active /\ moved(k).pc \notin decided
  BY <1>7 DEF Active, Proper
<1>9. ASSUME NEW k \in Active' PROVE Sees(k)' /\ logins[k].past \subseteq logins'[k].past
  <2> DEFINE m == moved(k)
             t == told(k)
  <2>1. /\ k \in Login /\ k \in Active /\ m.pc \notin decided /\ m \in LoginState
        /\ t.past = m.past \cup {next} /\ t.shown = m.shown /\ t.kind = m.kind
        /\ t.found = m.found /\ t.misled = m.misled /\ t.pc = m.pc
    BY <1>3, <1>4, <1>8
  <2>2. Sees(k) /\ logins'[k] = t
    BY <1>1, <1>5, <2>1
  <2>3. /\ m.shown # "bad" /\ logins[k].past \subseteq m.past
        /\ m.pc \in {"booting", "creating"} => m.kind = "boot"
        /\ m.pc \in {"finding", "loading", "filling", "found"} => m.kind # "boot"
        /\ m.pc = "creating" => NoRow \in m.past
        /\ m.pc \in {"filling", "found"} => m.found \in m.past \/ m.misled
    <3>1. CASE k = l
      BY <2>1, <2>2, <3>1 DEF Sees, Proper
    <3>2. CASE k # l
      BY <2>2, <3>2 DEF Sees
    <3> QED BY <3>1, <3>2
  <2> HIDE DEF m, t
  <2> QED BY <1>2, <2>1, <2>2, <2>3 DEF Sees
<1> QED BY <1>1, <1>2, <1>4, <1>5, <1>6, <1>8, <1>9

\* A step of a login that leaves the copies in order keeps the invariant, and is just if it
\* decides the login justly.
LEMMA OnwardHolds ==
  ASSUME LoginsInv, NEW l \in Login, NEW step \in LoginState, NEW next \in AccountRow,
         Onward(l, step, next), Proper(l, step),
         copies' \in [{"name", "id"} -> AccountRow], outdated' \in BOOLEAN, expiring' \in BOOLEAN,
         CopiesAreKnown', setup = "none" => copies' = Copies,
         l \in Active => DecidedJustly(l)
  PROVE  LoginsInv' /\ \A k \in Active : DecidedJustly(k)
<1>1. /\ logins' \in [Login -> LoginState] /\ account' = next /\ setup' = setup
      /\ Active' \subseteq Active /\ \A k \in Login \ {l} : logins'[k].pc = logins[k].pc
      /\ \A k \in Active' : Sees(k)'
  BY OnwardSees
<1>2. LoginsTypeOK'
  BY <1>1 DEF LoginsTypeOK, LoginsInv
<1>3. setup' = "none" => Active' = {} /\ copies' = Copies
  BY <1>1 DEF LoginsInv
<1>4. ASSUME NEW k \in Active PROVE DecidedJustly(k)
  <2>1. CASE k = l
    BY <2>1
  <2>2. CASE k # l
    <3>1. logins'[k].pc \notin {"signing", "granted", "failed"}
      BY <1>1, <2>2 DEF Active
    <3> QED BY <3>1 DEF DecidedJustly
  <2> QED BY <2>1, <2>2
<1> QED BY <1>1, <1>2, <1>3, <1>4, LoginTypes DEF LoginsInv, Copies

\* A step of a login that leaves the account and the copies as they are.
LEMMA MoveHolds ==
  ASSUME LoginsInv, NEW l \in Login, NEW step \in LoginState, Move(l, step), Proper(l, step),
         l \in Active => DecidedJustly(l)
  PROVE  LoginsInv' /\ \A k \in Active : DecidedJustly(k)
<1>1. /\ Onward(l, step, account) /\ UNCHANGED <<copies, outdated, expiring>> /\ account \in AccountRow
      /\ copies \in [{"name", "id"} -> AccountRow] /\ outdated \in BOOLEAN /\ expiring \in BOOLEAN
      /\ CopiesAreKnown /\ (setup = "none" => copies = Copies)
  BY DEF Move, LoginsInv, LoginsTypeOK
<1>2. /\ account' = account /\ Active' \subseteq Active
      /\ \A k \in Active' : logins[k].past \subseteq logins'[k].past
  BY <1>1, OnwardSees
<1>3. CopiesAreKnown'
  BY <1>1, <1>2 DEF CopiesAreKnown
<1> QED BY <1>1, <1>3, OnwardHolds

\* A step of a login that expires the copies.
LEMMA ClearHolds ==
  ASSUME LoginsInv, NEW l \in Login, NEW step \in LoginState, NEW next \in AccountRow,
         Onward(l, step, next), Clear, UNCHANGED expiring, Proper(l, step), l \in Active => DecidedJustly(l)
  PROVE  LoginsInv' /\ \A k \in Active : DecidedJustly(k)
<1>1. /\ copies' = Copies /\ outdated' = FALSE /\ expiring' \in BOOLEAN
      /\ Copies \in [{"name", "id"} -> AccountRow]
  BY LoginTypes DEF Clear, LoginsInv, LoginsTypeOK
<1>2. \A key \in {"name", "id"} : copies'[key] = NoRow
  BY <1>1, LoginTypes
<1>3. CopiesAreKnown'
  BY <1>2 DEF CopiesAreKnown
<1> QED BY <1>1, <1>3, OnwardHolds

\* What Onward makes of the login itself when it is decided.
LEMMA OnwardEnds ==
  ASSUME NEW l \in Login, NEW outcome \in {"signing", "granted", "failed"}, NEW next,
         Onward(l, Ended(outcome), next)
  PROVE  logins'[l].pc = outcome /\ account' = next /\ setup' = setup
<1>1. Ended(outcome).pc = outcome
  BY LoginTypes
<1>2. logins'[l] = Ended(outcome)
  BY <1>1 DEF Onward
<1> QED BY <1>1, <1>2 DEF Onward

\* What Onward makes of it when it is not.
LEMMA OnwardGoes ==
  ASSUME NEW l \in Login, NEW step \in LoginState, NEW next, Onward(l, step, next),
         step.pc \notin {"signing", "granted", "failed"}
  PROVE  DecidedJustly(l)
<1>1. logins'[l].pc = step.pc
  <2>1. logins'[l] = IF step.pc = "idle" THEN step ELSE [step EXCEPT !.past = @ \cup {next}]
    BY DEF Onward
  <2> QED BY <2>1 DEF LoginState
<1> QED BY <1>1 DEF DecidedJustly

\* A login that ends, by a row that it has seen, as that row asks for, or with a cause.
LEMMA EndHolds ==
  ASSUME LoginsInv, NEW l \in Active, NEW outcome \in {"signing", "granted", "failed"},
         Move(l, Ended(outcome)),
         \/ logins[l].misled
         \/ outcome = "failed" /\ Throw(l)
         \/ outcome # "failed" /\ logins[l].tries = 1
         \/ \E seen \in logins[l].past : Deserves(logins[l], seen) <=> outcome # "failed"
  PROVE  LoginsInv' /\ \A k \in Active : DecidedJustly(k)
<1>1. l \in Login /\ Ended(outcome) \in LoginState /\ Ended(outcome).pc = outcome
  BY LoginTypes DEF Active
<1>2. logins'[l].pc = outcome /\ account' = account
  BY <1>1, OnwardEnds DEF Move
<1>3. DecidedJustly(l)
  BY <1>2 DEF DecidedJustly
<1> QED BY <1>1, <1>3, MoveHolds DEF Proper

\* Only the kinds that can be are of use to a login on its way.
LEMMA ActiveLogin ==
  ASSUME LoginsInv, NEW l \in Active
  PROVE  /\ l \in Login /\ logins[l] \in LoginState /\ Sees(l) /\ account \in AccountRow
         /\ setup \in {"closed", "open", "unsupported"} /\ account \in logins[l].past
BY DEF LoginsInv, LoginsTypeOK, Active, Sees

\* The steps of findAndCacheUser keep the invariant.
LEMMA FindHolds ==
  ASSUME LoginsInv, NEW l \in Login, FindCopy(l) \/ LoadUser(l) \/ FillCopy(l)
  PROVE  LoginsInv' /\ \A k \in Active : DecidedJustly(k)
<1> DEFINE login == logins[l]
<1>0. l \in Active
  BY DEF FindCopy, LoadUser, FillCopy, Active
<1>1. login \in LoginState /\ Sees(l) /\ account \in AccountRow /\ account \in login.past
  BY <1>0, ActiveLogin
<1>2. login.pc \in {"finding", "loading", "filling"} /\ login.kind # "boot" /\ login.shown # "bad"
  BY <1>1 DEF FindCopy, LoadUser, FillCopy, Sees
<1>k. /\ CopyKey(login.kind) \in {"name", "id"} /\ copies \in [{"name", "id"} -> AccountRow]
      /\ outdated \in BOOLEAN /\ expiring \in BOOLEAN
  BY DEF CopyKey, LoginsInv, LoginsTypeOK
<1>3. CASE FindCopy(l)
  <2> DEFINE copy == copies[CopyKey(login.kind)]
             step == [login EXCEPT !.found = copy, !.pc = IF copy = NoRow THEN "loading" ELSE "found",
                                   !.misled = copy # NoRow /\ outdated]
  <2>1. copy \in AccountRow
    BY <1>k
  <2>2. /\ step \in LoginState /\ step.pc \in {"loading", "found"} /\ step.past = login.past
        /\ step.shown = login.shown /\ step.kind = login.kind /\ step.found = copy
        /\ step.pc = "found" => copy # NoRow /\ step.misled = outdated
    BY <1>1, <1>k, <2>1 DEF LoginState
  <2>3. step.pc = "found" => copy \in login.past \/ step.misled
    BY <1>0, <1>1, <1>k, <2>2 DEF LoginsInv, CopiesAreKnown
  <2>4. Move(l, step)
    BY <1>3 DEF FindCopy
  <2> HIDE DEF step, login
  <2>5. Proper(l, step)
    BY <1>0, <1>2, <2>2, <2>3 DEF Proper, login
  <2> QED BY <2>2, <2>4, <2>5, MoveHolds, OnwardGoes DEF Move
<1>4. CASE LoadUser(l)
  <2> DEFINE step == [login EXCEPT !.found = account, !.pc = "filling"]
  <2>1. /\ step \in LoginState /\ step.pc = "filling" /\ step.past = login.past
        /\ step.shown = login.shown /\ step.kind = login.kind /\ step.found = account
    BY <1>1 DEF LoginState
  <2>2. Move(l, step)
    BY <1>4 DEF LoadUser
  <2> HIDE DEF step
  <2>3. Proper(l, step)
    BY <1>0, <1>1, <1>2, <2>1 DEF Proper
  <2> QED BY <2>1, <2>2, <2>3, MoveHolds, OnwardGoes DEF Move
<1>5. CASE FillCopy(l)
  <2> DEFINE step == [login EXCEPT !.pc = "found"]
             key == CopyKey(login.kind)
  <2>1. /\ step \in LoginState /\ step.pc = "found" /\ step.past = login.past
        /\ step.shown = login.shown /\ step.kind = login.kind /\ step.found = login.found
        /\ step.misled = login.misled
    BY <1>1 DEF LoginState
  <2>2. /\ Onward(l, step, account) /\ copies' = [copies EXCEPT ![key] = login.found]
        /\ outdated' = (outdated \/ login.found # account) /\ expiring' = expiring
        /\ login.pc = "filling"
    BY <1>5 DEF FillCopy
  <2> HIDE DEF step
  <2>3. Proper(l, step)
    BY <1>0, <1>1, <1>2, <2>1, <2>2 DEF Proper, Sees
  <2>4. login.found \in AccountRow /\ copies' \in [{"name", "id"} -> AccountRow] /\ outdated' \in BOOLEAN
    BY <1>1, <1>k, <2>2 DEF LoginState
  <2>5. /\ account' = account /\ Active' \subseteq Active
        /\ \A k \in Active' : logins[k].past \subseteq logins'[k].past
    BY <1>1, <2>1, <2>2, <2>3, OnwardSees
  <2>6. CopiesAreKnown'
    <3>1. SUFFICES ASSUME ~outdated', NEW any \in {"name", "id"}, copies'[any] \notin {NoRow, account'}
                   PROVE  expiring' /\ \A k \in Active' : copies'[any] \in logins'[k].past
      BY DEF CopiesAreKnown
    <3>2. any # key /\ copies'[any] = copies[any] /\ ~outdated
      BY <1>k, <2>2, <2>5, <3>1
    <3> QED BY <2>2, <2>5, <3>1, <3>2 DEF LoginsInv, CopiesAreKnown
  <2>7. setup # "none"
    BY <1>0, ActiveLogin
  <2> QED BY <1>1, <1>k, <2>1, <2>2, <2>3, <2>4, <2>6, <2>7, OnwardHolds, OnwardGoes
<1> QED BY <1>3, <1>4, <1>5

\* The steps that decide a login by the row that it has found keep the invariant.
LEMMA CheckHolds ==
  ASSUME LoginsInv, NEW l \in Login, CheckPassword(l) \/ CheckUser(l) \/ CheckSource(l)
  PROVE  LoginsInv' /\ \A k \in Active : DecidedJustly(k)
<1> DEFINE login == logins[l]
<1>0. l \in Active
  BY DEF CheckPassword, CheckUser, CheckSource, Active
<1>1. /\ login \in LoginState /\ login.pc = "found" /\ login.shown # "bad"
      /\ login.kind \in {"password", "jwt"} \cup Provider
      /\ login.found \in login.past \/ login.misled
  BY <1>0, ActiveLogin DEF CheckPassword, CheckUser, CheckSource, Sees
<1>2. PICK outcome \in {"signing", "granted", "failed"} :
        Move(l, Ended(outcome)) /\ (outcome # "failed" <=> Deserves(login, login.found))
  <2>1. CASE CheckPassword(l)
    <3>1. Deserves(login, login.found) <=> PasswordFits(login.found, login.shown)
      BY <1>1, <2>1 DEF CheckPassword, Deserves, Provider
    <3> QED BY <2>1, <3>1 DEF CheckPassword, Grant, Stop
  <2>2. CASE CheckUser(l)
    <3>1. Deserves(login, login.found) <=> login.found.enabled
      BY <1>1, <2>2 DEF CheckUser, Deserves, Provider
    <3> QED BY <2>2, <3>1 DEF CheckUser, Grant, Stop
  <2>3. CASE CheckSource(l)
    <3>1. Deserves(login, login.found) <=> login.found.source = login.kind
      BY <1>1, <2>3 DEF CheckSource, Deserves, Provider
    <3> QED BY <2>3, <3>1 DEF CheckSource, Grant, Stop
  <2> QED BY <2>1, <2>2, <2>3
<1> QED BY <1>0, <1>1, <1>2, EndHolds

\* RegisterUser keeps the invariant.
LEMMA RegisterHolds ==
  ASSUME LoginsInv, NEW l \in Login, RegisterUser(l)
  PROVE  LoginsInv' /\ \A k \in Active : DecidedJustly(k)
<1> DEFINE login == logins[l]
<1>0. l \in Active
  BY DEF RegisterUser, Active
<1>1. /\ login \in LoginState /\ login.pc = "found" /\ login.shown # "bad" /\ login.kind \in Provider
      /\ NoRow \in login.past \/ login.misled
      /\ setup \in {"closed", "open", "unsupported"} /\ account \in login.past
  BY <1>0, ActiveLogin DEF RegisterUser, Sees
<1>2. Deserves(login, NoRow) <=> setup = "open"
  BY <1>1 DEF Deserves, NoRow, Provider
<1>3. CASE setup = "closed" \/ account # NoRow
  <2>1. Move(l, Ended("failed"))
    BY <1>3 DEF RegisterUser, Stop
  <2>2. CASE login.misled \/ setup = "closed"
    BY <1>0, <1>1, <1>2, <2>1, <2>2, EndHolds
  <2>3. CASE ~login.misled /\ account # NoRow
    <3>1. Ended("failed") \in LoginState /\ Ended("failed").pc = "failed"
      BY LoginTypes
    <3>2. DecidedJustly(l)
      BY <1>1, <2>1, <2>3, OnwardEnds DEF DecidedJustly, Move
    <3> QED BY <2>1, <3>1, <3>2, MoveHolds DEF Proper
  <2> QED BY <1>3, <2>2, <2>3
<1>4. CASE setup # "closed" /\ account = NoRow
  <2>1. PICK outcome \in {"signing", "failed"} :
          /\ Onward(l, Ended(outcome), UserRow(login.kind)) /\ Clear /\ UNCHANGED expiring
          /\ outcome = "signing" <=> setup = "open"
    BY <1>1, <1>4 DEF RegisterUser
  <2>2. Ended(outcome) \in LoginState /\ Ended(outcome).pc = outcome
        /\ UserRow(login.kind) \in AccountRow
    BY <1>1, LoginTypes
  <2>3. DecidedJustly(l)
    BY <1>1, <1>2, <2>1, OnwardEnds DEF DecidedJustly
  <2> QED BY <2>1, <2>2, <2>3, ClearHolds DEF Proper
<1> QED BY <1>3, <1>4

\* SignIn and a query that throws keep the invariant.
LEMMA SignInHolds ==
  ASSUME LoginsInv, NEW l \in Login, SignIn(l) \/ Throw(l)
  PROVE  LoginsInv' /\ \A k \in Active : DecidedJustly(k)
<1>0. /\ Ended("failed") \in LoginState /\ Ended("failed").pc = "failed"
      /\ Ended("granted") \in LoginState /\ Ended("granted").pc = "granted"
      /\ account \in AccountRow
  BY LoginTypes DEF LoginsInv, LoginsTypeOK
<1>1. CASE Move(l, Ended("failed"))
  <2>1. l \in Active => DecidedJustly(l)
    <3>1. SUFFICES ASSUME l \in Active PROVE DecidedJustly(l)
      OBVIOUS
    <3>2. Throw(l)
      BY <3>1 DEF SignIn, Active
    <3> QED BY <1>1, <3>2, OnwardEnds DEF DecidedJustly, Move
  <2> QED BY <1>0, <1>1, <2>1, MoveHolds DEF Proper
<1>2. CASE ~Move(l, Ended("failed"))
  <2>1. /\ Onward(l, Ended("granted"), account) /\ Clear /\ UNCHANGED expiring
        /\ l \notin Active
    BY <1>2 DEF SignIn, Throw, Stop, Active
  <2> QED BY <1>0, <2>1, ClearHolds DEF Proper
<1> QED BY <1>1, <1>2

\* The steps of createAdminUser keep the invariant.
LEMMA BootHolds ==
  ASSUME LoginsInv, NEW l \in Login, FindAdmin(l) \/ RetryAdmin(l) \/ CreateAdmin(l)
  PROVE  LoginsInv' /\ \A k \in Active : DecidedJustly(k)
<1> DEFINE login == logins[l]
<1>0. l \in Active
  BY DEF FindAdmin, RetryAdmin, CreateAdmin, Active
<1>1. /\ login \in LoginState /\ login.kind = "boot" /\ login.shown # "bad"
      /\ login.pc \in {"booting", "creating"} /\ login.pc = "creating" => NoRow \in login.past
      /\ account \in login.past /\ account \in AccountRow
  BY <1>0, ActiveLogin DEF FindAdmin, RetryAdmin, CreateAdmin, Sees
<1>2. \A seen : Deserves(login, seen) <=> seen # NoRow
  BY <1>1 DEF Deserves, Provider
<1>3. CASE FindAdmin(l)
  <2>1. CASE account = NoRow
    <3> DEFINE step == [login EXCEPT !.pc = "creating"]
    <3>1. Move(l, step)
      BY <1>3, <2>1 DEF FindAdmin
    <3>2. /\ step \in LoginState /\ step.pc = "creating" /\ step.past = login.past
          /\ step.shown = login.shown /\ step.kind = login.kind
      BY <1>1 DEF LoginState
    <3> HIDE DEF step
    <3>3. Proper(l, step)
      BY <1>0, <1>1, <2>1, <3>2 DEF Proper
    <3> QED BY <3>1, <3>2, <3>3, MoveHolds, OnwardGoes DEF Move
  <2>2. CASE account # NoRow
    BY <1>0, <1>1, <1>2, <1>3, <2>2, EndHolds DEF FindAdmin
  <2> QED BY <2>1, <2>2
<1>4. CASE RetryAdmin(l)
  <2>1. CASE login.tries = 1
    BY <1>0, <1>4, <2>1, EndHolds DEF RetryAdmin
  <2>2. CASE login.tries # 1
    <3> DEFINE step == [login EXCEPT !.tries = @ - 1]
    <3>1. Move(l, step) /\ login.pc = "booting"
      BY <1>4, <2>2 DEF RetryAdmin
    <3>2. login.tries - 1 \in Nat \ {0}
      BY <1>1, <2>2 DEF LoginState
    <3>3. /\ step \in LoginState /\ step.pc = "booting" /\ step.past = login.past
          /\ step.shown = login.shown /\ step.kind = login.kind
      BY <1>1, <3>1, <3>2 DEF LoginState
    <3> HIDE DEF step
    <3>4. Proper(l, step)
      BY <1>0, <1>1, <3>3 DEF Proper
    <3> QED BY <3>1, <3>3, <3>4, MoveHolds, OnwardGoes DEF Move
  <2> QED BY <2>1, <2>2
<1>5. CASE CreateAdmin(l)
  <2>1. NoRow \in login.past
    BY <1>1, <1>5 DEF CreateAdmin
  <2>2. CASE account # NoRow
    <3>1. Move(l, Ended("failed"))
      BY <1>5, <2>2 DEF CreateAdmin, Stop
    <3> QED BY <1>0, <1>2, <2>1, <3>1, EndHolds
  <2>3. CASE account = NoRow
    <3>1. Onward(l, Ended("granted"), AdminRow) /\ Clear /\ UNCHANGED expiring
      BY <1>5, <2>3 DEF CreateAdmin
    <3>2. Ended("granted") \in LoginState /\ Ended("granted").pc = "granted"
          /\ AdminRow \in AccountRow /\ AdminRow # NoRow
      BY LoginTypes
    <3>3. DecidedJustly(l)
      BY <1>2, <3>1, <3>2, OnwardEnds DEF DecidedJustly
    <3> QED BY <3>1, <3>2, <3>3, ClearHolds DEF Proper
  <2> QED BY <2>2, <2>3
<1> QED BY <1>3, <1>4, <1>5

\* A login that comes sees the account, and the copies of it that are about to be expired.
LEMMA ArriveHolds ==
  ASSUME LoginsInv, NEW l \in Login, NEW kind \in {"password", "jwt", "boot"} \cup Provider,
         NEW shown \in {"old", "new", "token", "bad"}, Arrive(l, kind, shown)
  PROVE  LoginsInv' /\ \A k \in Active : DecidedJustly(k)
<1> DEFINE seen == {account} \cup (IF expiring THEN Range(copies) \ {NoRow} ELSE {})
           come == [Idle EXCEPT !.pc = IF kind = "boot" THEN "booting" ELSE "finding", !.kind = kind,
                                !.shown = shown, !.past = seen]
           new == IF shown = "bad" THEN Ended("failed") ELSE come
<1>1. /\ logins' = [logins EXCEPT ![l] = new] /\ setup # "none" /\ logins[l].pc = "idle"
      /\ UNCHANGED <<setup, account, copies, outdated, expiring, changes>>
  BY DEF Arrive
<1>2. /\ logins \in [Login -> LoginState] /\ account \in AccountRow
      /\ copies \in [{"name", "id"} -> AccountRow]
  BY DEF LoginsInv, LoginsTypeOK
<1>3. seen \in SUBSET AccountRow
  BY <1>2 DEF Range
<1>4. /\ come \in LoginState /\ come.pc \in {"booting", "finding"} /\ come.past = seen
      /\ come.shown = shown /\ come.kind = kind
      /\ (come.pc = "booting" => kind = "boot") /\ (come.pc = "finding" => kind # "boot")
  <2>1. Idle \in LoginState
    BY LoginTypes
  <2> HIDE DEF seen
  <2> QED BY <1>3, <2>1 DEF LoginState
<1>5. new \in LoginState /\ new.pc # "idle" /\ (shown = "bad" => new.pc = "failed")
  BY <1>4, LoginTypes
<1> HIDE DEF new, come
<1>6. logins' \in [Login -> LoginState] /\ logins'[l] = new /\ \A k \in Login \ {l} : logins'[k] = logins[k]
  BY <1>1, <1>2, <1>5
<1>7. LoginsTypeOK'
  BY <1>1, <1>6 DEF LoginsInv, LoginsTypeOK
<1>8. ASSUME NEW k \in Active'
      PROVE  /\ k # l => k \in Active /\ Sees(k) /\ logins'[k] = logins[k]
             /\ k = l => logins'[k] = come /\ shown # "bad"
  <2>1. k \in Login
    BY DEF Active
  <2>2. CASE k = l
    BY <1>5, <1>6, <2>2 DEF Active, new
  <2>3. CASE k # l
    BY <1>6, <2>1, <2>3 DEF Active, LoginsInv
  <2> QED BY <2>2, <2>3
<1>9. ASSUME NEW k \in Active' PROVE Sees(k)'
  <2>1. CASE k = l
    BY <1>1, <1>4, <1>8, <2>1 DEF Sees
  <2>2. CASE k # l
    BY <1>1, <1>8, <2>2 DEF Sees
  <2> QED BY <2>1, <2>2
<1>10. CopiesAreKnown'
  <2>1. SUFFICES ASSUME ~outdated, NEW key \in {"name", "id"}, copies[key] \notin {NoRow, account}
                 PROVE  expiring /\ \A k \in Active' : copies[key] \in logins'[k].past
    BY <1>1 DEF CopiesAreKnown
  <2>2. expiring /\ \A k \in Active : copies[key] \in logins[k].past
    BY <2>1 DEF LoginsInv, CopiesAreKnown
  <2>3. copies[key] \in seen
    BY <1>2, <2>1, <2>2 DEF Range
  <2> QED BY <1>4, <1>8, <2>2, <2>3
<1>11. ASSUME NEW k \in Active PROVE DecidedJustly(k)
  <2>1. k # l /\ k \in Login /\ logins'[k].pc \notin {"signing", "granted", "failed"}
    BY <1>1, <1>6 DEF Active
  <2> QED BY <2>1 DEF DecidedJustly
<1> QED BY <1>1, <1>7, <1>9, <1>10, <1>11 DEF LoginsInv

\* What the rest of the application does keeps the invariant, and decides no login.
LEMMA RestHolds ==
  ASSUME LoginsInv, Prepare \/ ChangeAccount \/ ExpireCopies \/ UNCHANGED loginsVars
  PROVE  LoginsInv' /\ \A k \in Active : DecidedJustly(k)
<1>1. /\ logins \in [Login -> LoginState] /\ account \in AccountRow
      /\ copies \in [{"name", "id"} -> AccountRow]
  BY DEF LoginsInv, LoginsTypeOK
<1>2. CASE Prepare
  <2>1. Active = {} /\ copies = Copies /\ UNCHANGED <<copies, logins, outdated, expiring>>
    BY <1>2 DEF Prepare, LoginsInv
  <2>2. setup' \in {"closed", "open", "unsupported"} /\ Active' = {}
    BY <1>2, <2>1 DEF Prepare, Active
  <2>3. account' \in AccountRow
    <3>1. PICK source \in {"Local", "Facebook"}, enabled \in BOOLEAN :
            account' \in {NoRow, [UserRow(source) EXCEPT !.enabled = enabled]}
      BY <1>2 DEF Prepare
    <3>2. UserRow(source) \in AccountRow
      BY LoginTypes DEF Provider
    <3>3. [UserRow(source) EXCEPT !.enabled = enabled] \in AccountRow
      BY <3>2 DEF AccountRow
    <3> QED BY <3>1, <3>3, LoginTypes
  <2>4. CopiesAreKnown'
    <3>1. \A key \in {"name", "id"} : copies'[key] = NoRow
      BY <2>1, LoginTypes
    <3> QED BY <3>1 DEF CopiesAreKnown
  <2> QED BY <2>1, <2>2, <2>3, <2>4 DEF LoginsInv, LoginsTypeOK
<1>3. CASE ChangeAccount
  <2>1. PICK row1 \in {NoRow, [account EXCEPT !.enabled = ~@], [account EXCEPT !.password = "new"]} :
          /\ account' = row1
          /\ logins' = [l \in Login |-> IF l \in Active THEN [logins[l] EXCEPT !.past = @ \cup {row1}]
                                        ELSE logins[l]]
    BY <1>3 DEF ChangeAccount
  <2>2. /\ setup # "none" /\ ~expiring /\ expiring' = TRUE /\ UNCHANGED <<setup, copies, outdated>>
    BY <1>3 DEF ChangeAccount
  <2>3. row1 \in AccountRow
    BY <1>1, <2>1, LoginTypes DEF AccountRow
  <2>4. ASSUME NEW l \in Login
        PROVE  /\ logins'[l] \in LoginState /\ logins'[l].pc = logins[l].pc
               /\ l \in Active =>
                    /\ logins'[l].past = logins[l].past \cup {row1} /\ logins'[l].shown = logins[l].shown
                    /\ logins'[l].kind = logins[l].kind /\ logins'[l].found = logins[l].found
                    /\ logins'[l].misled = logins[l].misled
    <3>1. logins[l] \in LoginState
      BY <1>1
    <3>2. CASE l \in Active
      <4>1. logins'[l] = [logins[l] EXCEPT !.past = @ \cup {row1}]
        BY <2>1, <3>2
      <4> QED BY <2>3, <3>1, <3>2, <4>1 DEF LoginState
    <3>3. CASE l \notin Active
      BY <2>1, <3>1, <3>3
    <3> QED BY <3>2, <3>3
  <2>5. logins' \in [Login -> LoginState] /\ Active' = Active
    BY <2>1, <2>4 DEF Active
  <2>6. \A l \in Active : l \in Login /\ Sees(l)
    BY DEF Active, LoginsInv
  <2>7. \A l \in Active' : Sees(l)'
    BY <2>1, <2>4, <2>5, <2>6 DEF Sees
  <2>8. CopiesAreKnown'
    <3>1. SUFFICES ASSUME ~outdated, NEW key \in {"name", "id"}, copies[key] # NoRow
                   PROVE  \A l \in Active' : copies[key] \in logins'[l].past
      BY <2>2 DEF CopiesAreKnown
    <3>2. copies[key] = account
      BY <2>2, <3>1 DEF LoginsInv, CopiesAreKnown
    <3> QED BY <2>4, <2>5, <2>6, <3>2 DEF Sees
  <2>9. \A l \in Active : DecidedJustly(l)
    <3>1. \A l \in Active : logins'[l].pc \notin {"signing", "granted", "failed"}
      BY <2>4, <2>6 DEF Active
    <3> QED BY <3>1 DEF DecidedJustly
  <2> QED BY <2>1, <2>2, <2>3, <2>5, <2>7, <2>8, <2>9 DEF LoginsInv, LoginsTypeOK
<1>4. CASE ExpireCopies \/ UNCHANGED loginsVars
  <2>1. /\ UNCHANGED <<setup, account, logins>> /\ Active' = Active
        /\ \/ copies' = Copies /\ outdated' = FALSE /\ expiring' = FALSE
           \/ UNCHANGED <<copies, outdated, expiring>>
    BY <1>4 DEF ExpireCopies, Clear, loginsVars, Active
  <2>2. \A l \in Active' : Sees(l)'
    BY <2>1 DEF LoginsInv, Sees
  <2>3. CopiesAreKnown'
    <3>1. CASE UNCHANGED <<copies, outdated, expiring>>
      BY <2>1, <3>1 DEF LoginsInv, CopiesAreKnown
    <3>2. CASE copies' = Copies
      BY <3>2, LoginTypes DEF CopiesAreKnown
    <3> QED BY <2>1, <3>1, <3>2
  <2>4. LoginsTypeOK'
    BY <2>1, LoginTypes DEF LoginsInv, LoginsTypeOK
  <2>5. \A l \in Active : DecidedJustly(l)
    <3>1. \A l \in Active : logins'[l].pc \notin {"signing", "granted", "failed"}
      BY <2>1 DEF Active
    <3> QED BY <3>1 DEF DecidedJustly
  <2> QED BY <2>1, <2>2, <2>3, <2>4, <2>5 DEF LoginsInv
<1> QED BY <1>2, <1>3, <1>4

\* Every step keeps the invariant, and decides what it decides justly.
LEMMA LoginsStep ==
  ASSUME LoginsInv, [LoginNext]_loginsVars
  PROVE  LoginsInv' /\ \A k \in Active : DecidedJustly(k)
<1>1. ASSUME NEW l \in Login,
             ComePassword(l) \/ ComeJwt(l) \/ ComeFacebook(l) \/ ComeGoogle(l) \/ Arrive(l, "boot", "token")
      PROVE  \E kind \in {"password", "jwt", "boot"} \cup Provider, shown \in {"old", "new", "token", "bad"} :
               Arrive(l, kind, shown)
  BY <1>1 DEF ComePassword, ComeJwt, ComeFacebook, ComeGoogle, Provider
<1> QED
  BY <1>1, ArriveHolds, FindHolds, CheckHolds, RegisterHolds, SignInHolds, BootHolds, RestHolds DEF LoginNext

\* A login, a request with credentials and the start of a process are decided as a state of the
\* account in the meantime asks for, but for the causes that the property names
\* (auth.service.ts:104, facebook.service.ts, google.service.ts, account.service.ts).
THEOREM LoginsAreAlwaysJust == AuthenticationSpec => LoginsAreJust
<1>1. AuthenticationInit => LoginsInv
  BY LoginsStart DEF AuthenticationInit
<1>2. [LastSession \/ LogIn]_authenticationVars => [LoginNext]_loginsVars
  BY DEF LastSession, LogIn, authenticationVars
<1>3. LoginsInv /\ [LastSession \/ LogIn]_authenticationVars => LoginsInv'
  BY <1>2, LoginsStep
<1>4. LoginsInv /\ [LastSession \/ LogIn]_authenticationVars =>
        [\A l \in Active : DecidedJustly(l)]_loginsVars
  BY <1>2, LoginsStep
<1> QED BY <1>1, <1>3, <1>4, PTL DEF AuthenticationSpec, LoginsAreJust
=============================================================================
