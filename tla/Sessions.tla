------------------------------ MODULE Sessions ------------------------------
(***************************************************************************)
(* The sessions of one user.  A session is the time iat its JWT was        *)
(* issued: JwtStrategy (src/lib/auth/strategy/jwt/jwt.strategy.ts) accepts *)
(* it unless the user logged out later.  The user it asks is               *)
(* findAndCacheUser of AuthService (src/lib/auth/auth.service.ts), which   *)
(* may be older than the row; what logs in, logs out or sets a password is *)
(* an update of the user details services (src/lib/auth/services), which   *)
(* reads the row, saves it and only then expires the cache.                *)
(*                                                                         *)
(* mongoose saves what an update sets.  save of TypeORM writes every       *)
(* column in which the entity differs from the row, so also what another   *)
(* request has changed since the entity was read.                          *)
(***************************************************************************)
EXTENDS Integers, FiniteSets

CONSTANTS
  Request,   \* requests, numbered as they arrive
  MaxTime,   \* bound on the clock
  Null

ASSUME SessionsAssumption ==
  /\ Request = 1 .. Cardinality(Request)
  /\ MaxTime \in Nat \ {0}
  /\ Null \notin Nat

VARIABLES
  orm,       \* the library below the user details service
  now,       \* clock, in milliseconds
  row,       \* the user in the database
  cache,     \* the user under the key of each lookup
  request,   \* what each request does
  outAt,     \* history: the latest logoutAt whose logout has replied
  retired,   \* history: passwords replaced by a change that has replied
  lapsed,    \* history: a save was not followed by its expiration
  reverted   \* history: a save brought an older logoutAt or password back

vars == <<orm, now, row, cache, request, outAt, retired, lapsed, reverted>>

Lookup == {"findByUsername", "findById"}

\* password: 0, or the request that has set it
NoUser == [password |-> 0, logoutAt |-> 0]

\* A request before it comes, and what is left of one that changed nothing.  op: login,
\* access, refresh, logout or change; user: what it has
\* loaded or read; at: when it called new Date(); ticket: the password or the iat it came with;
\* late: the ticket had ended when it came; stale: its user was out of date when it was cached;
\* overlapped: another request saved the row since at.
Blank ==
  [op |-> "access", pc |-> "idle", ticket |-> 0, user |-> NoUser, at |-> 0,
   late |-> FALSE, stale |-> FALSE, overlapped |-> FALSE, replaced |-> 0]

\* The user has a session from before the first millisecond.
Init ==
  /\ orm \in {"mongoose", "typeorm"}
  /\ now = 1
  /\ row = NoUser
  /\ cache = [l \in Lookup |-> Null]
  /\ request = [r \in Request |-> Blank]
  /\ outAt = 0 /\ retired = {} /\ lapsed = FALSE /\ reverted = FALSE

\* When the sessions were issued that the user holds
Issued ==
  {0} \cup {request[r].at : r \in {q \in Request : /\ request[q].pc = "accepted"
                                                   /\ request[q].op \in {"login", "refresh"}}}

Step(r, state) == request' = [request EXCEPT ![r] = state]

LookupOf(op) == IF op = "login" THEN "findByUsername" ELSE "findById"

\* Mutant: a session lasts until a millisecond after the logout.
MatchesLater(op, ticket, user) ==
  IF op = "login" THEN user.password = ticket ELSE ~(user.logoutAt > ticket + 1)

\* checkPassword in validateUser, the test of validate in JwtStrategy
Matches(op, ticket, user) ==
  IF op = "login" THEN user.password = ticket ELSE ~(user.logoutAt > ticket)

\* What a request does with the user it got: refuse, serve, or begin an update, whose
\* data (and the iat of a new session) it makes before it reads the row.
Decided(req, user, raced) ==
  LET decided == [req EXCEPT !.stale = raced, !.user = NoUser] IN
  IF ~Matches(req.op, req.ticket, user) THEN [Blank EXCEPT !.pc = "rejected"]
  ELSE IF req.op = "access" THEN [decided EXCEPT !.pc = "accepted"]
  ELSE [decided EXCEPT !.pc = "updating", !.at = now]

Arrives(r) == request[r].pc = "idle" /\ \A q \in 1 .. r - 1 : request[q].pc # "idle"

-----------------------------------------------------------------------------
(* Requests with a password or a session: findAndCacheUser *)

Come(r, op, ticket) ==
  LET late == IF op = "login" THEN ticket \in retired ELSE ticket < outAt
      req == [request[r] EXCEPT !.op = op, !.ticket = ticket, !.late = late]
      hit == cache[LookupOf(op)]
  IN /\ Arrives(r)
     /\ Step(r, IF hit = Null THEN [req EXCEPT !.pc = "missed"]
                              ELSE Decided(req, hit.user, hit.raced))
     /\ UNCHANGED <<orm, now, row, cache, outAt, retired, lapsed, reverted>>

Load(r) ==
  /\ request[r].pc = "missed"
  /\ Step(r, [request[r] EXCEPT !.pc = "loaded", !.user = row])
  /\ UNCHANGED <<orm, now, row, cache, outAt, retired, lapsed, reverted>>

Fill(r) ==
  LET user == request[r].user IN
  /\ request[r].pc = "loaded"
  /\ cache' = [cache EXCEPT ![LookupOf(request[r].op)] = [user |-> user, raced |-> user # row]]
  /\ Step(r, Decided(request[r], user, FALSE))
  /\ UNCHANGED <<orm, now, row, outAt, retired, lapsed, reverted>>

-----------------------------------------------------------------------------
(* Updates: onLogin, onLogout, and update with a password *)

\* updatePassword of a reset, or an update of the user by its id
Change(r) ==
  /\ Arrives(r)
  /\ Step(r, [request[r] EXCEPT !.op = "change", !.pc = "updating", !.at = now])
  /\ UNCHANGED <<orm, now, row, cache, outAt, retired, lapsed, reverted>>

\* findResource
Read(r) ==
  /\ request[r].pc = "updating"
  /\ Step(r, [request[r] EXCEPT !.pc = "read", !.user = row])
  /\ UNCHANGED <<orm, now, row, cache, outAt, retired, lapsed, reverted>>

\* The update on top of user
Updated(r, user) ==
  [password |-> IF request[r].op = "change" THEN r ELSE user.password,
   logoutAt |-> IF request[r].op \in {"logout", "change"} THEN request[r].at ELSE user.logoutAt]

\* Mutant: mongoose saves every path as well.
SavedWhole(r) == Updated(r, request[r].user)

\* save: TypeORM writes the entity, mongoose the paths that were set.
Saved(r) == Updated(r, IF orm = "typeorm" THEN request[r].user ELSE row)

\* An older password or logoutAt comes back.
Reverts(r) ==
  \/ row'.logoutAt < row.logoutAt
  \/ row'.password # row.password /\ request[r].op # "change"

Save(r) ==
  /\ request[r].pc = "read"
  /\ row' = Saved(r)
  /\ reverted' = (reverted \/ Reverts(r))
  /\ request' = [q \in Request |->
       IF q = r THEN [request[r] EXCEPT !.pc = "saved", !.user = NoUser,
                                        !.overlapped = FALSE, !.replaced = row.password]
       ELSE IF request[q].pc \in {"updating", "read"} THEN [request[q] EXCEPT !.overlapped = TRUE]
       ELSE request[q]]
  /\ UNCHANGED <<orm, now, cache, outAt, retired, lapsed>>

\* Mutant: only the key of the lookup by id is expired.
ExpiredById == [cache EXCEPT !["findById"] = Null]

\* expireCache: the keys of both lookups go, as far as they name the model of the user:
\* once a route of its resource has made a key, or by its relations (module Relations).
Expired == [l \in Lookup |-> Null]

\* expireCache, and the reply
Reply(r) ==
  LET op == request[r].op IN
  /\ request[r].pc = "saved"
  /\ cache' = Expired
  /\ outAt' = IF op \in {"logout", "change"} /\ request[r].at > outAt THEN request[r].at ELSE outAt
  /\ retired' = IF op = "change" THEN retired \cup ({request[r].replaced} \ {r}) ELSE retired
  /\ Step(r, [request[r] EXCEPT !.pc = "accepted", !.replaced = 0,
                                !.at = IF op \in {"login", "refresh"} THEN @ ELSE 0])
  /\ UNCHANGED <<orm, now, row, lapsed, reverted>>

\* A query throws, or the process dies: login answers that the credentials are invalid,
\* logout that the user is not authorized.
Fail(r) ==
  /\ request[r].pc \in {"missed", "loaded", "updating", "read", "saved"}
  /\ lapsed' = (lapsed \/ request[r].pc = "saved")
  /\ Step(r, [Blank EXCEPT !.pc = "rejected", !.op = request[r].op])
  /\ UNCHANGED <<orm, now, row, cache, outAt, retired, reverted>>

-----------------------------------------------------------------------------
Tick ==
  /\ now < MaxTime
  /\ now' = now + 1
  /\ UNCHANGED <<orm, row, cache, request, outAt, retired, lapsed, reverted>>

\* The entries of the cache expire, or make room.
Evict ==
  /\ \E l \in Lookup : cache[l] # Null /\ cache' = [cache EXCEPT ![l] = Null]
  /\ UNCHANGED <<orm, now, row, request, outAt, retired, lapsed, reverted>>

Next ==
  \/ \E r \in Request :
       \/ \E password \in {0} \cup {q \in Request : request[q].op = "change"} : Come(r, "login", password)
       \/ \E op \in {"access", "refresh", "logout"}, iat \in Issued : Come(r, op, iat)
       \/ Load(r) \/ Fill(r)
       \/ Change(r) \/ Read(r) \/ Save(r) \/ Reply(r) \/ Fail(r)
  \/ Tick \/ Evict

Spec == Init /\ [][Next]_vars

-----------------------------------------------------------------------------
\* What a logout or a change of the password has ended, the sessions and the old password,
\* serves no request that comes later, nor a new session: except by a cached user that was
\* out of date when it was stored, or when a concurrent save took the end back
\* (jwt.strategy.ts:45, auth.service.ts:104).
EndedSessionsFail ==
  \A r \in Request :
    request[r].late /\ request[r].pc \notin {"missed", "loaded", "rejected"} => request[r].stale \/ reverted

\* A logout or a password is taken back only by an update that began before another one
\* was saved; with mongoose, only by one that logs out or sets a password itself.
RevertsAreRaces ==
  [][\A r \in Request : Save(r) /\ Reverts(r) =>
       /\ request[r].overlapped
       /\ orm = "mongoose" => request[r].op \in {"logout", "change"}]_vars

\* While every save is followed by its expiration, the cache has an older user only if
\* that was older when it was stored, or a save is about to expire it.
CachedUserIsCurrent ==
  \A l \in Lookup : cache[l] # Null /\ cache[l].user # row =>
    \/ cache[l].raced \/ lapsed
    \/ \E r \in Request : request[r].pc = "saved"
=============================================================================
