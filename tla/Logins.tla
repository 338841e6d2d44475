------------------------------- MODULE Logins -------------------------------
(***************************************************************************)
(* Who a request acts for: AuthService with its strategies and guards      *)
(* (src/lib/auth), the social logins (FacebookService, GoogleService) with *)
(* the registration of a new user, RecaptchaGuard, and the admin user that *)
(* a starting process makes sure of.                                       *)
(*                                                                         *)
(* All of them are about one email address.  Its account is read through   *)
(* the cache of AuthService, in which an entry by name and one by id hold  *)
(* copies of it.  A step is the code between two awaits.                   *)
(***************************************************************************)
EXTENDS Naturals, FiniteSets, FiniteSetsExt, Functions

CONSTANTS
  Login,      \* logins, requests with credentials, and starts of processes, in their order
  AdminTries, \* tries of createAdminUser to reach the database
  MaxChanges  \* bound on the changes of the account

ASSUME LoginsAssumption ==
  /\ Login = 1 .. Cardinality(Login)
  /\ AdminTries \in Nat \ {0} /\ MaxChanges \in Nat

VARIABLES
  setup,    \* the registration: closed, open, or with a mail that the application cannot send
  account,  \* the row of the account
  copies,   \* the cached copies of it
  logins,
  outdated, \* a copy is in the cache that was no longer the account when it came there
  expiring, \* the account is changed, and its copies are not expired yet
  changes

loginsVars == <<setup, account, copies, logins, outdated, expiring, changes>>

Provider == {"Facebook", "Google"}
\* A social account never had a password.
UserRow(source) == [source |-> source, enabled |-> TRUE, password |-> IF source = "Local" THEN "old" ELSE "none"]
AdminRow == UserRow("Local")
NoRow == [source |-> "none", enabled |-> FALSE, password |-> "none"]
Copies == [name |-> NoRow, id |-> NoRow]

CopyKey(kind) == IF kind = "jwt" THEN "id" ELSE "name"

\* shown: a password; "token" or "bad" for what a provider or the application has signed
Idle == [pc |-> "idle", kind |-> "boot", shown |-> "bad", found |-> NoRow, tries |-> AdminTries,
         past |-> {}, misled |-> FALSE]

LoginsInit ==
  /\ setup = "none"
  /\ account = NoRow
  /\ copies = Copies
  /\ logins = [l \in Login |-> Idle]
  /\ outdated = FALSE
  /\ expiring = FALSE
  /\ changes = 0

Prepare ==
  /\ setup = "none"
  /\ setup' \in {"closed", "open", "unsupported"}
  /\ \E source \in {"Local", "Facebook"}, enabled \in BOOLEAN :
       account' \in {NoRow, [UserRow(source) EXCEPT !.enabled = enabled]}
  /\ UNCHANGED <<copies, logins, outdated, expiring, changes>>

Active == {l \in Login : logins[l].pc \notin {"idle", "signing", "granted", "failed"}}

\* Login l goes on; the account becomes row, which every login of the moment has then seen.
Onward(l, step, row) ==
  /\ account' = row
  /\ logins' = [k \in Login |->
       LET now == IF k = l THEN step ELSE logins[k]
       IN IF now.pc \in {"idle", "signing", "granted", "failed"} THEN now ELSE [now EXCEPT !.past = @ \cup {row}]]
  /\ UNCHANGED <<setup, changes>>

Move(l, step) == Onward(l, step, account) /\ UNCHANGED <<copies, outdated, expiring>>

\* Of a login that is decided only that is left.
Ended(outcome) == [Idle EXCEPT !.pc = outcome]

\* An update of the account or a new one expires its copies.
Clear == copies' = Copies /\ outdated' = FALSE

-----------------------------------------------------------------------------
(* What a request has to show before its user is looked up *)

Delivery == <<"header", "query", "body">>

\* RecaptchaService verifies the first token that it finds, and no other.
Challenged(tokens) ==
  LET sent == {i \in 1 .. 3 : tokens[Delivery[i]] # "none"}
  IN sent # {} /\ tokens[Delivery[Min(sent)]] = "good"

PassesRecaptcha(asked, tokens) == asked => Challenged(tokens)

\* The route of a provider is there unless it is switched off; it needs the secrets of the application.
Offered(enabled) == enabled # "false"
FacebookConfigured(secrets) == {"appId", "appSecret"} \subseteq secrets
GoogleConfigured(secrets) == "clientId" \in secrets

\* FacebookService asks for the token, compares its app and user, and fetches the profile.
SignedRequest(proof) == proof.algorithm /\ proof.signature
FacebookProof(proof) == proof.app /\ proof.user /\ SignedRequest(proof) /\ proof.profile

\* JwtAuthGuard: a refresh token serves only the handlers named refresh, an access token the others.
JwtFits(handler, token) == (handler = "refresh") = (token = "refresh") /\ token # "bad"

\* What shows nothing of worth is refused before its user is looked up.
Arrive(l, kind, shown) ==
  /\ setup # "none"
  /\ logins[l].pc = "idle" /\ \A k \in 1 .. l - 1 : logins[k].pc # "idle"
  /\ logins' = [logins EXCEPT ![l] =
       IF shown = "bad"
         THEN Ended("failed")
         ELSE [Idle EXCEPT !.pc = IF kind = "boot" THEN "booting" ELSE "finding", !.kind = kind, !.shown = shown,
                           !.past = {account} \cup (IF expiring THEN Range(copies) \ {NoRow} ELSE {})]]
  /\ UNCHANGED <<setup, account, copies, outdated, expiring, changes>>

\* AuthController.login and AuthResolver.login are behind RecaptchaGuard, BasicAuthGuard is not.
ComePassword(l) ==
  \E shown \in {"old", "new"}, asked \in BOOLEAN, tokens \in [{"header", "query", "body"} -> {"none", "good", "bad"}] :
    PassesRecaptcha(asked, tokens) /\ Arrive(l, "password", shown)

ComeJwt(l) ==
  \E handler \in {"refresh", "other"}, token \in {"refresh", "access", "bad"} :
    Arrive(l, "jwt", IF JwtFits(handler, token) THEN "token" ELSE "bad")

ComeFacebook(l) ==
  \E enabled \in {"true", "false", "undefined"}, secrets \in SUBSET {"appId", "appSecret"},
     proof \in [{"app", "user", "algorithm", "signature", "profile"} -> BOOLEAN] :
    /\ Offered(enabled)
    /\ Arrive(l, "Facebook", IF FacebookConfigured(secrets) /\ FacebookProof(proof) THEN "token" ELSE "bad")

ComeGoogle(l) ==
  \E enabled \in {"true", "false", "undefined"}, secrets \in SUBSET {"clientId"}, verified \in BOOLEAN :
    /\ Offered(enabled)
    /\ Arrive(l, "Google", IF GoogleConfigured(secrets) /\ verified THEN "token" ELSE "bad")

-----------------------------------------------------------------------------
(* AuthService.findAndCacheUser *)

Stop(l) == Move(l, Ended("failed"))

FindCopy(l) ==
  /\ logins[l].pc = "finding"
  /\ LET copy == copies[CopyKey(logins[l].kind)]
     IN Move(l, [logins[l] EXCEPT !.found = copy, !.pc = IF copy = NoRow THEN "loading" ELSE "found",
                                  !.misled = copy # NoRow /\ outdated])

LoadUser(l) ==
  /\ logins[l].pc = "loading"
  /\ Move(l, [logins[l] EXCEPT !.found = account, !.pc = "filling"])

\* What does not exist is not found in the cache either.
FillCopy(l) ==
  /\ logins[l].pc = "filling"
  /\ copies' = [copies EXCEPT ![CopyKey(logins[l].kind)] = logins[l].found]
  /\ outdated' = (outdated \/ logins[l].found # account)
  /\ Onward(l, [logins[l] EXCEPT !.pc = "found"], account)
  /\ UNCHANGED expiring

-----------------------------------------------------------------------------
(* What the strategies and the social logins decide *)

\* The user is served at once (BasicStrategy, JwtStrategy), or logs in.
Grant(l) ==
  \/ logins[l].kind \in {"password", "jwt"} /\ Move(l, Ended("granted"))
  \/ Move(l, Ended("signing"))

\* AuthService.validateUser and the strategies.  bcrypt throws at a missing hash.
PasswordFits(row, shown) == row.enabled /\ row.password = shown /\ row.source = "Local"

CheckPassword(l) ==
  /\ logins[l].pc = "found" /\ logins[l].kind = "password"
  /\ IF PasswordFits(logins[l].found, logins[l].shown) THEN Grant(l) ELSE Stop(l)

\* JwtStrategy.validate; when the session has ended is the subject of module Sessions.
CheckUser(l) ==
  /\ logins[l].pc = "found" /\ logins[l].kind = "jwt"
  /\ IF logins[l].found.enabled THEN Grant(l) ELSE Stop(l)

CheckSource(l) ==
  /\ logins[l].pc = "found" /\ logins[l].kind \in Provider /\ logins[l].found # NoRow
  /\ IF logins[l].found.source = logins[l].kind THEN Grant(l) ELSE Stop(l)

\* AccountService.register: the address is unique; a mail that cannot be sent comes after the
\* account.  A verified account gets no mail.
RegisterUser(l) ==
  /\ logins[l].pc = "found" /\ logins[l].kind \in Provider /\ logins[l].found = NoRow
  /\ IF setup = "closed" \/ account # NoRow
       THEN Stop(l)
       ELSE /\ Onward(l, IF setup = "unsupported" THEN Ended("failed") ELSE Ended("signing"),
                      UserRow(logins[l].kind))
            /\ Clear
            /\ UNCHANGED expiring

\* AuthService.login: onLogin updates the account, which expires its copies.
SignIn(l) ==
  /\ logins[l].pc = "signing"
  /\ IF account = NoRow
       THEN Stop(l)
       ELSE /\ Onward(l, Ended("granted"), account)
            /\ Clear
            /\ UNCHANGED expiring

-----------------------------------------------------------------------------
(* AuthService.createAdminUser *)

FindAdmin(l) ==
  /\ logins[l].pc = "booting"
  /\ Move(l, IF account = NoRow THEN [logins[l] EXCEPT !.pc = "creating"] ELSE Ended("granted"))

RetryAdmin(l) ==
  /\ logins[l].pc = "booting"
  /\ Move(l, IF logins[l].tries = 1 THEN Ended("granted") ELSE [logins[l] EXCEPT !.tries = @ - 1])

CreateAdmin(l) ==
  /\ logins[l].pc = "creating"
  /\ IF account # NoRow
       THEN Stop(l)
       ELSE /\ Onward(l, Ended("granted"), AdminRow)
            /\ Clear
            /\ UNCHANGED expiring

-----------------------------------------------------------------------------
(* The rest of the application *)

\* A query throws.
Throw(l) == logins[l].pc \in {"loading", "signing", "creating"} /\ Stop(l)

ChangeAccount ==
  /\ setup # "none" /\ changes < MaxChanges /\ ~expiring /\ account # NoRow
  /\ \E row \in {NoRow, [account EXCEPT !.enabled = ~@], [account EXCEPT !.password = "new"]} :
       /\ account' = row
       /\ logins' = [l \in Login |-> IF l \in Active THEN [logins[l] EXCEPT !.past = @ \cup {row}] ELSE logins[l]]
  /\ expiring' = TRUE
  /\ changes' = changes + 1
  /\ UNCHANGED <<setup, copies, outdated>>

\* Mutant: the copy by id stays.
ExpireNames ==
  /\ expiring
  /\ expiring' = FALSE
  /\ copies' = [copies EXCEPT !.name = NoRow]
  /\ outdated' = FALSE
  /\ UNCHANGED <<setup, account, logins, changes>>

ExpireCopies ==
  /\ expiring
  /\ expiring' = FALSE
  /\ Clear
  /\ UNCHANGED <<setup, account, logins, changes>>

LoginNext ==
  \/ Prepare
  \/ \E l \in Login :
       \/ ComePassword(l) \/ ComeJwt(l) \/ ComeFacebook(l) \/ ComeGoogle(l) \/ Arrive(l, "boot", "token")
       \/ FindCopy(l) \/ LoadUser(l) \/ FillCopy(l)
       \/ CheckPassword(l) \/ CheckUser(l) \/ CheckSource(l) \/ RegisterUser(l) \/ SignIn(l)
       \/ FindAdmin(l) \/ RetryAdmin(l) \/ CreateAdmin(l) \/ Throw(l)
  \/ ChangeAccount \/ ExpireCopies

-----------------------------------------------------------------------------
\* What a login deserves when its account is row
Deserves(login, row) ==
  /\ login.shown # "bad"
  /\ login.kind = "password" => PasswordFits(row, login.shown)
  /\ login.kind = "jwt" => row.enabled
  /\ login.kind = "boot" => row # NoRow
  /\ login.kind \in Provider =>
       \/ row.source = login.kind
       \/ row = NoRow /\ setup = "open"

DecidedJustly(l) ==
  LET login == logins[l]
      past == login.past \cup {account'}
  IN /\ logins'[l].pc \in {"signing", "granted"} =>
          (\E seen \in past : Deserves(login, seen)) \/ login.misled \/ login.tries = 1
     /\ logins'[l].pc = "failed" =>
          \/ \E seen \in past : ~Deserves(login, seen)
          \/ login.misled \/ Throw(l)
          \/ NoRow \in past /\ past # {NoRow}

(* A login, a request with credentials and the start of a process are decided as a state asks for  *)
(* that the account had in the meantime, unless a query threw, the cached copy was outdated already *)
(* when it came to the cache, or the account came or vanished while the login was on its way.       *)
LoginsAreJust == [][\A l \in Active : DecidedJustly(l)]_loginsVars
=============================================================================
