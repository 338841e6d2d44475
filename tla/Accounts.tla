------------------------------ MODULE Accounts ------------------------------
(***************************************************************************)
(* AccountService (src/lib/auth/account/account.service.ts) with the       *)
(* one-time tokens of VerificationService: a request creates a token and   *)
(* mails its link, through MailQueue or directly; another redeems the      *)
(* link, which verifies an account or sets its password.                   *)
(*                                                                         *)
(* A step is the code between two awaits that reach the database, Redis or *)
(* the mail server.  The routes are served by one process, which may       *)
(* crash; the workers of the queue may run in others.                      *)
(***************************************************************************)
EXTENDS MailQueue, Sequences, FiniteSets

CONSTANTS
  Account,     \* accounts, numbered in the order of their registration
  Redeemer,    \* requests to verify-email and reset-password, numbered as they arrive
  Tries,       \* tries of createToken
  MaxFaults,   \* bound on the queries and calls that throw and the crashes
  Null

ASSUME AccountsAssumption ==
  /\ Mail = 1 .. Cardinality(Mail)
  /\ Account = 1 .. Cardinality(Account)
  /\ Redeemer = 1 .. Cardinality(Redeemer)
  /\ Tries \in Nat \ {0} /\ MaxFaults \in Nat /\ Null \notin Redeemer

VARIABLES
  config,    \* queued: queueEnabled of MailModule; shared: the content of the options
             \* has a template, which all mails of a kind then share
  accounts,  \* rows of the accounts
  tokens,    \* verification tokens, in the order of their creation
  context,   \* the link in the context of the shared template of each kind
  mailing,   \* requests that mail a token, as they arrive; the mail of request m is m
  redeem,    \* requests that redeem one
  faults     \* how many so far

accountVars == <<jobs, sent, config, accounts, tokens, context, mailing, redeem, faults>>

Kind == {"email", "password"}

\* A request that has replied and changed nothing
Forgotten ==
  [pc |-> "replied", kind |-> "email", token |-> 0, late |-> FALSE, success |-> FALSE]

AccountsInit ==
  /\ QueueInit
  /\ config \in [queued : BOOLEAN, shared : BOOLEAN]
  /\ accounts = [a \in Account |-> [exists |-> FALSE, verified |-> FALSE, password |-> Null]]
  /\ tokens = << >>
  /\ context = [k \in Kind |-> 0]
  /\ mailing = [m \in Mail |->
                 [pc |-> "idle", kind |-> "email", account |-> 1, tries |-> 0,
                  token |-> 0, link |-> 0, direct |-> FALSE]]
  /\ redeem = [r \in Redeemer |-> [Forgotten EXCEPT !.pc = "idle"]]
  /\ faults = 0

-----------------------------------------------------------------------------
(* Mailing a token *)

Begin(m, kind, a) ==
  /\ mailing[m].pc = "idle" /\ \A n \in 1 .. m - 1 : mailing[n].pc # "idle"
  /\ mailing' = [mailing EXCEPT ![m] =
                   [@ EXCEPT !.pc = "creating", !.kind = kind, !.account = a]]

\* register, when the options ask for a mail to verify the address
Register(m, a) ==
  /\ ~accounts[a].exists /\ \A b \in 1 .. a - 1 : accounts[b].exists
  /\ accounts' = [accounts EXCEPT ![a].exists = TRUE]
  /\ Begin(m, "email", a)
  /\ UNCHANGED <<queueVars, config, tokens, context, redeem, faults>>

\* sendVerifyEmail and sendResetPassword.  The user that sendVerifyEmail asks whether
\* it is verified comes from the cache and may be older than the account.
SendToken(m, kind, a) ==
  /\ accounts[a].exists
  /\ Begin(m, kind, a)
  /\ UNCHANGED <<queueVars, config, accounts, tokens, context, redeem, faults>>

Fault == faults < MaxFaults /\ faults' = faults + 1

\* The last try throws, whether it has created the token or not.
AfterFailedTry(m) == IF mailing[m].tries + 1 < Tries THEN "creating" ELSE "failed"

\* create of VerificationTokenService fails, on a duplicate token or otherwise.
CreateFails(m) ==
  /\ Fault
  /\ mailing[m].pc = "creating"
  /\ mailing' = [mailing EXCEPT ![m].pc = AfterFailedTry(m),
                                ![m].tries = (@ + 1) % Tries]
  /\ UNCHANGED <<queueVars, config, accounts, tokens, context, redeem>>

\* Mutant: a failure of the last try is told from a success, but the token is dropped.
AfterCreatedDropped(m) == IF mailing[m].tries + 1 < Tries THEN "replied" ELSE "failed"

AfterCreated(m) == IF mailing[m].tries + 1 < Tries THEN "created" ELSE "failed"

Create(m) ==
  /\ mailing[m].pc = "creating"
  /\ tokens' = Append(tokens, [kind |-> mailing[m].kind, account |-> mailing[m].account,
                               used |-> FALSE])
  /\ mailing' = [mailing EXCEPT ![m].pc = AfterCreated(m), ![m].tries = 0,
                                ![m].token = Len(tokens) + 1]
  /\ UNCHANGED <<queueVars, config, accounts, context, redeem, faults>>

\* createMailContent writes the link into the context of the template only when it has
\* none; the content of the options is the same object for every mail.
LinkOf(kind, token) ==
  IF config.shared /\ context[kind] # 0 THEN context[kind] ELSE token

\* makeMailSubjectAndContent ends, and MailService.send begins: no await is in between.
Compose(m) ==
  /\ mailing[m].pc = "created"
  /\ context' = [context EXCEPT ![mailing[m].kind] = LinkOf(mailing[m].kind, mailing[m].token)]
  /\ UNCHANGED <<config, accounts, tokens, redeem>>

Replied(m, result) ==
  mailing' = [mailing EXCEPT ![m].pc = "replied", ![m].direct = result,
                              ![m].link = context'[mailing[m].kind]]

\* sendToQueue; the job is in Redis when add returns.
SendToQueue(m) ==
  /\ config.queued
  /\ Compose(m) /\ Add(m) /\ Replied(m, FALSE)
  /\ UNCHANGED faults

\* sendDirect: the adapter sends the mail or answers false.
SendDirect(m) ==
  /\ ~config.queued
  /\ Compose(m)
  /\ \E result \in BOOLEAN : Replied(m, result)
  /\ UNCHANGED <<queueVars, faults>>

\* The queue or the adapter throws.
SendFails(m) ==
  /\ Fault /\ Compose(m)
  /\ mailing' = [mailing EXCEPT ![m].pc = "failed"]
  /\ UNCHANGED queueVars

-----------------------------------------------------------------------------
(* Redeeming a link *)

Received(m) == sent[m] > 0 \/ mailing[m].direct

MailedLinks == {mailing[m].link : m \in {n \in Mail : Received(n)}}

\* Whoever has the mail follows its link, on the route of either kind.
Follow(r, kind, t) ==
  /\ redeem[r].pc = "idle" /\ \A q \in 1 .. r - 1 : redeem[q].pc # "idle"
  /\ t \in MailedLinks
  /\ redeem' = [redeem EXCEPT ![r] =
                  [@ EXCEPT !.pc = "finding", !.kind = kind, !.token = t,
                            !.late = tokens[t].used]]
  /\ UNCHANGED <<queueVars, config, accounts, tokens, context, mailing, faults>>

\* Mutant: the token is looked up without its type.
FoundAnyType(r) == ~tokens[redeem[r].token].used

\* Mutant: a used token is not refused.
FoundUsed(r) == tokens[redeem[r].token].kind = redeem[r].kind

\* findAndValidateToken finds the token unused.
FoundValid(r) == LET token == tokens[redeem[r].token] IN
  token.kind = redeem[r].kind /\ ~token.used

Find(r) ==
  /\ redeem[r].pc = "finding" /\ FoundValid(r)
  /\ redeem' = [redeem EXCEPT ![r].pc = "valid"]
  /\ UNCHANGED <<queueVars, config, accounts, tokens, context, mailing, faults>>

\* findAndValidateToken finds no token, a used or an expired one, or a query throws: the
\* request has changed nothing.
Refuse(r) ==
  /\ redeem[r].pc \in {"finding", "valid"}
  /\ redeem' = [redeem EXCEPT ![r] = Forgotten]
  /\ UNCHANGED <<queueVars, config, accounts, tokens, context, mailing, faults>>

\* The token is marked used, by the id that was found.
Use(r) ==
  /\ redeem[r].pc = "valid"
  /\ tokens' = [tokens EXCEPT ![redeem[r].token].used = TRUE]
  /\ redeem' = [redeem EXCEPT ![r].pc = "used"]
  /\ UNCHANGED <<queueVars, config, accounts, context, mailing, faults>>

\* Mutant: the request replies before the account is updated.
ReplyEarly(r) ==
  /\ redeem[r].pc = "used"
  /\ redeem' = [redeem EXCEPT ![r].pc = "replied", ![r].success = TRUE]
  /\ UNCHANGED <<queueVars, config, accounts, tokens, context, mailing, faults>>

\* verifyAccount or updatePassword
Apply(r) ==
  /\ redeem[r].pc = "used"
  /\ accounts' = [accounts EXCEPT ![tokens[redeem[r].token].account] =
                    IF redeem[r].kind = "email" THEN [@ EXCEPT !.verified = TRUE]
                                                ELSE [@ EXCEPT !.password = r]]
  /\ redeem' = [redeem EXCEPT ![r].pc = "replied", ![r].success = TRUE]
  /\ UNCHANGED <<queueVars, config, tokens, context, mailing, faults>>

\* The update of the account throws, or returns nothing.
ApplyFails(r) ==
  /\ Fault
  /\ redeem[r].pc = "used"
  /\ redeem' = [redeem EXCEPT ![r].pc = "failed"]
  /\ UNCHANGED <<queueVars, config, accounts, tokens, context, mailing>>

-----------------------------------------------------------------------------
InFlight(pc) == pc \notin {"idle", "replied", "failed"}

Lose(request) == IF InFlight(request.pc) THEN [request EXCEPT !.pc = "failed"] ELSE request

\* The process dies with the requests, the options and the jobs it holds.
Crash ==
  /\ Fault
  /\ mailing' = [m \in Mail |-> Lose(mailing[m])]
  /\ redeem' = [r \in Redeemer |-> Lose(redeem[r])]
  /\ context' = [k \in Kind |-> 0]
  /\ Stall
  /\ UNCHANGED <<config, accounts, tokens>>

MailStep(m) ==
  CreateFails(m) \/ Create(m) \/ SendToQueue(m) \/ SendDirect(m) \/ SendFails(m)

RedeemStep(r) == Find(r) \/ Refuse(r) \/ Use(r) \/ Apply(r) \/ ApplyFails(r)

\* The workers of the queue
QueueStep(m) ==
  /\ \/ Work(m) /\ UNCHANGED faults
     \/ Throw(m) /\ Fault
  /\ UNCHANGED <<config, accounts, tokens, context, mailing, redeem>>

AccountsNext ==
  \/ \E m \in Mail, a \in Account :
       Register(m, a) \/ \E kind \in Kind : SendToken(m, kind, a)
  \/ \E m \in Mail : MailStep(m) \/ QueueStep(m)
  \/ \E r \in Redeemer : RedeemStep(r) \/ \E kind \in Kind, t \in 1 .. Len(tokens) : Follow(r, kind, t)
  \/ Crash

\* The process runs its requests; the workers run their jobs.
AccountsFairness ==
  /\ \A m \in Mail : WF_accountVars(MailStep(m)) /\ WF_accountVars(QueueStep(m))
  /\ \A r \in Redeemer : WF_accountVars(RedeemStep(r))

AccountsSpec == AccountsInit /\ [][AccountsNext]_accountVars /\ AccountsFairness

-----------------------------------------------------------------------------
\* findAndValidateToken reads usedAt and writes it in different steps
\* (verification.service.ts:80, 89): two requests at the same time may use a token
\* twice, but one that arrives when the token is used changes nothing.
LateRequestsFail ==
  \A r \in Redeemer : redeem[r].late => ~redeem[r].success

\* An account changes only by a link that was mailed to it for that purpose, whatever
\* fails or is repeated, unless the options have a template: createMailContent leaves
\* the first link in it, so that the mails that follow carry it too, to other accounts
\* as well (account.service.ts:245).
ChangesComeFromOwnMail ==
  \A r \in Redeemer : redeem[r].success /\ ~config.shared =>
    \E m \in Mail :
      /\ Received(m) /\ mailing[m].link = redeem[r].token
      /\ mailing[m].kind = redeem[r].kind
      /\ mailing[m].account = tokens[redeem[r].token].account

\* A token is marked used before its account is updated (account.service.ts:177, 184):
\* when it is used and its account is as it was, a request is about to update it, or
\* failed.
BurntTokensAreExplained ==
  \A t \in 1 .. Len(tokens) : tokens[t].used =>
    LET a == accounts[tokens[t].account] IN
    \/ IF tokens[t].kind = "email" THEN a.verified ELSE a.password # Null
    \/ \E r \in Redeemer : redeem[r].token = t /\ redeem[r].pc \in {"used", "failed"}

\* A token whose link no mail carries was created on the last try, which throws
\* (verification.service.ts:54), or its request is in flight or failed, or the shared
\* template has another link.
TokensAreMailed ==
  \A t \in 1 .. Len(tokens) :
    \E m \in Mail :
      /\ mailing[m].token = t
      /\ \/ mailing[m].pc \notin {"idle", "creating", "replied"}
         \/ mailing[m].pc = "replied" /\ (mailing[m].link = t \/ config.shared)
=============================================================================
