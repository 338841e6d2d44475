--------------------------- MODULE AccountsProofs ---------------------------
(***************************************************************************)
(* Proofs about Accounts and its MailQueue, for every value of their       *)
(* constants.                                                              *)
(***************************************************************************)
EXTENDS Accounts, SequenceTheorems, TLAPS

(***************************************************************************)
(* Types                                                                   *)
(***************************************************************************)
JobState == {"none", "waiting", "delayed", "active", "answered", "completed", "failed"}

Job == [state : JobState, failures : Nat, stalls : Nat, result : BOOLEAN]

AccountRow == [exists : BOOLEAN, verified : BOOLEAN, password : Redeemer \cup {Null}]

Token == [kind : Kind, account : Account, used : BOOLEAN]

\* Before it comes, a request names account 1 whether or not there is one.
Mailing ==
  [pc : {"idle", "creating", "created", "replied", "failed"}, kind : Kind,
   account : Account \cup {1}, tries : Nat, token : Nat, link : Nat, direct : BOOLEAN]

Redeem ==
  [pc : {"idle", "finding", "valid", "used", "replied", "failed"}, kind : Kind,
   token : Nat, late : BOOLEAN, success : BOOLEAN]

QueueTypeOK == jobs \in [Mail -> Job] /\ sent \in [Mail -> Nat]

AccountsTypeOK ==
  /\ QueueTypeOK
  /\ config \in [queued : BOOLEAN, shared : BOOLEAN]
  /\ accounts \in [Account -> AccountRow]
  /\ tokens \in Seq(Token)
  /\ context \in [Kind -> Nat]
  /\ mailing \in [Mail -> Mailing]
  /\ \A m \in Mail : mailing[m].pc # "idle" => mailing[m].account \in Account
  /\ redeem \in [Redeemer -> Redeem]
  /\ faults \in Nat

(***************************************************************************)
(* The inductive invariant.  Its parts say what the state of a request     *)
(* tells of the tokens, the links and the jobs.                            *)
(***************************************************************************)

\* What is left of a job tells how often its mail was sent: at most once for each worker that
\* died with it and once for the answer it has.
Tells(m) ==
  LET state == jobs[m].state IN
  /\ jobs[m].stalls <= MaxStalls
  /\ state = "none" => sent[m] = 0
  /\ state \in {"waiting", "delayed", "active"} => sent[m] <= jobs[m].stalls
  /\ state = "answered" => sent[m] <= jobs[m].stalls + 1
  /\ jobs[m].result => state \in {"answered", "completed"} /\ sent[m] > 0

\* The worker has one job at a time, so that a death of it concerns one.
QueueInv ==
  /\ QueueTypeOK
  /\ \A m \in Mail : Tells(m)
  /\ \A m, n \in InWork : m = n

\* The token of a mail is of its kind and account; a request that composes one has it.
HasToken(m) ==
  /\ mailing[m].token \in 0 .. Len(tokens)
  /\ mailing[m].pc \in {"idle", "creating"} => mailing[m].token = 0
  /\ mailing[m].pc \in {"created", "replied"} => mailing[m].token # 0
  /\ mailing[m].token # 0 => /\ tokens[mailing[m].token].kind = mailing[m].kind
                             /\ tokens[mailing[m].token].account = mailing[m].account

\* What is received has a link, which is its own unless the template is shared.
HasLink(m) ==
  /\ mailing[m].pc = "replied" <=> mailing[m].link # 0
  /\ mailing[m].link # 0 /\ ~config.shared => mailing[m].link = mailing[m].token
  /\ mailing[m].direct \/ jobs[m].state # "none" => mailing[m].pc = "replied"

\* A request that redeems a token follows a mailed link; it goes on only with a token of
\* its kind, and never with one that was used when it came.
Redeems(r) ==
  /\ redeem[r].pc \in {"finding", "valid", "used", "failed"} \/ redeem[r].success =>
       redeem[r].token \in 1 .. Len(tokens) /\ redeem[r].token \in MailedLinks
  /\ redeem[r].pc \in {"valid", "used"} \/ redeem[r].success =>
       tokens[redeem[r].token].kind = redeem[r].kind
  /\ redeem[r].success => redeem[r].pc = "replied"
  /\ redeem[r].late =>
       redeem[r].pc \in {"finding", "failed"} /\ tokens[redeem[r].token].used

AccountsInv ==
  /\ AccountsTypeOK
  /\ QueueInv
  /\ \A m \in Mail : HasToken(m) /\ HasLink(m)
  /\ \A r \in Redeemer : Redeems(r)
  /\ BurntTokensAreExplained
  /\ TokensAreMailed

(***************************************************************************)
(* The queue                                                               *)
(***************************************************************************)
QueueAction(m) == Add(m) \/ Start(m) \/ Answer(m) \/ Complete(m) \/ Throw(m) \/ Retry(m)

QueueNext == (\E m \in Mail : QueueAction(m)) \/ Stall

\* What the requests do to the queue is a step of the queue, or nothing.
LEMMA QueueSteps == [AccountsNext]_accountVars => [QueueNext]_queueVars
<1> SUFFICES ASSUME [AccountsNext]_accountVars PROVE [QueueNext]_queueVars
  OBVIOUS
<1>1. ASSUME NEW m \in Mail, NEW a \in Account,
             Register(m, a) \/ \E kind \in Kind : SendToken(m, kind, a)
      PROVE UNCHANGED queueVars
  BY <1>1 DEF Register, SendToken
<1>2. ASSUME NEW m \in Mail, MailStep(m) PROVE [QueueNext]_queueVars
  <2>1. CASE CreateFails(m) \/ Create(m) \/ SendDirect(m) \/ SendFails(m)
    BY <2>1 DEF CreateFails, Create, SendDirect, SendFails
  <2>2. CASE SendToQueue(m)
    BY <2>2 DEF SendToQueue, QueueAction, QueueNext
  <2> QED BY <1>2, <2>1, <2>2 DEF MailStep
<1>3. ASSUME NEW m \in Mail, QueueStep(m) PROVE QueueNext
  BY <1>3 DEF QueueStep, Work, QueueAction, QueueNext
<1>4. ASSUME NEW r \in Redeemer,
             RedeemStep(r) \/ \E kind \in Kind, t \in 1 .. Len(tokens) : Follow(r, kind, t)
      PROVE UNCHANGED queueVars
  BY <1>4 DEF RedeemStep, Find, Refuse, Use, Apply, ApplyFails, Follow
<1>5. CASE Crash
  BY <1>5 DEF Crash, QueueNext
<1>6. CASE UNCHANGED accountVars
  BY <1>6 DEF accountVars, queueVars
<1> QED BY <1>1, <1>2, <1>3, <1>4, <1>5, <1>6 DEF AccountsNext

\* The fields of a job that has ended
LEMMA RemovedJob ==
  ASSUME NEW job \in Job, NEW state \in JobState
  PROVE  /\ Removed(job, state) \in Job
         /\ Removed(job, state).state = state
         /\ Removed(job, state).stalls = 0
         /\ Removed(job, state).result = job.result
  BY DEF Removed, Job

\* What Stalled makes of a job: it waits again, or has failed for good.
LEMMA StalledJob ==
  ASSUME NEW job \in Job
  PROVE  /\ Stalled(job) \in Job
         /\ Stalled(job).state \in {"waiting", "failed"}
         /\ Stalled(job).state = "waiting" => job.stalls < MaxStalls /\ Stalled(job).stalls = job.stalls + 1
         /\ Stalled(job).state = "failed" => Stalled(job).stalls = 0
         /\ Stalled(job).result = FALSE
<1>1. CASE job.stalls < MaxStalls
  <2>1. Stalled(job) = [job EXCEPT !.state = "waiting", !.stalls = job.stalls + 1, !.result = FALSE]
    BY <1>1 DEF Stalled
  <2>2. /\ job.failures \in Nat /\ job.stalls + 1 \in Nat
        /\ job = [state |-> job.state, failures |-> job.failures, stalls |-> job.stalls, result |-> job.result]
    BY DEF Job
  <2>3. Stalled(job) = [state |-> "waiting", failures |-> job.failures,
                        stalls |-> job.stalls + 1, result |-> FALSE]
    BY <2>1, <2>2
  <2> QED BY <1>1, <2>2, <2>3 DEF Job, JobState
<1>2. CASE ~(job.stalls < MaxStalls)
  <2>1. Removed(job, "failed") \in Job /\ Removed(job, "failed").state = "failed"
        /\ Removed(job, "failed").stalls = 0
    BY RemovedJob DEF JobState
  <2>2. Stalled(job) = [Removed(job, "failed") EXCEPT !.result = FALSE]
    BY <1>2 DEF Stalled
  <2> QED BY <2>1, <2>2 DEF Job
<1> QED BY <1>1, <1>2

\* The queue begins with its invariant.
LEMMA QueueStart == QueueInit => QueueInv
<1> SUFFICES ASSUME QueueInit PROVE QueueInv
  OBVIOUS
<1>1. QueueTypeOK
  BY DEF QueueInit, QueueTypeOK, Job, JobState
<1>2. ASSUME NEW m \in Mail PROVE Tells(m)
  <2>1. /\ jobs[m].state = "none" /\ jobs[m].stalls = 0 /\ jobs[m].result = FALSE
        /\ sent[m] = 0
    BY DEF QueueInit
  <2> QED BY <2>1, QueueAssumption DEF Tells
<1>3. InWork = {}
  BY DEF QueueInit, InWork
<1> QED BY <1>1, <1>2, <1>3 DEF QueueInv

\* The job of m moves, and its mail may be sent; the others stay as they are.
LEMMA JobMoves ==
  ASSUME QueueInv, NEW m \in Mail, NEW job \in Job, NEW times \in Nat,
         jobs' = [jobs EXCEPT ![m] = job], sent' = [sent EXCEPT ![m] = times],
         Tells(m)', job.state \in {"active", "answered"} => m \in InWork \/ InWork = {}
  PROVE  QueueInv'
<1> USE DEF QueueInv
<1>1. QueueTypeOK'
  BY DEF QueueTypeOK
<1>2. ASSUME NEW n \in Mail PROVE Tells(n)'
  <2>1. CASE n = m
    BY <2>1
  <2>2. CASE n # m
    BY <2>2 DEF Tells, QueueTypeOK
  <2> QED BY <2>1, <2>2
<1>3. ASSUME NEW n \in InWork', n # m PROVE n \in InWork
  BY <1>3 DEF InWork, QueueTypeOK
<1>4. ASSUME NEW n \in InWork', NEW o \in InWork' PROVE n = o
  <2>1. CASE m \in InWork'
    <3>1. m \in InWork \/ InWork = {}
      BY <2>1 DEF InWork, QueueTypeOK
    <3> QED BY <3>1, <1>3, <1>4
  <2>2. CASE m \notin InWork'
    BY <2>2, <1>3, <1>4
  <2> QED BY <2>1, <2>2
<1> QED BY <1>1, <1>2, <1>4

\* Every step of the queue keeps its invariant.
LEMMA QueueStays == QueueInv /\ [QueueNext]_queueVars => QueueInv'
<1> SUFFICES ASSUME QueueInv, [QueueNext]_queueVars PROVE QueueInv'
  OBVIOUS
<1> USE QueueAssumption
<1>1. ASSUME NEW m \in Mail, QueueAction(m) PROVE QueueInv'
  <2>0. jobs[m] \in Job /\ sent[m] \in Nat /\ Tells(m)
    BY DEF QueueInv, QueueTypeOK
  <2>1. PICK job : jobs' = [jobs EXCEPT ![m] = job]
    BY <1>1 DEF QueueAction, Add, Start, Answer, Complete, Throw, Retry, Move
  <2>2. jobs'[m] = job
    BY <2>1 DEF QueueInv, QueueTypeOK
  <2>3. ASSUME UNCHANGED sent, job \in Job, Tells(m)',
               job.state \in {"active", "answered"} => m \in InWork \/ InWork = {}
        PROVE QueueInv'
    <3>1. sent' = [sent EXCEPT ![m] = sent[m]]
      BY <2>3 DEF QueueInv, QueueTypeOK
    <3> QED BY <2>0, <2>1, <2>3, <3>1, JobMoves
  <2>4. CASE Add(m)
    <3>1. job = [jobs[m] EXCEPT !.state = "waiting"] /\ UNCHANGED sent /\ jobs[m].state = "none"
      BY <2>1, <2>2, <2>4 DEF Add, Move, QueueInv, QueueTypeOK
    <3> QED BY <2>0, <2>2, <2>3, <3>1 DEF Job, JobState, Tells
  <2>5. CASE Start(m)
    <3>1. /\ job = [jobs[m] EXCEPT !.state = "active"] /\ UNCHANGED sent
          /\ jobs[m].state = "waiting" /\ InWork = {}
      BY <2>1, <2>2, <2>5 DEF Start, Move, QueueInv, QueueTypeOK
    <3> QED BY <2>0, <2>2, <2>3, <3>1 DEF Job, JobState, Tells
  <2>6. CASE Answer(m)
    <3>1. PICK result \in BOOLEAN :
             /\ Move(m, [jobs[m] EXCEPT !.state = "answered", !.result = result])
             /\ sent' = IF result THEN [sent EXCEPT ![m] = @ + 1] ELSE sent
      BY <2>6 DEF Answer
    <3>2. job = [jobs[m] EXCEPT !.state = "answered", !.result = result]
      BY <2>1, <2>2, <3>1 DEF Move, QueueInv, QueueTypeOK
    <3>3. job \in Job /\ job.state = "answered" /\ job.result = result /\ job.stalls = jobs[m].stalls
      BY <2>0, <3>2 DEF Job, JobState
    <3>4. jobs[m].state = "active" /\ m \in InWork
      BY <2>6 DEF Answer, InWork
    <3>5. CASE result
      <4>1. sent' = [sent EXCEPT ![m] = sent[m] + 1] /\ sent'[m] = sent[m] + 1
        BY <3>1, <3>5 DEF QueueInv, QueueTypeOK
      <4>2. Tells(m)'
        BY <2>0, <2>2, <3>3, <3>4, <4>1 DEF Tells, Job
      <4>3. sent[m] + 1 \in Nat
        BY <2>0
      <4> QED BY <2>1, <3>3, <3>4, <4>1, <4>2, <4>3, JobMoves
    <3>6. CASE ~result
      <4>1. UNCHANGED sent
        BY <3>1, <3>6
      <4>2. Tells(m)'
        BY <2>0, <2>2, <3>3, <3>4, <3>6, <4>1 DEF Tells, Job
      <4> QED BY <2>3, <3>3, <3>4, <4>1, <4>2
    <3> QED BY <3>5, <3>6
  <2>7. CASE Complete(m)
    <3>1. /\ job = Removed(jobs[m], "completed") /\ UNCHANGED sent
          /\ jobs[m].state = "answered"
      BY <2>1, <2>2, <2>7 DEF Complete, Move, QueueInv, QueueTypeOK
    <3>2. job \in Job /\ job.state = "completed" /\ job.stalls = 0 /\ job.result = jobs[m].result
      BY <2>0, <3>1, RemovedJob DEF JobState
    <3>3. Tells(m)'
      BY <2>0, <2>2, <3>1, <3>2 DEF Tells
    <3> QED BY <2>3, <3>1, <3>2, <3>3
  <2>8. CASE Throw(m)
    <3>1. jobs[m].state = "active" /\ UNCHANGED sent
      BY <2>8 DEF Throw
    <3>2. \/ job = [jobs[m] EXCEPT !.failures = jobs[m].failures + 1, !.state = "delayed"]
          \/ job = Removed(jobs[m], "failed")
      BY <2>1, <2>2, <2>8 DEF Throw, Move, QueueInv, QueueTypeOK
    <3>3. CASE job = Removed(jobs[m], "failed")
      <4>1. job \in Job /\ job.state = "failed" /\ job.stalls = 0 /\ job.result = jobs[m].result
        BY <2>0, <3>3, RemovedJob DEF JobState
      <4>2. Tells(m)'
        BY <2>0, <2>2, <3>1, <4>1 DEF Tells
      <4> QED BY <2>3, <3>1, <4>1, <4>2
    <3>4. CASE job # Removed(jobs[m], "failed")
      <4>1. job = [jobs[m] EXCEPT !.failures = jobs[m].failures + 1, !.state = "delayed"]
        BY <3>2, <3>4
      <4>2. /\ job \in Job /\ job.state = "delayed" /\ job.stalls = jobs[m].stalls
            /\ job.result = jobs[m].result
        <5>1. jobs[m].failures + 1 \in Nat
          BY <2>0 DEF Job
        <5> QED BY <2>0, <4>1, <5>1 DEF Job, JobState
      <4>3. Tells(m)'
        BY <2>0, <2>2, <3>1, <4>2 DEF Tells
      <4> QED BY <2>3, <3>1, <4>2, <4>3
    <3> QED BY <3>3, <3>4
  <2>9. CASE Retry(m)
    <3>1. /\ job = [jobs[m] EXCEPT !.state = "waiting"] /\ UNCHANGED sent
          /\ jobs[m].state = "delayed"
      BY <2>1, <2>2, <2>9 DEF Retry, Move, QueueInv, QueueTypeOK
    <3> QED BY <2>0, <2>2, <2>3, <3>1 DEF Job, JobState, Tells
  <2> QED BY <1>1, <2>4, <2>5, <2>6, <2>7, <2>8, <2>9 DEF QueueAction
<1>2. CASE Stall
  <2>1. ASSUME NEW m \in InWork PROVE Stalled(jobs[m]) \in Job
    BY StalledJob DEF QueueInv, QueueTypeOK, InWork
  <2>2. QueueTypeOK'
    BY <1>2, <2>1 DEF QueueInv, QueueTypeOK, Stall
  <2>3. ASSUME NEW m \in Mail PROVE Tells(m)' /\ m \notin InWork'
    <3>0. jobs[m] \in Job /\ sent[m] \in Nat /\ sent'[m] = sent[m] /\ Tells(m)
      BY <1>2 DEF QueueInv, QueueTypeOK, Stall
    <3>1. CASE m \in InWork
      <4>1. jobs'[m] = Stalled(jobs[m])
        BY <1>2, <3>1 DEF Stall, InWork
      <4>2. jobs[m].state \in {"active", "answered"}
        BY <3>1 DEF InWork
      <4>3. sent[m] <= jobs[m].stalls + 1
        BY <3>0, <4>2 DEF Tells, Job
      <4>4. /\ jobs'[m].state \in {"waiting", "failed"} /\ jobs'[m].result = FALSE
            /\ jobs'[m].state = "waiting" => jobs[m].stalls < MaxStalls /\ jobs'[m].stalls = jobs[m].stalls + 1
            /\ jobs'[m].state = "failed" => jobs'[m].stalls = 0
        BY <3>0, <4>1, StalledJob
      <4>5. jobs[m].stalls \in Nat
        BY <3>0 DEF Job
      <4> QED BY <3>0, <4>3, <4>4, <4>5 DEF Tells, InWork
    <3>2. CASE m \notin InWork
      <4>1. jobs'[m] = jobs[m]
        BY <1>2, <3>2 DEF Stall
      <4> QED BY <3>0, <3>2, <4>1 DEF Tells, InWork
    <3> QED BY <3>1, <3>2
  <2> QED BY <2>2, <2>3 DEF QueueInv, InWork
<1>3. CASE UNCHANGED queueVars
  BY <1>3 DEF QueueInv, QueueTypeOK, Tells, InWork, queueVars
<1> QED BY <1>1, <1>2, <1>3 DEF QueueNext

(***************************************************************************)
(* The queue implements MailDelivery.                                      *)
(***************************************************************************)
StatusOf(job) ==
  CASE job.state = "none" -> "none"
    [] job.state \in {"completed", "failed"} -> IF job.result THEN "delivered" ELSE "given up"
    [] OTHER -> "accepted"

\* The status that MailQueue gives MailDelivery
Status == [m \in Mail |-> StatusOf(jobs[m])]

\* A step of one job that is a step of MailDelivery
LEMMA JobImplements ==
  ASSUME QueueTypeOK, NEW m \in Mail, NEW job \in Job, jobs' = [jobs EXCEPT ![m] = job],
         \/ /\ UNCHANGED sent
            /\ \/ StatusOf(job) = StatusOf(jobs[m])
               \/ StatusOf(jobs[m]) = "none" /\ StatusOf(job) = "accepted"
               \/ StatusOf(jobs[m]) = "accepted" /\ StatusOf(job) = "given up"
               \/ StatusOf(jobs[m]) = "accepted" /\ StatusOf(job) = "delivered" /\ sent[m] > 0
         \/ /\ StatusOf(jobs[m]) = "accepted" /\ StatusOf(job) = "accepted"
            /\ sent[m] < MaxStalls + 1 /\ sent' = [sent EXCEPT ![m] = sent[m] + 1]
  PROVE  [Delivery!Next]_(Delivery!vars)
<1>1. Status' = [Status EXCEPT ![m] = StatusOf(job)] /\ Status[m] = StatusOf(jobs[m])
  BY DEF Status, QueueTypeOK
<1>2. CASE UNCHANGED sent /\ StatusOf(job) = StatusOf(jobs[m])
  <2>1. Status' = Status
    BY <1>1, <1>2 DEF Status
  <2> QED BY <1>2, <2>1 DEF Delivery!vars, Status, StatusOf
<1>3. CASE UNCHANGED sent /\ StatusOf(jobs[m]) = "none" /\ StatusOf(job) = "accepted"
  <2>1. Delivery!Accept(m)
    BY <1>1, <1>3 DEF Delivery!Accept, Status, StatusOf
  <2> QED BY <2>1 DEF Delivery!Next
<1>4. CASE UNCHANGED sent /\ StatusOf(jobs[m]) = "accepted" /\ StatusOf(job) = "given up"
  <2>1. Delivery!GiveUp(m)
    BY <1>1, <1>4 DEF Delivery!GiveUp, Status, StatusOf
  <2> QED BY <2>1 DEF Delivery!Next, Delivery!Settle
<1>5. CASE UNCHANGED sent /\ StatusOf(jobs[m]) = "accepted" /\ StatusOf(job) = "delivered" /\ sent[m] > 0
  <2>1. Delivery!Deliver(m)
    BY <1>1, <1>5 DEF Delivery!Deliver, Status, StatusOf
  <2> QED BY <2>1 DEF Delivery!Next, Delivery!Settle
<1>6. CASE /\ StatusOf(jobs[m]) = "accepted" /\ StatusOf(job) = "accepted"
           /\ sent[m] < MaxStalls + 1 /\ sent' = [sent EXCEPT ![m] = sent[m] + 1]
  <2>1. Status' = Status
    BY <1>1, <1>6 DEF Status
  <2>2. Delivery!Send(m)
    BY <1>1, <1>6, <2>1 DEF Delivery!Send, Status, StatusOf
  <2> QED BY <2>2 DEF Delivery!Next
<1> QED BY <1>2, <1>3, <1>4, <1>5, <1>6

\* Every step of the queue is one of MailDelivery, or leaves its variables alone.
LEMMA QueueImplements == QueueInv /\ [QueueNext]_queueVars => [Delivery!Next]_(Delivery!vars)
<1> SUFFICES ASSUME QueueInv, [QueueNext]_queueVars PROVE [Delivery!Next]_(Delivery!vars)
  OBVIOUS
<1> USE QueueAssumption DEF QueueInv
<1>1. ASSUME NEW m \in Mail, QueueAction(m) PROVE [Delivery!Next]_(Delivery!vars)
  <2>1. PICK job : jobs' = [jobs EXCEPT ![m] = job]
    BY <1>1 DEF QueueAction, Add, Start, Answer, Complete, Throw, Retry, Move
  <2>2. QueueTypeOK' /\ jobs'[m] = job
    BY <1>1, <2>1, QueueStays DEF QueueNext, QueueTypeOK
  <2>3. jobs[m] \in Job /\ sent[m] \in Nat /\ job \in Job /\ Tells(m)
    BY <2>2 DEF QueueTypeOK
  <2>4. CASE Add(m) \/ Start(m) \/ Retry(m)
    <3>1. /\ UNCHANGED sent /\ job.state \in {"waiting", "active"}
          /\ jobs[m].state \in {"none", "waiting", "delayed"}
      <4>1. /\ UNCHANGED sent /\ jobs[m].state \in {"none", "waiting", "delayed"}
            /\ \E state \in {"waiting", "active"} : job = [jobs[m] EXCEPT !.state = state]
        BY <2>1, <2>2, <2>4 DEF Add, Start, Retry, Move, QueueTypeOK
      <4> QED BY <2>3, <4>1 DEF Job
    <3> QED BY <2>1, <2>3, <3>1, JobImplements DEF StatusOf
  <2>5. CASE Answer(m)
    <3>1. PICK result \in BOOLEAN :
             /\ Move(m, [jobs[m] EXCEPT !.state = "answered", !.result = result])
             /\ sent' = IF result THEN [sent EXCEPT ![m] = @ + 1] ELSE sent
      BY <2>5 DEF Answer
    <3>2. jobs[m].state = "active" /\ job.state = "answered"
      <4>1. jobs[m].state = "active" /\ job = [jobs[m] EXCEPT !.state = "answered", !.result = result]
        BY <2>1, <2>2, <2>5, <3>1 DEF Answer, Move, QueueTypeOK
      <4> QED BY <2>3, <4>1 DEF Job
    <3>3. sent[m] < MaxStalls + 1
      BY <2>3, <3>2 DEF Tells, Job
    <3>4. UNCHANGED sent \/ sent' = [sent EXCEPT ![m] = sent[m] + 1]
      BY <3>1
    <3>5. StatusOf(jobs[m]) = "accepted" /\ StatusOf(job) = "accepted"
      BY <3>2 DEF StatusOf
    <3> QED BY <2>1, <2>3, <3>3, <3>4, <3>5, JobImplements
  <2>6. CASE Complete(m)
    <3>1. /\ job = Removed(jobs[m], "completed") /\ UNCHANGED sent
          /\ jobs[m].state = "answered"
      BY <2>1, <2>2, <2>6 DEF Complete, Move, QueueTypeOK
    <3>2. job.state = "completed" /\ job.result = jobs[m].result
      BY <2>3, <3>1, RemovedJob DEF JobState
    <3>3. job.result => sent[m] > 0
      BY <2>3, <3>2 DEF Tells
    <3>4. /\ StatusOf(jobs[m]) = "accepted"
          /\ StatusOf(job) = IF job.result THEN "delivered" ELSE "given up"
      BY <3>1, <3>2 DEF StatusOf
    <3> QED BY <2>1, <2>3, <3>1, <3>3, <3>4, JobImplements
  <2>7. CASE Throw(m)
    <3>1. jobs[m].state = "active" /\ UNCHANGED sent /\ ~jobs[m].result
      BY <2>3, <2>7 DEF Throw, Tells
    <3>2. \/ job = [jobs[m] EXCEPT !.failures = jobs[m].failures + 1, !.state = "delayed"]
          \/ job = Removed(jobs[m], "failed")
      BY <2>1, <2>2, <2>7 DEF Throw, Move, QueueTypeOK
    <3>3. job.state = "delayed" \/ (job.state = "failed" /\ ~job.result)
      <4>1. CASE job = Removed(jobs[m], "failed")
        BY <2>3, <3>1, <4>1, RemovedJob DEF JobState
      <4>2. CASE job = [jobs[m] EXCEPT !.failures = jobs[m].failures + 1, !.state = "delayed"]
        <5>1. jobs[m].failures + 1 \in Nat
          BY <2>3 DEF Job
        <5> QED BY <2>3, <4>2, <5>1 DEF Job
      <4> QED BY <3>2, <4>1, <4>2
    <3>4. StatusOf(jobs[m]) = "accepted" /\ StatusOf(job) \in {"accepted", "given up"}
      BY <3>1, <3>3 DEF StatusOf
    <3> QED BY <2>1, <2>3, <3>1, <3>4, JobImplements
  <2> QED BY <1>1, <2>4, <2>5, <2>6, <2>7 DEF QueueAction
<1>2. CASE Stall
  <2>1. CASE InWork = {}
    <3>1. jobs' = jobs /\ UNCHANGED sent
      BY <1>2, <2>1 DEF Stall, QueueTypeOK
    <3> QED BY <3>1 DEF Delivery!vars
  <2>2. CASE InWork # {}
    <3>1. PICK m \in Mail : InWork = {m}
      BY <2>2 DEF InWork
    <3>2. jobs' = [jobs EXCEPT ![m] = Stalled(jobs[m])] /\ UNCHANGED sent
      BY <1>2, <3>1 DEF Stall, QueueTypeOK
    <3>3. jobs[m] \in Job /\ jobs[m].state \in {"active", "answered"}
      BY <3>1 DEF InWork, QueueTypeOK
    <3>4. /\ Stalled(jobs[m]) \in Job
          /\ \/ Stalled(jobs[m]).state = "waiting"
             \/ Stalled(jobs[m]).state = "failed" /\ Stalled(jobs[m]).result = FALSE
      BY <3>3, StalledJob
    <3>5. StatusOf(jobs[m]) = "accepted" /\ StatusOf(Stalled(jobs[m])) \in {"accepted", "given up"}
      BY <3>3, <3>4 DEF StatusOf
    <3> QED BY <3>2, <3>4, <3>5, JobImplements
  <2> QED BY <2>1, <2>2
<1>3. CASE UNCHANGED queueVars
  BY <1>3 DEF Delivery!vars, queueVars
<1> QED BY <1>1, <1>2, <1>3 DEF QueueNext

\* What the queue does with a mail is what MailDelivery allows, for any number of mails,
\* attempts and deaths of workers: the recipient gets it MaxStalls + 1 times at most, and it
\* counts as delivered only if it was sent (mail.job.ts:22, mail.service.ts:77).
THEOREM MailIsDelivered ==
  AccountsSpec => Delivery!Init /\ [][Delivery!Next]_(Delivery!vars)
<1>1. AccountsInit => QueueInv /\ Delivery!Init
  <2> SUFFICES ASSUME AccountsInit PROVE QueueInv /\ Delivery!Init
    OBVIOUS
  <2>1. QueueInit
    BY DEF AccountsInit
  <2>2. QueueInv
    BY <2>1, QueueStart
  <2>3. Delivery!Init
    BY <2>1 DEF QueueInit, Delivery!Init
  <2> QED BY <2>2, <2>3
<1>2. QueueInv /\ [AccountsNext]_accountVars => QueueInv' /\ [Delivery!Next]_(Delivery!vars)
  BY QueueSteps, QueueStays, QueueImplements
<1> QED BY <1>1, <1>2, PTL DEF AccountsSpec

(***************************************************************************)
(* The requests: what each step changes                                    *)
(***************************************************************************)

\* A token stays what it is, and used.
Grown ==
  /\ Len(tokens) <= Len(tokens')
  /\ \A t \in 1 .. Len(tokens) :
       /\ tokens'[t].kind = tokens[t].kind /\ tokens'[t].account = tokens[t].account
       /\ tokens[t].used => tokens'[t].used

\* A token more: the tokens there were stay as they are.
LEMMA Created ==
  ASSUME tokens \in Seq(Token), NEW token \in Token, tokens' = Append(tokens, token)
  PROVE  /\ tokens' \in Seq(Token) /\ Grown
         /\ Len(tokens') = Len(tokens) + 1 /\ tokens'[Len(tokens) + 1] = token
         /\ \A t \in 1 .. Len(tokens) : tokens'[t] = tokens[t]
<1>1. /\ tokens' \in Seq(Token) /\ Len(tokens') = Len(tokens) + 1
      /\ \A t \in 1 .. Len(tokens) : tokens'[t] = tokens[t]
      /\ tokens'[Len(tokens) + 1] = token
  BY AppendProperties
<1>2. Len(tokens) \in Nat
  BY LenProperties
<1> QED BY <1>1, <1>2 DEF Grown

\* A token is marked used, and the others stay as they are.
LEMMA MarkedUsed ==
  ASSUME tokens \in Seq(Token), NEW t \in 1 .. Len(tokens),
         tokens' = [tokens EXCEPT ![t].used = TRUE]
  PROVE  /\ tokens' \in Seq(Token) /\ Grown /\ Len(tokens') = Len(tokens)
         /\ tokens'[t].used
         /\ \A u \in 1 .. Len(tokens) : u # t => tokens'[u] = tokens[u]
<1>1. tokens[t] \in Token /\ Len(tokens) \in Nat
  BY ElementOfSeq, LenProperties
<1> DEFINE used == [tokens[t] EXCEPT !.used = TRUE]
<1>2. used \in Token /\ used.kind = tokens[t].kind /\ used.account = tokens[t].account /\ used.used
  BY <1>1 DEF Token
<1>3. tokens' = [tokens EXCEPT ![t] = used]
  OBVIOUS
<1> HIDE DEF used
<1>4. /\ tokens' \in Seq(Token) /\ Len(tokens') = Len(tokens)
      /\ \A u \in 1 .. Len(tokens) : tokens'[u] = IF u = t THEN used ELSE tokens[u]
  <2>1. /\ [tokens EXCEPT ![t] = used] \in Seq(Token)
        /\ Len([tokens EXCEPT ![t] = used]) = Len(tokens)
        /\ \A u \in 1 .. Len(tokens) :
             [tokens EXCEPT ![t] = used][u] = IF u = t THEN used ELSE tokens[u]
    BY ONLY <1>2, ExceptSeq, tokens \in Seq(Token), t \in 1 .. Len(tokens)
  <2> QED BY <1>3, <2>1
<1>5. tokens'[t] = used /\ \A u \in 1 .. Len(tokens) : u # t => tokens'[u] = tokens[u]
  BY <1>4
<1> QED BY <1>1, <1>2, <1>4, <1>5 DEF Grown

\* The tokens as they are have grown by none.
LEMMA Unchanged == tokens \in Seq(Token) /\ UNCHANGED tokens => tokens' \in Seq(Token) /\ Grown
<1> SUFFICES ASSUME tokens \in Seq(Token), UNCHANGED tokens PROVE tokens' \in Seq(Token) /\ Grown
  OBVIOUS
<1>1. Len(tokens) \in Nat
  BY LenProperties
<1> QED BY <1>1 DEF Grown

\* The token a request redeems is one of those there are.
LEMMA TokenOfRedeem ==
  ASSUME AccountsInv, NEW r \in Redeemer, redeem[r].pc \in {"finding", "valid", "used", "failed"}
  PROVE  redeem[r].token \in 1 .. Len(tokens) /\ tokens[redeem[r].token] \in Token
<1>1. redeem[r].token \in 1 .. Len(tokens)
  BY DEF AccountsInv, Redeems
<1> QED BY <1>1, ElementOfSeq DEF AccountsInv, AccountsTypeOK

\* The accounts begin with their invariant.
LEMMA AccountsStart == AccountsInit => AccountsInv
<1> SUFFICES ASSUME AccountsInit PROVE AccountsInv
  OBVIOUS
<1>1. tokens = << >> /\ tokens \in Seq(Token) /\ Len(tokens) = 0
  BY EmptySeq DEF AccountsInit
<1>2. AccountsTypeOK
  <2>1. QueueTypeOK
    BY DEF AccountsInit, QueueInit, QueueTypeOK, Job, JobState
  <2>2. accounts \in [Account -> AccountRow] /\ context \in [Kind -> Nat]
    BY DEF AccountsInit, AccountRow
  <2>3. mailing \in [Mail -> Mailing] /\ \A m \in Mail : mailing[m].pc = "idle"
    BY DEF AccountsInit, Mailing, Kind
  <2>4. redeem \in [Redeemer -> Redeem]
    BY DEF AccountsInit, Forgotten, Redeem, Kind
  <2> QED BY <1>1, <2>1, <2>2, <2>3, <2>4 DEF AccountsTypeOK, AccountsInit
<1>3. \A m \in Mail : /\ mailing[m].pc = "idle" /\ mailing[m].token = 0 /\ mailing[m].link = 0
                      /\ ~mailing[m].direct /\ jobs[m].state = "none" /\ sent[m] = 0
  BY DEF AccountsInit, QueueInit
<1>4. \A m \in Mail : HasToken(m) /\ HasLink(m)
  <2> SUFFICES ASSUME NEW m \in Mail PROVE HasToken(m) /\ HasLink(m)
    OBVIOUS
  <2>1. HasToken(m)
    BY <1>1, <1>3 DEF HasToken
  <2>2. HasLink(m)
    BY <1>3 DEF HasLink
  <2> QED BY <2>1, <2>2
<1>5. \A r \in Redeemer : redeem[r].pc = "idle" /\ ~redeem[r].success /\ ~redeem[r].late
  BY DEF AccountsInit, Forgotten
<1>6. \A r \in Redeemer : Redeems(r)
  BY <1>5 DEF Redeems
<1>7. BurntTokensAreExplained /\ TokensAreMailed
  BY <1>1 DEF BurntTokensAreExplained, TokensAreMailed
<1>8. QueueInv
  BY QueueStart DEF AccountsInit
<1> QED BY <1>2, <1>4, <1>6, <1>7, <1>8 DEF AccountsInv

\* What a step makes of one request that mails, and of one that redeems
LEMMA MailTypes ==
  ASSUME AccountsTypeOK, NEW m \in Mail, NEW new \in Mailing, new.account \in Account,
         mailing' = [mailing EXCEPT ![m] = new]
  PROVE  /\ mailing' \in [Mail -> Mailing] /\ mailing'[m] = new
         /\ \A n \in Mail : mailing'[n].pc # "idle" => mailing'[n].account \in Account
  BY DEF AccountsTypeOK

\* What Begin makes of the record of a mail.
LEMMA BeginTypes ==
  ASSUME AccountsTypeOK, NEW m \in Mail, NEW kind \in Kind, NEW a \in Account, Begin(m, kind, a)
  PROVE  \E new \in Mailing :
           /\ mailing' = [mailing EXCEPT ![m] = new] /\ mailing[m].pc = "idle"
           /\ new.pc = "creating" /\ new.account \in Account
           /\ new.token = mailing[m].token /\ new.link = mailing[m].link
           /\ new.direct = mailing[m].direct
<1> DEFINE new == [mailing[m] EXCEPT !.pc = "creating", !.kind = kind, !.account = a]
<1>1. mailing[m] \in Mailing
  BY DEF AccountsTypeOK
<1>2. /\ new \in Mailing /\ new.pc = "creating" /\ new.account \in Account
      /\ new.token = mailing[m].token /\ new.link = mailing[m].link
      /\ new.direct = mailing[m].direct
  BY <1>1 DEF Mailing
<1>3. mailing' = [mailing EXCEPT ![m] = new] /\ mailing[m].pc = "idle"
  BY DEF Begin
<1> QED BY <1>2, <1>3

\* What CreateFails makes of the record of a mail.
LEMMA CreateFailsTypes ==
  ASSUME AccountsTypeOK, NEW m \in Mail, CreateFails(m)
  PROVE  \E new \in Mailing :
           /\ mailing' = [mailing EXCEPT ![m] = new] /\ mailing[m].pc = "creating"
           /\ new.pc \in {"creating", "failed"} /\ new.kind = mailing[m].kind
           /\ new.account = mailing[m].account /\ new.token = mailing[m].token
           /\ new.link = mailing[m].link /\ new.direct = mailing[m].direct
<1> DEFINE tries == (mailing[m].tries + 1) % Tries
           new == [mailing[m] EXCEPT !.pc = AfterFailedTry(m), !.tries = tries]
<1>1. mailing[m] \in Mailing /\ AfterFailedTry(m) \in {"creating", "failed"}
  BY DEF AccountsTypeOK, AfterFailedTry
<1>2. tries \in Nat
  BY <1>1, AccountsAssumption DEF Mailing
<1>3. mailing' = [mailing EXCEPT ![m] = new] /\ mailing[m].pc = "creating"
  BY <1>1 DEF CreateFails, AccountsTypeOK, Mailing
<1> HIDE DEF tries
<1>4. /\ new \in Mailing /\ new.pc = AfterFailedTry(m) /\ new.kind = mailing[m].kind
      /\ new.account = mailing[m].account /\ new.token = mailing[m].token
      /\ new.link = mailing[m].link /\ new.direct = mailing[m].direct
  BY <1>1, <1>2 DEF Mailing
<1> QED BY <1>1, <1>3, <1>4

\* What Create makes of the record of a mail.
LEMMA CreateTypes ==
  ASSUME AccountsTypeOK, NEW m \in Mail, Create(m)
  PROVE  \E new \in Mailing :
           /\ mailing' = [mailing EXCEPT ![m] = new] /\ mailing[m].pc = "creating"
           /\ new.pc \in {"created", "failed"} /\ new.kind = mailing[m].kind
           /\ new.account = mailing[m].account /\ new.token = Len(tokens) + 1
           /\ new.link = mailing[m].link /\ new.direct = mailing[m].direct
<1> DEFINE token == Len(tokens) + 1
           new == [mailing[m] EXCEPT !.pc = AfterCreated(m), !.tries = 0, !.token = token]
<1>1. mailing[m] \in Mailing /\ AfterCreated(m) \in {"created", "failed"}
  BY DEF AccountsTypeOK, AfterCreated
<1>2. token \in Nat
  BY LenProperties DEF AccountsTypeOK
<1>3. mailing' = [mailing EXCEPT ![m] = new] /\ mailing[m].pc = "creating"
  BY <1>1 DEF Create, AccountsTypeOK, Mailing
<1> HIDE DEF token
<1>4. /\ new \in Mailing /\ new.pc = AfterCreated(m) /\ new.kind = mailing[m].kind
      /\ new.account = mailing[m].account /\ new.token = token
      /\ new.link = mailing[m].link /\ new.direct = mailing[m].direct
  BY <1>1, <1>2 DEF Mailing
<1> QED BY <1>1, <1>3, <1>4 DEF token

\* What Compose makes of the shared contexts.
LEMMA ComposeTypes ==
  ASSUME AccountsTypeOK, NEW m \in Mail, Compose(m)
  PROVE  /\ context' \in [Kind -> Nat] /\ context'[mailing[m].kind] \in Nat
         /\ context'[mailing[m].kind] = LinkOf(mailing[m].kind, mailing[m].token)
<1>1. mailing[m] \in Mailing
  BY DEF AccountsTypeOK
<1>2. mailing[m].kind \in Kind /\ LinkOf(mailing[m].kind, mailing[m].token) \in Nat
  BY <1>1 DEF Mailing, LinkOf, AccountsTypeOK
<1> QED BY <1>1, <1>2 DEF Compose, AccountsTypeOK

\* What Compose and the reply make of the record of a mail.
LEMMA RepliedTypes ==
  ASSUME AccountsTypeOK, NEW m \in Mail, NEW result \in BOOLEAN, Compose(m), Replied(m, result)
  PROVE  \E new \in Mailing :
           /\ mailing' = [mailing EXCEPT ![m] = new] /\ mailing[m].pc = "created"
           /\ new.pc = "replied" /\ new.kind = mailing[m].kind
           /\ new.account = mailing[m].account /\ new.token = mailing[m].token
           /\ new.link = LinkOf(mailing[m].kind, mailing[m].token) /\ new.direct = result
<1> DEFINE link == context'[mailing[m].kind]
           new == [mailing[m] EXCEPT !.pc = "replied", !.direct = result, !.link = link]
<1>1. mailing[m] \in Mailing /\ link \in Nat
  BY ComposeTypes DEF AccountsTypeOK
<1>2. mailing' = [mailing EXCEPT ![m] = new] /\ mailing[m].pc = "created"
  BY <1>1 DEF Compose, Replied, AccountsTypeOK, Mailing
<1>3. link = LinkOf(mailing[m].kind, mailing[m].token)
  BY ComposeTypes
<1> HIDE DEF link
<1>4. /\ new \in Mailing /\ new.pc = "replied" /\ new.kind = mailing[m].kind
      /\ new.account = mailing[m].account /\ new.token = mailing[m].token
      /\ new.link = link /\ new.direct = result
  BY <1>1 DEF Mailing
<1> QED BY <1>2, <1>3, <1>4

\* What SendFails makes of the record of a mail.
LEMMA SendFailsTypes ==
  ASSUME AccountsTypeOK, NEW m \in Mail, SendFails(m)
  PROVE  \E new \in Mailing :
           /\ mailing' = [mailing EXCEPT ![m] = new] /\ mailing[m].pc = "created"
           /\ new.pc = "failed" /\ new.kind = mailing[m].kind
           /\ new.account = mailing[m].account /\ new.token = mailing[m].token
           /\ new.link = mailing[m].link /\ new.direct = mailing[m].direct
<1> DEFINE new == [mailing[m] EXCEPT !.pc = "failed"]
<1>1. mailing[m] \in Mailing
  BY DEF AccountsTypeOK
<1>2. mailing' = [mailing EXCEPT ![m] = new] /\ mailing[m].pc = "created"
  BY <1>1 DEF SendFails, Compose, AccountsTypeOK, Mailing
<1>3. /\ new \in Mailing /\ new.pc = "failed" /\ new.kind = mailing[m].kind
      /\ new.account = mailing[m].account /\ new.token = mailing[m].token
      /\ new.link = mailing[m].link /\ new.direct = mailing[m].direct
  BY <1>1 DEF Mailing
<1> QED BY <1>2, <1>3

(***************************************************************************)
(* The requests: what they preserve                                        *)
(***************************************************************************)

\* No mailed link is lost, so that what a request redeems is as it was.
LEMMA LinksStay ==
  ASSUME \A n \in Mail : Received(n) => Received(n)' /\ mailing'[n].link = mailing[n].link
  PROVE  MailedLinks \subseteq MailedLinks'
  BY DEF MailedLinks

\* A request to a link is not disturbed when tokens and mails only grow.
LEMMA RedeemStays ==
  ASSUME NEW r \in Redeemer, Redeems(r), redeem'[r] = redeem[r], Grown,
         tokens \in Seq(Token), tokens' \in Seq(Token), MailedLinks \subseteq MailedLinks',
         redeem[r] \in Redeem
  PROVE  Redeems(r)'
<1>1. Len(tokens) \in Nat /\ Len(tokens') \in Nat
  BY LenProperties
<1>2. /\ redeem[r].late \in BOOLEAN /\ redeem[r].success \in BOOLEAN
      /\ redeem[r].late => redeem[r].pc \in {"finding", "failed"}
  BY DEF Redeem, Redeems
<1>3. redeem[r].token \in 1 .. Len(tokens) => redeem[r].token \in 1 .. Len(tokens')
  BY <1>1 DEF Grown
<1> QED BY <1>2, <1>3 DEF Redeems, Grown

\* A mail is not disturbed when tokens only grow and its job stays.
LEMMA MailStays ==
  ASSUME NEW m \in Mail, HasToken(m), HasLink(m), mailing'[m] = mailing[m], UNCHANGED config,
         Grown, tokens \in Seq(Token), tokens' \in Seq(Token),
         jobs'[m].state = "none" <=> jobs[m].state = "none"
  PROVE  HasToken(m)' /\ HasLink(m)'
<1>1. Len(tokens) \in Nat /\ Len(tokens') \in Nat
  BY LenProperties
<1>2. mailing[m].token \in 0 .. Len(tokens')
  BY <1>1 DEF HasToken, Grown
<1>3. mailing[m].token # 0 => mailing[m].token \in 1 .. Len(tokens)
  BY <1>1 DEF HasToken
<1>4. HasToken(m)'
  BY <1>2, <1>3 DEF HasToken, Grown
<1>5. HasLink(m)'
  BY DEF HasLink
<1> QED BY <1>4, <1>5

\* A mail that moves was not received.
LEMMA MailMoves ==
  ASSUME AccountsInv, NEW m \in Mail, NEW new \in Mailing, new.account \in Account,
         mailing' = [mailing EXCEPT ![m] = new], UNCHANGED <<config, redeem>>,
         QueueTypeOK', accounts' \in [Account -> AccountRow], context' \in [Kind -> Nat],
         tokens' \in Seq(Token), Grown, faults' \in Nat, mailing[m].pc # "replied",
         HasToken(m)', HasLink(m)',
         \A n \in Mail \ {m} : jobs'[n] = jobs[n] /\ sent'[n] = sent[n]
  PROVE  /\ AccountsTypeOK'
         /\ \A n \in Mail : HasToken(n)' /\ HasLink(n)'
         /\ \A r \in Redeemer : Redeems(r)'
<1> USE DEF AccountsInv
<1>1. AccountsTypeOK'
  BY MailTypes DEF AccountsTypeOK
<1>2. ASSUME NEW n \in Mail PROVE HasToken(n)' /\ HasLink(n)'
  <2>1. CASE n # m
    <3>1. mailing'[n] = mailing[n]
      BY <2>1 DEF AccountsTypeOK
    <3> QED BY <2>1, <3>1, MailStays DEF AccountsTypeOK
  <2> QED BY <2>1
<1>3. ~Received(m)
  <2>1. jobs[m].state = "none" /\ ~mailing[m].direct
    BY DEF HasLink
  <2>2. sent[m] = 0
    BY <2>1 DEF QueueInv, Tells
  <2> QED BY <2>1, <2>2 DEF Received
<1>4. ASSUME NEW n \in Mail, Received(n)
      PROVE  Received(n)' /\ mailing'[n].link = mailing[n].link
  <2>1. n # m /\ mailing'[n] = mailing[n]
    BY <1>3, <1>4 DEF AccountsTypeOK
  <2> QED BY <1>4, <2>1 DEF Received
<1>5. MailedLinks \subseteq MailedLinks'
  BY <1>4, LinksStay
<1>6. \A r \in Redeemer : Redeems(r)'
  BY <1>5, RedeemStays DEF AccountsTypeOK
<1> QED BY <1>1, <1>2, <1>6

\* A step of a request to a link keeps the rest of the invariant.
LEMMA RedeemMoves ==
  ASSUME AccountsInv, NEW r \in Redeemer, NEW new \in Redeem,
         redeem' = [redeem EXCEPT ![r] = new], UNCHANGED <<config, context, mailing, queueVars>>,
         accounts' \in [Account -> AccountRow],
         tokens' \in Seq(Token), Grown, Len(tokens') = Len(tokens), faults' \in Nat,
         Redeems(r)'
  PROVE  /\ AccountsTypeOK'
         /\ \A n \in Mail : HasToken(n)' /\ HasLink(n)'
         /\ \A q \in Redeemer : Redeems(q)'
         /\ TokensAreMailed'
<1> USE DEF AccountsInv, queueVars
<1>1. AccountsTypeOK'
  BY DEF AccountsTypeOK, QueueTypeOK
<1>2. \A n \in Mail : HasToken(n)' /\ HasLink(n)'
  BY MailStays DEF AccountsTypeOK
<1>3. MailedLinks \subseteq MailedLinks'
  BY LinksStay DEF Received
<1>4. ASSUME NEW q \in Redeemer, q # r PROVE Redeems(q)'
  <2>1. redeem'[q] = redeem[q]
    BY <1>4 DEF AccountsTypeOK
  <2> QED BY <1>3, <2>1, RedeemStays DEF AccountsTypeOK
<1>5. TokensAreMailed'
  BY DEF TokensAreMailed
<1> QED BY <1>1, <1>2, <1>4, <1>5

\* Used tokens stay explained when no request that redeems moves.
LEMMA BurntStay ==
  ASSUME AccountsInv, UNCHANGED redeem,
         \A t \in 1 .. Len(tokens') :
           tokens'[t].used => t \in 1 .. Len(tokens) /\ tokens'[t] = tokens[t],
         \A a \in Account : /\ accounts'[a].verified = accounts[a].verified
                            /\ accounts'[a].password = accounts[a].password
  PROVE  BurntTokensAreExplained'
<1> SUFFICES ASSUME NEW t \in 1 .. Len(tokens'), tokens'[t].used
             PROVE  LET a == accounts'[tokens'[t].account] IN
                    \/ IF tokens'[t].kind = "email" THEN a.verified ELSE a.password # Null
                    \/ \E r \in Redeemer : redeem'[r].token = t /\ redeem'[r].pc \in {"used", "failed"}
  BY DEF BurntTokensAreExplained
<1>1. t \in 1 .. Len(tokens) /\ tokens'[t] = tokens[t] /\ tokens[t].used
  OBVIOUS
<1>2. tokens[t].account \in Account
  <2>1. tokens[t] \in Token
    BY <1>1, ElementOfSeq DEF AccountsInv, AccountsTypeOK
  <2> QED BY <2>1 DEF Token
<1> QED BY <1>1, <1>2 DEF AccountsInv, BurntTokensAreExplained

\* Tokens keep their mails when one mail moves and keeps its token.
LEMMA MailedStay ==
  ASSUME AccountsInv, NEW m \in Mail, NEW new \in Mailing,
         mailing' = [mailing EXCEPT ![m] = new], UNCHANGED config,
         \/ /\ Len(tokens') = Len(tokens)
            /\ mailing[m].token = 0 \/ new.token = mailing[m].token
         \/ Len(tokens') = Len(tokens) + 1 /\ new.token = Len(tokens) + 1 /\ mailing[m].token = 0,
         \/ new.token = 0
         \/ new.pc \notin {"idle", "creating", "replied"}
         \/ new.pc = "replied" /\ (new.link = new.token \/ config.shared)
  PROVE  TokensAreMailed'
<1> SUFFICES ASSUME NEW t \in 1 .. Len(tokens')
             PROVE  \E n \in Mail :
                      /\ mailing'[n].token = t
                      /\ \/ mailing'[n].pc \notin {"idle", "creating", "replied"}
                         \/ mailing'[n].pc = "replied" /\ (mailing'[n].link = t \/ config'.shared)
  BY DEF TokensAreMailed
<1>0. mailing'[m] = new /\ \A n \in Mail : n # m => mailing'[n] = mailing[n]
  BY DEF AccountsInv, AccountsTypeOK
<1>1. Len(tokens) \in Nat /\ t # 0
  BY LenProperties DEF AccountsInv, AccountsTypeOK
<1>2. CASE new.token = t
  BY <1>0, <1>1, <1>2
<1>3. CASE new.token # t
  <2>1. t \in 1 .. Len(tokens)
    BY <1>1, <1>3
  <2>2. PICK n \in Mail :
          /\ mailing[n].token = t
          /\ \/ mailing[n].pc \notin {"idle", "creating", "replied"}
             \/ mailing[n].pc = "replied" /\ (mailing[n].link = t \/ config.shared)
    BY <2>1 DEF AccountsInv, TokensAreMailed
  <2>3. n # m
    BY <1>1, <1>3, <2>2
  <2> QED BY <1>0, <2>2, <2>3
<1> QED BY <1>2, <1>3

(***************************************************************************)
(* The steps of the requests                                               *)
(***************************************************************************)
RequestInv ==
  /\ AccountsTypeOK
  /\ \A m \in Mail : HasToken(m) /\ HasLink(m)
  /\ \A r \in Redeemer : Redeems(r)
  /\ BurntTokensAreExplained
  /\ TokensAreMailed

\* Register and SendToken keep the invariant.
LEMMA BeginStays ==
  ASSUME AccountsInv, NEW m \in Mail, NEW a \in Account,
         Register(m, a) \/ \E kind \in Kind : SendToken(m, kind, a)
  PROVE  RequestInv'
<1> USE DEF AccountsInv
<1>1. PICK kind \in Kind : Begin(m, kind, a)
  BY DEF Register, SendToken, Kind
<1>2. UNCHANGED <<queueVars, config, tokens, context, redeem, faults>>
  BY DEF Register, SendToken
<1>3. PICK new \in Mailing :
        /\ mailing' = [mailing EXCEPT ![m] = new] /\ mailing[m].pc = "idle"
        /\ new.pc = "creating" /\ new.account \in Account
        /\ new.token = mailing[m].token /\ new.link = mailing[m].link
        /\ new.direct = mailing[m].direct
  BY <1>1, BeginTypes
<1>4. mailing'[m] = new
  BY <1>3 DEF AccountsTypeOK
<1>5. HasToken(m)' /\ HasLink(m)'
  BY <1>2, <1>3, <1>4 DEF HasToken, HasLink, queueVars
<1>6. /\ accounts' \in [Account -> AccountRow]
      /\ \A b \in Account : /\ accounts'[b].verified = accounts[b].verified
                            /\ accounts'[b].password = accounts[b].password
  <2>1. CASE UNCHANGED accounts
    BY <2>1 DEF AccountsTypeOK
  <2>2. CASE accounts' = [accounts EXCEPT ![a].exists = TRUE]
    <3>1. accounts[a] \in AccountRow
      BY DEF AccountsTypeOK
    <3>2. [accounts[a] EXCEPT !.exists = TRUE] \in AccountRow
      BY <3>1 DEF AccountRow
    <3>3. /\ [accounts[a] EXCEPT !.exists = TRUE].verified = accounts[a].verified
          /\ [accounts[a] EXCEPT !.exists = TRUE].password = accounts[a].password
      BY <3>1 DEF AccountRow
    <3> QED BY <2>2, <3>2, <3>3 DEF AccountsTypeOK
  <2> QED BY <2>1, <2>2 DEF Register, SendToken
<1>7. tokens' \in Seq(Token) /\ Grown
  BY <1>2, Unchanged DEF AccountsTypeOK
<1>8. /\ AccountsTypeOK'
      /\ \A n \in Mail : HasToken(n)' /\ HasLink(n)'
      /\ \A r \in Redeemer : Redeems(r)'
  BY <1>2, <1>3, <1>5, <1>6, <1>7, MailMoves DEF AccountsTypeOK, QueueTypeOK, queueVars
<1>9. BurntTokensAreExplained'
  BY <1>2, <1>6, BurntStay
<1>10. TokensAreMailed'
  <2>1. new.token = 0
    BY <1>3 DEF HasToken
  <2> QED BY <1>2, <1>3, <2>1, MailedStay
<1> QED BY <1>8, <1>9, <1>10 DEF RequestInv

\* Create keeps the invariant.
LEMMA CreateStays ==
  ASSUME AccountsInv, NEW m \in Mail, Create(m)
  PROVE  RequestInv'
<1> USE DEF AccountsInv
<1>1. UNCHANGED <<queueVars, config, accounts, context, redeem, faults>>
  BY DEF Create
<1> DEFINE token == [kind |-> mailing[m].kind, account |-> mailing[m].account, used |-> FALSE]
<1>2. mailing[m] \in Mailing /\ mailing[m].pc = "creating" /\ mailing[m].account \in Account
  BY DEF Create, AccountsTypeOK
<1>3. token \in Token
  BY <1>2 DEF Token, Mailing
<1>4. /\ tokens' \in Seq(Token) /\ Grown
      /\ Len(tokens') = Len(tokens) + 1 /\ tokens'[Len(tokens) + 1] = token
      /\ \A t \in 1 .. Len(tokens) : tokens'[t] = tokens[t]
  <2>1. tokens' = Append(tokens, token)
    BY DEF Create
  <2> HIDE DEF token
  <2> QED BY <1>3, <2>1, Created DEF AccountsTypeOK
<1>5. PICK new \in Mailing :
        /\ mailing' = [mailing EXCEPT ![m] = new] /\ mailing[m].pc = "creating"
        /\ new.pc \in {"created", "failed"} /\ new.kind = mailing[m].kind
        /\ new.account = mailing[m].account /\ new.token = Len(tokens) + 1
        /\ new.link = mailing[m].link /\ new.direct = mailing[m].direct
  BY CreateTypes
<1>6. mailing'[m] = new /\ Len(tokens) \in Nat
  BY <1>5, LenProperties DEF AccountsTypeOK
<1>7. HasToken(m)'
  BY <1>4, <1>5, <1>6 DEF HasToken
<1>8. HasLink(m)'
  <2>1. mailing[m].link = 0 /\ ~mailing[m].direct /\ jobs[m].state = "none"
    BY <1>2 DEF HasLink
  <2> QED BY <1>1, <1>5, <1>6, <2>1 DEF HasLink, queueVars
<1>9. /\ AccountsTypeOK'
      /\ \A n \in Mail : HasToken(n)' /\ HasLink(n)'
      /\ \A r \in Redeemer : Redeems(r)'
  BY <1>1, <1>2, <1>4, <1>5, <1>7, <1>8, MailMoves DEF AccountsTypeOK, QueueTypeOK, queueVars
<1>10. BurntTokensAreExplained'
  <2>1. ~tokens'[Len(tokens) + 1].used
    BY <1>4
  <2>2. \A t \in 1 .. Len(tokens') : tokens'[t].used => t \in 1 .. Len(tokens) /\ tokens'[t] = tokens[t]
    BY <1>4, <1>6, <2>1
  <2> QED BY <1>1, <2>2, BurntStay
<1>11. TokensAreMailed'
  <2>1. mailing[m].token = 0
    BY <1>2 DEF HasToken
  <2> QED BY <1>1, <1>4, <1>5, <2>1, MailedStay
<1> QED BY <1>9, <1>10, <1>11 DEF RequestInv

\* The request fails, or is about to try again.
LEMMA MailFailureStays ==
  ASSUME AccountsInv, NEW m \in Mail, CreateFails(m) \/ SendFails(m)
  PROVE  RequestInv'
<1> USE DEF AccountsInv
<1>1. UNCHANGED <<queueVars, config, accounts, tokens, redeem>>
  BY DEF CreateFails, SendFails, Compose
<1>2. faults' \in Nat /\ context' \in [Kind -> Nat]
  BY ComposeTypes DEF CreateFails, SendFails, Fault, AccountsTypeOK
<1>3. PICK new \in Mailing :
        /\ mailing' = [mailing EXCEPT ![m] = new] /\ mailing[m].pc \in {"creating", "created"}
        /\ \/ new.pc = "failed"
           \/ new.pc = "creating" /\ mailing[m].pc = "creating"
        /\ new.kind = mailing[m].kind
        /\ new.account = mailing[m].account /\ new.token = mailing[m].token
        /\ new.link = mailing[m].link /\ new.direct = mailing[m].direct
  BY CreateFailsTypes, SendFailsTypes
<1>4. mailing'[m] = new /\ new.account \in Account
  BY <1>3 DEF AccountsTypeOK
<1>5. HasToken(m)'
  BY <1>1, <1>3, <1>4 DEF HasToken
<1>6. HasLink(m)'
  <2>1. mailing[m].link = 0 /\ ~mailing[m].direct /\ jobs[m].state = "none"
    BY <1>3 DEF HasLink
  <2> QED BY <1>1, <1>3, <1>4, <2>1 DEF HasLink, queueVars
<1>7. tokens' \in Seq(Token) /\ Grown
  BY <1>1, Unchanged DEF AccountsTypeOK
<1>8. /\ AccountsTypeOK'
      /\ \A n \in Mail : HasToken(n)' /\ HasLink(n)'
      /\ \A r \in Redeemer : Redeems(r)'
  BY <1>1, <1>2, <1>3, <1>4, <1>5, <1>6, <1>7, MailMoves DEF AccountsTypeOK, QueueTypeOK, queueVars
<1>9. BurntTokensAreExplained'
  BY <1>1, BurntStay
<1>10. TokensAreMailed'
  <2>1. new.pc = "creating" => new.token = 0
    BY <1>3 DEF HasToken
  <2> QED BY <1>1, <1>3, <2>1, MailedStay
<1> QED BY <1>8, <1>9, <1>10 DEF RequestInv

\* Sending, by the queue or directly, keeps the invariant.
LEMMA SendStays ==
  ASSUME AccountsInv, QueueTypeOK', NEW m \in Mail, SendToQueue(m) \/ SendDirect(m)
  PROVE  RequestInv'
<1> USE DEF AccountsInv
<1>1. UNCHANGED <<sent, config, accounts, tokens, redeem, faults>>
  BY DEF SendToQueue, SendDirect, Compose, Add, queueVars
<1>2. PICK result \in BOOLEAN : Compose(m) /\ Replied(m, result)
  BY DEF SendToQueue, SendDirect
<1>3. context' \in [Kind -> Nat]
  BY <1>2, ComposeTypes
<1>4. PICK new \in Mailing :
        /\ mailing' = [mailing EXCEPT ![m] = new] /\ mailing[m].pc = "created"
        /\ new.pc = "replied" /\ new.kind = mailing[m].kind
        /\ new.account = mailing[m].account /\ new.token = mailing[m].token
        /\ new.link = LinkOf(mailing[m].kind, mailing[m].token) /\ new.direct = result
  BY <1>2, RepliedTypes
<1>5. mailing'[m] = new /\ new.account \in Account
  BY <1>4 DEF AccountsTypeOK
<1>6. HasToken(m)'
  BY <1>1, <1>4, <1>5 DEF HasToken
<1>7. new.link # 0 /\ (~config.shared => new.link = new.token)
  <2>1. mailing[m].token # 0
    BY <1>4 DEF HasToken
  <2> QED BY <1>4, <2>1 DEF LinkOf
<1>8. HasLink(m)'
  BY <1>1, <1>4, <1>5, <1>7 DEF HasLink
<1>9. tokens' \in Seq(Token) /\ Grown
  BY <1>1, Unchanged DEF AccountsTypeOK
<1>10. \A n \in Mail \ {m} : jobs'[n] = jobs[n]
  BY DEF SendToQueue, SendDirect, Add, Move, queueVars, QueueInv, QueueTypeOK
<1>11. /\ AccountsTypeOK'
       /\ \A n \in Mail : HasToken(n)' /\ HasLink(n)'
       /\ \A r \in Redeemer : Redeems(r)'
  BY <1>1, <1>3, <1>4, <1>5, <1>6, <1>8, <1>9, <1>10, MailMoves DEF AccountsTypeOK
<1>12. BurntTokensAreExplained'
  BY <1>1, BurntStay
<1>13. TokensAreMailed'
  BY <1>1, <1>4, <1>7, MailedStay
<1> QED BY <1>11, <1>12, <1>13 DEF RequestInv

\* A job stays a job, and what was sent stays sent.
QueueGrows ==
  \A m \in Mail : /\ jobs'[m].state = "none" <=> jobs[m].state = "none"
                  /\ sent[m] > 0 => sent'[m] > 0

\* A worker touches one job, and never makes one.
LEMMA WorkGrows == ASSUME QueueInv, QueueInv', NEW m \in Mail, QueueStep(m) PROVE QueueGrows
<1> USE DEF QueueInv
<1>1. /\ \A n \in Mail \ {m} : jobs'[n] = jobs[n]
      /\ sent' = sent \/ sent' = [sent EXCEPT ![m] = sent[m] + 1]
      /\ jobs[m].state # "none"
  BY DEF QueueStep, Work, Start, Answer, Complete, Retry, Throw, Move, QueueTypeOK
<1>2. PICK job : jobs' = [jobs EXCEPT ![m] = job]
  BY DEF QueueStep, Work, Start, Answer, Complete, Retry, Throw, Move
<1>3. jobs'[m] = job /\ jobs[m] \in Job
  BY <1>2 DEF QueueTypeOK
<1>4. job.state # "none"
  <2>1. \/ \E state \in JobState \ {"none"} : job = [jobs[m] EXCEPT !.state = state]
        \/ \E state \in JobState \ {"none"} : job = Removed(jobs[m], state)
        \/ \E result \in BOOLEAN : job = [jobs[m] EXCEPT !.state = "answered", !.result = result]
        \/ job = [jobs[m] EXCEPT !.failures = jobs[m].failures + 1, !.state = "delayed"]
    BY <1>2, <1>3
       DEF QueueStep, Work, Start, Answer, Complete, Retry, Throw, Move, JobState, QueueTypeOK
  <2>2. CASE \E state \in JobState \ {"none"} : job = [jobs[m] EXCEPT !.state = state]
    BY <1>3, <2>2 DEF Job
  <2>3. CASE \E state \in JobState \ {"none"} : job = Removed(jobs[m], state)
    BY <1>3, <2>3, RemovedJob
  <2>4. CASE \E result \in BOOLEAN : job = [jobs[m] EXCEPT !.state = "answered", !.result = result]
    BY <1>3, <2>4 DEF Job
  <2>5. CASE job = [jobs[m] EXCEPT !.failures = jobs[m].failures + 1, !.state = "delayed"]
    <3>1. jobs[m].failures + 1 \in Nat
      BY <1>3 DEF Job
    <3> QED BY <1>3, <2>5, <3>1 DEF Job
  <2> QED BY <2>1, <2>2, <2>3, <2>4, <2>5
<1>5. \A n \in Mail : sent[n] > 0 => sent'[n] > 0
  BY <1>1 DEF QueueTypeOK
<1> QED BY <1>1, <1>3, <1>4, <1>5 DEF QueueGrows

\* A stall makes no job and sends nothing.
LEMMA StallGrows == ASSUME QueueInv, Stall PROVE QueueGrows
<1> SUFFICES ASSUME NEW m \in Mail
             PROVE  /\ jobs'[m].state = "none" <=> jobs[m].state = "none"
                    /\ sent'[m] = sent[m]
  BY DEF QueueGrows
<1>1. jobs[m] \in Job /\ sent'[m] = sent[m]
  BY DEF QueueInv, QueueTypeOK, Stall
<1>2. CASE m \in InWork
  <2>1. jobs'[m] = Stalled(jobs[m]) /\ jobs[m].state \in {"active", "answered"}
    BY <1>2 DEF Stall, InWork
  <2> QED BY <1>1, <2>1, StalledJob
<1>3. CASE m \notin InWork
  BY <1>1, <1>3 DEF Stall
<1> QED BY <1>2, <1>3

\* What the queue does leaves the requests as they are.
LEMMA QueueStepStays ==
  ASSUME AccountsInv, QueueTypeOK', QueueGrows, faults' \in Nat,
         UNCHANGED <<config, accounts, tokens, context, mailing, redeem>>
  PROVE  RequestInv'
<1> USE DEF AccountsInv
<1>1. tokens' \in Seq(Token) /\ Grown
  BY Unchanged DEF AccountsTypeOK
<1>2. AccountsTypeOK'
  BY DEF AccountsTypeOK
<1>3. \A m \in Mail : HasToken(m)' /\ HasLink(m)'
  <2> SUFFICES ASSUME NEW m \in Mail PROVE HasToken(m)' /\ HasLink(m)'
    OBVIOUS
  <2>1. mailing'[m] = mailing[m] /\ (jobs'[m].state = "none" <=> jobs[m].state = "none")
    BY DEF QueueGrows
  <2>2. HasToken(m) /\ HasLink(m) /\ tokens \in Seq(Token)
    BY DEF AccountsTypeOK
  <2> QED BY ONLY <1>1, <2>1, <2>2, MailStays, UNCHANGED config, m \in Mail
<1>4. MailedLinks \subseteq MailedLinks'
  <2>1. \A m \in Mail : Received(m) => Received(m)' /\ mailing'[m].link = mailing[m].link
    BY DEF Received, QueueGrows
  <2> QED BY <2>1, LinksStay
<1>5. \A r \in Redeemer : Redeems(r)'
  BY <1>1, <1>4, RedeemStays DEF AccountsTypeOK
<1>6. BurntTokensAreExplained'
  BY BurntStay
<1>7. TokensAreMailed'
  BY DEF TokensAreMailed
<1> QED BY <1>2, <1>3, <1>5, <1>6, <1>7 DEF RequestInv

\* Follow keeps the invariant.
LEMMA FollowStays ==
  ASSUME AccountsInv, NEW r \in Redeemer, NEW kind \in Kind, NEW t \in 1 .. Len(tokens),
         Follow(r, kind, t)
  PROVE  RequestInv'
<1> USE DEF AccountsInv
<1>1. UNCHANGED <<queueVars, config, accounts, tokens, context, mailing, faults>> /\ t \in MailedLinks
  BY DEF Follow
<1>2. redeem[r] \in Redeem /\ redeem[r].pc = "idle" /\ tokens[t] \in Token /\ t \in Nat
  BY ElementOfSeq DEF Follow, AccountsTypeOK
<1>3. ~redeem[r].success /\ tokens[t].used \in BOOLEAN
  BY <1>2 DEF Redeems, Token
<1> DEFINE late == tokens[t].used
           new == [redeem[r] EXCEPT !.pc = "finding", !.kind = kind, !.token = t, !.late = late]
<1>4. redeem' = [redeem EXCEPT ![r] = new]
  BY DEF Follow
<1>5. late = tokens[t].used /\ late \in BOOLEAN
  BY <1>3
<1> HIDE DEF late
<1>6. /\ new \in Redeem /\ new.pc = "finding" /\ new.token = t /\ new.late = late
      /\ new.success = redeem[r].success
  BY <1>2, <1>5 DEF Redeem
<1> HIDE DEF new
<1>7. redeem'[r] = new
  BY <1>4 DEF AccountsTypeOK
<1>8. MailedLinks' = MailedLinks
  BY <1>1 DEF MailedLinks, Received, queueVars
<1>9. Redeems(r)'
  BY <1>1, <1>3, <1>5, <1>6, <1>7, <1>8 DEF Redeems
<1>10. tokens' \in Seq(Token) /\ Grown
  BY <1>1, Unchanged DEF AccountsTypeOK
<1>11. /\ AccountsTypeOK'
       /\ \A n \in Mail : HasToken(n)' /\ HasLink(n)'
       /\ \A q \in Redeemer : Redeems(q)'
       /\ TokensAreMailed'
  BY <1>1, <1>4, <1>6, <1>9, <1>10, RedeemMoves DEF AccountsTypeOK
<1>12. \A q \in Redeemer : redeem[q].pc \in {"used", "failed"} => redeem'[q] = redeem[q]
  BY <1>2, <1>4 DEF AccountsTypeOK
<1>13. BurntTokensAreExplained'
  BY <1>1, <1>12 DEF BurntTokensAreExplained
<1> QED BY <1>11, <1>13 DEF RequestInv

\* The token is looked up, or the request ends without a change.
LEMMA FindStays ==
  ASSUME AccountsInv, NEW r \in Redeemer, Find(r) \/ Refuse(r)
  PROVE  RequestInv'
<1> USE DEF AccountsInv
<1>1. UNCHANGED <<queueVars, config, accounts, tokens, context, mailing, faults>>
  BY DEF Find, Refuse
<1>2. redeem[r] \in Redeem /\ redeem[r].pc \in {"finding", "valid"}
  BY DEF Find, Refuse, AccountsTypeOK
<1>3. redeem[r].token \in 1 .. Len(tokens) /\ tokens[redeem[r].token] \in Token
  BY <1>2, TokenOfRedeem
<1>4. redeem[r].token \in MailedLinks /\ ~redeem[r].success
  BY <1>2 DEF Redeems
<1>5. MailedLinks' = MailedLinks
  BY <1>1 DEF MailedLinks, Received, queueVars
<1>6. \E new \in Redeem : redeem' = [redeem EXCEPT ![r] = new] /\ Redeems(r)'
  <2>1. CASE Find(r)
    <3> DEFINE new == [redeem[r] EXCEPT !.pc = "valid"]
    <3>1. redeem' = [redeem EXCEPT ![r] = new]
      BY <2>1 DEF Find
    <3>2. /\ new \in Redeem /\ new.pc = "valid" /\ new.token = redeem[r].token
          /\ new.kind = redeem[r].kind /\ new.late = redeem[r].late /\ new.success = redeem[r].success
      BY <1>2 DEF Redeem
    <3> HIDE DEF new
    <3>3. redeem'[r] = new
      BY <3>1 DEF AccountsTypeOK
    <3>4. tokens[redeem[r].token].kind = redeem[r].kind /\ ~tokens[redeem[r].token].used
      BY <2>1 DEF Find, FoundValid
    <3>5. ~redeem[r].late
      BY <3>4 DEF Redeems
    <3>6. Redeems(r)'
      BY <1>1, <1>3, <1>4, <1>5, <3>2, <3>3, <3>4, <3>5 DEF Redeems
    <3> QED BY <3>1, <3>2, <3>6
  <2>2. CASE Refuse(r)
    <3>1. redeem' = [redeem EXCEPT ![r] = Forgotten] /\ Forgotten \in Redeem
      BY <2>2 DEF Refuse, Forgotten, Redeem, Kind
    <3>2. redeem'[r] = Forgotten
      BY <3>1 DEF AccountsTypeOK
    <3>3. Redeems(r)'
      BY <3>2 DEF Redeems, Forgotten
    <3> QED BY <3>1, <3>3
  <2> QED BY <2>1, <2>2
<1>7. tokens' \in Seq(Token) /\ Grown
  BY <1>1, Unchanged DEF AccountsTypeOK
<1>8. /\ AccountsTypeOK'
      /\ \A n \in Mail : HasToken(n)' /\ HasLink(n)'
      /\ \A q \in Redeemer : Redeems(q)'
      /\ TokensAreMailed'
  BY <1>1, <1>6, <1>7, RedeemMoves DEF AccountsTypeOK
<1>9. \A q \in Redeemer : redeem[q].pc \in {"used", "failed"} => redeem'[q] = redeem[q]
  BY <1>2, <1>6 DEF AccountsTypeOK
<1>10. BurntTokensAreExplained'
  BY <1>1, <1>9 DEF BurntTokensAreExplained
<1> QED BY <1>8, <1>10 DEF RequestInv

\* Use keeps the invariant.
LEMMA UseStays ==
  ASSUME AccountsInv, NEW r \in Redeemer, Use(r)
  PROVE  RequestInv'
<1> USE DEF AccountsInv
<1>1. UNCHANGED <<queueVars, config, accounts, context, mailing, faults>>
  BY DEF Use
<1>2. redeem[r] \in Redeem /\ redeem[r].pc = "valid"
  BY DEF Use, AccountsTypeOK
<1> DEFINE t == redeem[r].token
           new == [redeem[r] EXCEPT !.pc = "used"]
<1>3. t \in 1 .. Len(tokens) /\ t \in MailedLinks /\ ~redeem[r].success /\ ~redeem[r].late
      /\ tokens[t].kind = redeem[r].kind
  BY <1>2 DEF Redeems
<1>4. redeem' = [redeem EXCEPT ![r] = new] /\ tokens' = [tokens EXCEPT ![t].used = TRUE]
  BY DEF Use
<1>5. /\ new \in Redeem /\ new.pc = "used" /\ new.token = t /\ new.kind = redeem[r].kind
      /\ new.late = redeem[r].late /\ new.success = redeem[r].success
  BY <1>2 DEF Redeem
<1> HIDE DEF new, t
<1>6. /\ tokens' \in Seq(Token) /\ Grown /\ Len(tokens') = Len(tokens)
      /\ \A u \in 1 .. Len(tokens) : u # t => tokens'[u] = tokens[u]
  BY <1>3, <1>4, MarkedUsed DEF AccountsTypeOK
<1>7. redeem'[r] = new /\ \A q \in Redeemer : q # r => redeem'[q] = redeem[q]
  BY <1>4 DEF AccountsTypeOK
<1>8. MailedLinks' = MailedLinks
  BY <1>1 DEF MailedLinks, Received, queueVars
<1>9. Redeems(r)'
  BY <1>3, <1>5, <1>6, <1>7, <1>8 DEF Redeems, Grown
<1>10. /\ AccountsTypeOK'
       /\ \A n \in Mail : HasToken(n)' /\ HasLink(n)'
       /\ \A q \in Redeemer : Redeems(q)'
       /\ TokensAreMailed'
  BY <1>1, <1>4, <1>5, <1>6, <1>9, RedeemMoves DEF AccountsTypeOK
<1>11. BurntTokensAreExplained'
  <2> SUFFICES ASSUME NEW u \in 1 .. Len(tokens'), tokens'[u].used
               PROVE  LET a == accounts'[tokens'[u].account] IN
                      \/ IF tokens'[u].kind = "email" THEN a.verified ELSE a.password # Null
                      \/ \E q \in Redeemer : redeem'[q].token = u /\ redeem'[q].pc \in {"used", "failed"}
    BY DEF BurntTokensAreExplained
  <2>1. CASE u = t
    BY <1>5, <1>7, <2>1
  <2>2. CASE u # t
    <3>1. tokens'[u] = tokens[u] /\ u \in 1 .. Len(tokens)
      BY <1>6, <2>2
    <3>2. \A q \in Redeemer : redeem[q].pc \in {"used", "failed"} => redeem'[q] = redeem[q]
      BY <1>2, <1>7
    <3> QED BY <1>1, <3>1, <3>2 DEF BurntTokensAreExplained
  <2> QED BY <2>1, <2>2
<1> QED BY <1>10, <1>11 DEF RequestInv

\* Apply keeps the invariant.
LEMMA ApplyStays ==
  ASSUME AccountsInv, NEW r \in Redeemer, Apply(r)
  PROVE  RequestInv'
<1> USE DEF AccountsInv
<1>1. UNCHANGED <<queueVars, config, tokens, context, mailing, faults>>
  BY DEF Apply
<1>2. redeem[r] \in Redeem /\ redeem[r].pc = "used"
  BY DEF Apply, AccountsTypeOK
<1> DEFINE t == redeem[r].token
           a == tokens[t].account
           row == IF redeem[r].kind = "email" THEN [accounts[a] EXCEPT !.verified = TRUE]
                                              ELSE [accounts[a] EXCEPT !.password = r]
           new == [redeem[r] EXCEPT !.pc = "replied", !.success = TRUE]
<1>3. /\ t \in 1 .. Len(tokens) /\ t \in MailedLinks /\ ~redeem[r].late
      /\ tokens[t].kind = redeem[r].kind
  BY <1>2 DEF Redeems
<1>4. a \in Account /\ accounts[a] \in AccountRow
  BY <1>2, TokenOfRedeem DEF Token, AccountsTypeOK
<1>5. redeem' = [redeem EXCEPT ![r] = new] /\ accounts' = [accounts EXCEPT ![a] = row]
  BY DEF Apply
<1>6. /\ new \in Redeem /\ new.pc = "replied" /\ new.token = t /\ new.kind = redeem[r].kind
      /\ new.late = redeem[r].late /\ new.success
  BY <1>2 DEF Redeem
<1>7. /\ row \in AccountRow
      /\ accounts[a].verified => row.verified
      /\ accounts[a].password # Null => row.password # Null
      /\ IF redeem[r].kind = "email" THEN row.verified ELSE row.password # Null
  <2>1. r # Null
    BY AccountsAssumption
  <2> QED BY <1>4, <2>1 DEF AccountRow
<1> HIDE DEF new, row, a, t
<1>8. redeem'[r] = new /\ \A q \in Redeemer : q # r => redeem'[q] = redeem[q]
  BY <1>5 DEF AccountsTypeOK
<1>9. /\ accounts' \in [Account -> AccountRow] /\ accounts'[a] = row
      /\ \A b \in Account : b # a => accounts'[b] = accounts[b]
  <2>1. accounts \in [Account -> AccountRow]
    BY DEF AccountsTypeOK
  <2>2. row \in AccountRow
    BY <1>7
  <2> QED BY <1>4, <1>5, <2>1, <2>2
<1>10. MailedLinks' = MailedLinks
  BY <1>1 DEF MailedLinks, Received, queueVars
<1>11. Redeems(r)'
  BY <1>1, <1>3, <1>6, <1>8, <1>10 DEF Redeems
<1>12. tokens' \in Seq(Token) /\ Grown
  BY <1>1, Unchanged DEF AccountsTypeOK
<1>13. /\ AccountsTypeOK'
       /\ \A n \in Mail : HasToken(n)' /\ HasLink(n)'
       /\ \A q \in Redeemer : Redeems(q)'
       /\ TokensAreMailed'
  BY <1>1, <1>5, <1>6, <1>9, <1>11, <1>12, RedeemMoves DEF AccountsTypeOK
<1>14. BurntTokensAreExplained'
  <2> SUFFICES ASSUME NEW u \in 1 .. Len(tokens'), tokens'[u].used
               PROVE  LET b == accounts'[tokens'[u].account] IN
                      \/ IF tokens'[u].kind = "email" THEN b.verified ELSE b.password # Null
                      \/ \E q \in Redeemer : redeem'[q].token = u /\ redeem'[q].pc \in {"used", "failed"}
    BY DEF BurntTokensAreExplained
  <2>1. CASE u = t
    <3>1. tokens'[u].account = a /\ tokens'[u].kind = redeem[r].kind
      BY <1>1, <1>3, <2>1 DEF a
    <3> QED BY <1>7, <1>9, <3>1
  <2>2. CASE u # t
    <3>1. u \in 1 .. Len(tokens) /\ tokens[u].used /\ tokens' = tokens
      BY <1>1
    <3>2. tokens[u].account \in Account
      <4>1. tokens[u] \in Token
        BY <3>1, ElementOfSeq DEF AccountsTypeOK
      <4> QED BY <4>1 DEF Token
    <3>3. CASE \E q \in Redeemer : redeem[q].token = u /\ redeem[q].pc \in {"used", "failed"}
      <4>1. PICK q \in Redeemer : redeem[q].token = u /\ redeem[q].pc \in {"used", "failed"}
        BY <3>3
      <4>2. q # r
        BY <2>2, <4>1 DEF t
      <4> QED BY <1>8, <4>1, <4>2
    <3>4. CASE IF tokens[u].kind = "email" THEN accounts[tokens[u].account].verified
                                           ELSE accounts[tokens[u].account].password # Null
      BY <1>7, <1>9, <3>1, <3>2, <3>4
    <3> QED BY <3>1, <3>3, <3>4 DEF BurntTokensAreExplained
  <2> QED BY <2>1, <2>2
<1> QED BY <1>13, <1>14 DEF RequestInv

\* ApplyFails keeps the invariant.
LEMMA ApplyFailsStays ==
  ASSUME AccountsInv, NEW r \in Redeemer, ApplyFails(r)
  PROVE  RequestInv'
<1> USE DEF AccountsInv
<1>1. UNCHANGED <<queueVars, config, accounts, tokens, context, mailing>> /\ faults' \in Nat
  BY DEF ApplyFails, Fault, AccountsTypeOK
<1>2. redeem[r] \in Redeem /\ redeem[r].pc = "used"
  BY DEF ApplyFails, AccountsTypeOK
<1> DEFINE new == [redeem[r] EXCEPT !.pc = "failed"]
<1>3. redeem' = [redeem EXCEPT ![r] = new]
  BY DEF ApplyFails
<1>4. /\ new \in Redeem /\ new.pc = "failed" /\ new.token = redeem[r].token
      /\ new.kind = redeem[r].kind /\ new.late = redeem[r].late /\ new.success = redeem[r].success
  BY <1>2 DEF Redeem
<1> HIDE DEF new
<1>5. redeem'[r] = new /\ \A q \in Redeemer : q # r => redeem'[q] = redeem[q]
  BY <1>3 DEF AccountsTypeOK
<1>6. MailedLinks' = MailedLinks
  BY <1>1 DEF MailedLinks, Received, queueVars
<1>7. /\ redeem[r].token \in 1 .. Len(tokens) /\ redeem[r].token \in MailedLinks
      /\ ~redeem[r].success /\ ~redeem[r].late
  BY <1>2 DEF Redeems
<1>8. Redeems(r)'
  BY <1>1, <1>4, <1>5, <1>6, <1>7 DEF Redeems
<1>9. tokens' \in Seq(Token) /\ Grown
  BY <1>1, Unchanged DEF AccountsTypeOK
<1>10. /\ AccountsTypeOK'
       /\ \A n \in Mail : HasToken(n)' /\ HasLink(n)'
       /\ \A q \in Redeemer : Redeems(q)'
       /\ TokensAreMailed'
  BY <1>1, <1>3, <1>4, <1>8, <1>9, RedeemMoves DEF AccountsTypeOK
<1>11. \A q \in Redeemer : redeem[q].pc \in {"used", "failed"} =>
         redeem'[q].token = redeem[q].token /\ redeem'[q].pc \in {"used", "failed"}
  BY <1>4, <1>5
<1>12. BurntTokensAreExplained'
  BY <1>1, <1>11 DEF BurntTokensAreExplained
<1> QED BY <1>10, <1>12 DEF RequestInv

\* Crash keeps the invariant.
LEMMA CrashStays ==
  ASSUME AccountsInv, QueueTypeOK', Crash
  PROVE  RequestInv'
<1> USE DEF AccountsInv
<1>1. UNCHANGED <<config, accounts, tokens>> /\ faults' \in Nat /\ context' \in [Kind -> Nat]
  BY DEF Crash, Fault, AccountsTypeOK
<1>2. QueueGrows
  BY StallGrows DEF Crash
<1>3. tokens' \in Seq(Token) /\ Grown
  BY <1>1, Unchanged DEF AccountsTypeOK
\* Of a request only its pc is lost.
<1>4. ASSUME NEW m \in Mail
      PROVE  /\ mailing'[m] \in Mailing /\ mailing'[m].kind = mailing[m].kind
             /\ mailing'[m].account = mailing[m].account /\ mailing'[m].token = mailing[m].token
             /\ mailing'[m].link = mailing[m].link /\ mailing'[m].direct = mailing[m].direct
             /\ mailing'[m].pc = IF InFlight(mailing[m].pc) THEN "failed" ELSE mailing[m].pc
  <2>1. mailing[m] \in Mailing /\ mailing'[m] = Lose(mailing[m])
    BY DEF Crash, AccountsTypeOK
  <2>2. CASE InFlight(mailing[m].pc)
    <3>1. mailing'[m] = [mailing[m] EXCEPT !.pc = "failed"]
      BY <2>1, <2>2 DEF Lose
    <3> QED BY <2>1, <2>2, <3>1 DEF Mailing
  <2>3. CASE ~InFlight(mailing[m].pc)
    BY <2>1, <2>3 DEF Lose
  <2> QED BY <2>2, <2>3
<1>5. ASSUME NEW r \in Redeemer
      PROVE  /\ redeem'[r] \in Redeem /\ redeem'[r].kind = redeem[r].kind
             /\ redeem'[r].token = redeem[r].token
             /\ redeem'[r].late = redeem[r].late /\ redeem'[r].success = redeem[r].success
             /\ redeem'[r].pc = IF InFlight(redeem[r].pc) THEN "failed" ELSE redeem[r].pc
  <2>1. redeem[r] \in Redeem /\ redeem'[r] = Lose(redeem[r])
    BY DEF Crash, AccountsTypeOK
  <2>2. CASE InFlight(redeem[r].pc)
    <3>1. redeem'[r] = [redeem[r] EXCEPT !.pc = "failed"]
      BY <2>1, <2>2 DEF Lose
    <3> QED BY <2>1, <2>2, <3>1 DEF Redeem
  <2>3. CASE ~InFlight(redeem[r].pc)
    BY <2>1, <2>3 DEF Lose
  <2> QED BY <2>2, <2>3
<1>6. AccountsTypeOK'
  <2>1. mailing' \in [Mail -> Mailing]
    BY <1>4 DEF Crash
  <2>2. redeem' \in [Redeemer -> Redeem]
    BY <1>5 DEF Crash
  <2>3. \A m \in Mail : mailing'[m].pc # "idle" => mailing'[m].account \in Account
    BY <1>4 DEF AccountsTypeOK, InFlight
  <2> QED BY <1>1, <1>3, <2>1, <2>2, <2>3 DEF AccountsTypeOK
<1>7. ASSUME NEW m \in Mail PROVE HasToken(m)' /\ HasLink(m)'
  <2>0. mailing[m].pc \in {"idle", "creating", "created", "replied", "failed"}
    BY DEF AccountsTypeOK, Mailing
  <2>1. HasToken(m)'
    BY <1>1, <1>4, <2>0 DEF HasToken, InFlight
  <2>2. jobs'[m].state = "none" <=> jobs[m].state = "none"
    BY <1>2 DEF QueueGrows
  <2>3. HasLink(m)'
    BY <1>1, <1>4, <2>0, <2>2 DEF HasLink, InFlight
  <2> QED BY <2>1, <2>3
<1>8. MailedLinks \subseteq MailedLinks'
  <2>1. \A m \in Mail : Received(m) => Received(m)' /\ mailing'[m].link = mailing[m].link
    BY <1>2, <1>4 DEF Received, QueueGrows
  <2> QED BY <2>1, LinksStay
<1>9. ASSUME NEW r \in Redeemer PROVE Redeems(r)'
  <2>1. redeem[r] \in Redeem /\ Redeems(r)
    BY DEF AccountsTypeOK
  <2> QED BY <1>1, <1>5, <1>8, <2>1 DEF Redeems, InFlight, Redeem
<1>10. BurntTokensAreExplained'
  <2>1. \A r \in Redeemer : redeem[r].pc \in {"used", "failed"} =>
          redeem'[r].token = redeem[r].token /\ redeem'[r].pc \in {"used", "failed"}
    BY <1>5 DEF InFlight
  <2> QED BY <1>1, <2>1 DEF BurntTokensAreExplained
<1>11. TokensAreMailed'
  <2> SUFFICES ASSUME NEW t \in 1 .. Len(tokens')
               PROVE  \E m \in Mail :
                        /\ mailing'[m].token = t
                        /\ \/ mailing'[m].pc \notin {"idle", "creating", "replied"}
                           \/ mailing'[m].pc = "replied" /\ (mailing'[m].link = t \/ config'.shared)
    BY DEF TokensAreMailed
  <2>1. PICK m \in Mail :
          /\ mailing[m].token = t
          /\ \/ mailing[m].pc \notin {"idle", "creating", "replied"}
             \/ mailing[m].pc = "replied" /\ (mailing[m].link = t \/ config.shared)
    BY <1>1 DEF TokensAreMailed
  <2> QED BY <1>1, <1>4, <2>1 DEF InFlight
<1> QED BY <1>6, <1>7, <1>9, <1>10, <1>11 DEF RequestInv

\* Every step keeps the invariant.
LEMMA AccountsStep == AccountsInv /\ [AccountsNext]_accountVars => AccountsInv'
<1> SUFFICES ASSUME AccountsInv, [AccountsNext]_accountVars PROVE AccountsInv'
  OBVIOUS
<1>1. QueueInv' /\ QueueTypeOK'
  BY QueueSteps, QueueStays DEF AccountsInv, QueueInv
<1>2. ASSUME NEW m \in Mail, NEW a \in Account,
             Register(m, a) \/ \E kind \in Kind : SendToken(m, kind, a)
      PROVE  RequestInv'
  BY <1>2, BeginStays
<1>3. ASSUME NEW m \in Mail, MailStep(m) PROVE RequestInv'
  BY <1>1, <1>3, MailFailureStays, CreateStays, SendStays DEF MailStep
<1>4. ASSUME NEW m \in Mail, QueueStep(m) PROVE RequestInv'
  <2>1. QueueGrows
    BY <1>1, <1>4, WorkGrows DEF AccountsInv
  <2>2. /\ UNCHANGED <<config, accounts, tokens, context, mailing, redeem>> /\ faults' \in Nat
    BY <1>4 DEF QueueStep, Fault, AccountsInv, AccountsTypeOK
  <2> QED BY <1>1, <2>1, <2>2, QueueStepStays
<1>5. ASSUME NEW r \in Redeemer, RedeemStep(r) PROVE RequestInv'
  BY <1>5, FindStays, UseStays, ApplyStays, ApplyFailsStays DEF RedeemStep
<1>6. ASSUME NEW r \in Redeemer, NEW kind \in Kind, NEW t \in 1 .. Len(tokens), Follow(r, kind, t)
      PROVE  RequestInv'
  BY <1>6, FollowStays
<1>7. ASSUME Crash PROVE RequestInv'
  BY <1>1, <1>7, CrashStays
<1>8. ASSUME UNCHANGED accountVars PROVE RequestInv'
  <2>1. UNCHANGED <<jobs, sent, config, accounts, tokens, context, mailing, redeem>> /\ faults' \in Nat
    BY <1>8 DEF accountVars, AccountsInv, AccountsTypeOK
  <2>2. QueueGrows
    BY <2>1 DEF QueueGrows
  <2> QED BY <1>1, <2>1, <2>2, QueueStepStays
<1>9. RequestInv'
  BY <1>2, <1>3, <1>4, <1>5, <1>6, <1>7, <1>8 DEF AccountsNext
<1> QED BY <1>1, <1>9 DEF AccountsInv, RequestInv

\* The invariant holds in every reachable state.
LEMMA AccountsAlways == AccountsSpec => []AccountsInv
  BY AccountsStart, AccountsStep, PTL DEF AccountsSpec

(***************************************************************************)
(* What follows                                                            *)
(***************************************************************************)

\* The state has its types, whatever fails and however many requests there are.
THEOREM AccountsTypeCorrect == AccountsSpec => []AccountsTypeOK
<1>1. AccountsInv => AccountsTypeOK
  BY DEF AccountsInv
<1> QED BY <1>1, AccountsAlways, PTL

\* A request that comes when its token is used changes nothing, although
\* findAndValidateToken reads usedAt and writes it in different steps
\* (verification.service.ts:80, 89).
THEOREM LateRequestsAlwaysFail == AccountsSpec => []LateRequestsFail
<1>1. AccountsInv => LateRequestsFail
  BY DEF AccountsInv, Redeems, LateRequestsFail
<1> QED BY <1>1, AccountsAlways, PTL

\* Without a shared template an account changes only by a link that was mailed to it for
\* that purpose (account.service.ts:177, 245).
THEOREM ChangesAlwaysComeFromOwnMail == AccountsSpec => []ChangesComeFromOwnMail
<1>1. ASSUME AccountsInv, NEW r \in Redeemer, redeem[r].success, ~config.shared
      PROVE  \E m \in Mail :
               /\ Received(m) /\ mailing[m].link = redeem[r].token
               /\ mailing[m].kind = redeem[r].kind
               /\ mailing[m].account = tokens[redeem[r].token].account
  <2>1. /\ redeem[r].token \in 1 .. Len(tokens) /\ redeem[r].token \in MailedLinks
        /\ tokens[redeem[r].token].kind = redeem[r].kind
    BY <1>1 DEF AccountsInv, Redeems
  <2>2. PICK m \in Mail : Received(m) /\ mailing[m].link = redeem[r].token
    BY <2>1 DEF MailedLinks
  <2>3. mailing[m].link # 0 /\ mailing[m].token = mailing[m].link
    BY <1>1, <2>1, <2>2 DEF AccountsInv, HasLink
  <2>4. /\ tokens[mailing[m].token].kind = mailing[m].kind
        /\ tokens[mailing[m].token].account = mailing[m].account
    BY <1>1, <2>3 DEF AccountsInv, HasToken
  <2> QED BY <2>1, <2>2, <2>3, <2>4
<1>2. AccountsInv => ChangesComeFromOwnMail
  BY <1>1 DEF ChangesComeFromOwnMail
<1> QED BY <1>2, AccountsAlways, PTL

\* A used token whose account is as it was has a request that is about to update it, or
\* failed (account.service.ts:177, 184).
THEOREM BurntTokensAreAlwaysExplained == AccountsSpec => []BurntTokensAreExplained
<1>1. AccountsInv => BurntTokensAreExplained
  BY DEF AccountsInv
<1> QED BY <1>1, AccountsAlways, PTL

\* A token that no mail carries was created on the last try, or its request failed or is
\* in flight, or the shared template has another link (verification.service.ts:54).
THEOREM TokensAreAlwaysMailed == AccountsSpec => []TokensAreMailed
<1>1. AccountsInv => TokensAreMailed
  BY DEF AccountsInv
<1> QED BY <1>1, AccountsAlways, PTL
=============================================================================
