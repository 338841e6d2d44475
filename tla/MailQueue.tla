----------------------------- MODULE MailQueue ------------------------------
(***************************************************************************)
(* The mail queue: MailJob (src/lib/mail/mail.job.ts) processes what       *)
(* sendToQueue of MailService (src/lib/mail/mail.service.ts) adds to a     *)
(* Bull queue with the job options of QueueModule                          *)
(* (src/lib/queue/queue.module.ts).                                        *)
(*                                                                         *)
(* Bull and the mail server are external.  Bull runs a job again, after a  *)
(* delay, when its handler throws, until it has failed attempts times; and *)
(* when its worker died, until that happened more than maxStalledCount     *)
(* times.  The adapter sends the mail; or answers false; or throws, as the *)
(* compilation of the content may too.                                     *)
(***************************************************************************)
EXTENDS Naturals

CONSTANTS
  Mail,       \* mails that may be added, one job each
  Attempts,   \* attempts of the job options
  MaxStalls   \* maxStalledCount of Bull

ASSUME QueueAssumption == Attempts \in Nat \ {0} /\ MaxStalls \in Nat

VARIABLES
  jobs,  \* the job of each mail: its state, with none before there is one and answered once its
         \* handler has returned the result, and how often it failed and stalled
  sent   \* how often the adapter sent it

queueVars == <<jobs, sent>>

Move(m, job) == jobs' = [jobs EXCEPT ![m] = job]

\* removeOnComplete, removeOnFail: nothing is left of a job but how it ended.
Removed(job, state) == [job EXCEPT !.state = state, !.failures = 0, !.stalls = 0]

\* sendToQueue
Add(m) ==
  /\ jobs[m].state = "none"
  /\ Move(m, [jobs[m] EXCEPT !.state = "waiting"])
  /\ UNCHANGED sent

InWork == {m \in Mail : jobs[m].state \in {"active", "answered"}}

\* The worker takes the job; it handles one at a time.
Start(m) ==
  /\ jobs[m].state = "waiting" /\ InWork = {}
  /\ Move(m, [jobs[m] EXCEPT !.state = "active"])
  /\ UNCHANGED sent

\* sendDirect returns, with true or false: process returns it and does not throw.
Answer(m) ==
  /\ jobs[m].state = "active"
  /\ \E result \in BOOLEAN :
       /\ Move(m, [jobs[m] EXCEPT !.state = "answered", !.result = result])
       /\ sent' = IF result THEN [sent EXCEPT ![m] = @ + 1] ELSE sent

\* Whatever the answer, the job is complete.
Complete(m) ==
  /\ jobs[m].state = "answered"
  /\ Move(m, Removed(jobs[m], "completed"))
  /\ UNCHANGED sent

\* sendDirect throws: Bull delays the job by the backoff, or gives up.
Throw(m) ==
  LET failures == jobs[m].failures + 1 IN
  /\ jobs[m].state = "active"
  /\ Move(m, IF failures < Attempts
             THEN [jobs[m] EXCEPT !.failures = failures, !.state = "delayed"]
             ELSE Removed(jobs[m], "failed"))
  /\ UNCHANGED sent

Retry(m) ==
  /\ jobs[m].state = "delayed"
  /\ Move(m, [jobs[m] EXCEPT !.state = "waiting"])
  /\ UNCHANGED sent

\* Mutant: a job that stalls is always run again.
StalledForgotten(job) == [job EXCEPT !.state = "waiting", !.result = FALSE]

\* The worker died with the job, before or after the mail was sent: Bull finds its lock
\* expired.
Stalled(job) ==
  IF job.stalls < MaxStalls
  THEN [job EXCEPT !.state = "waiting", !.stalls = @ + 1, !.result = FALSE]
  ELSE [Removed(job, "failed") EXCEPT !.result = FALSE]

Stall ==
  /\ jobs' = [m \in Mail |->
               IF m \in InWork THEN Stalled(jobs[m]) ELSE jobs[m]]
  /\ UNCHANGED sent

QueueInit ==
  /\ jobs = [m \in Mail |->
              [state |-> "none", failures |-> 0, stalls |-> 0, result |-> FALSE]]
  /\ sent = [m \in Mail |-> 0]

\* What the workers and the timers of Bull do with the job of m, as long as nothing throws
Work(m) == Start(m) \/ Answer(m) \/ Complete(m) \/ Retry(m)

-----------------------------------------------------------------------------
\* The mail goes out once, and once more for each worker that died with it; and a job that
\* completes with the answer true has sent it.  What the adapter answers false no retry makes
\* up for (mail.service.ts:77, mail.job.ts:22, and the retries of queue.module.ts).
Delivery == INSTANCE MailDelivery
  WITH Limit <- MaxStalls + 1,
       status <- [m \in Mail |->
                    CASE jobs[m].state = "none" -> "none"
                      [] jobs[m].state \in {"completed", "failed"} ->
                           IF jobs[m].result THEN "delivered" ELSE "given up"
                      [] OTHER -> "accepted"]

DeliversMail == Delivery!Spec
=============================================================================
