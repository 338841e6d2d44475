---------------------------- MODULE MailDelivery ----------------------------
(***************************************************************************)
(* What MailService promises of a mail it accepted                         *)
(* (src/lib/mail/mail.service.ts): it hands the mail to the adapter, more  *)
(* than once only within a limit, sooner or later is done with it, and     *)
(* counts it as delivered only if the adapter has sent it.                 *)
(***************************************************************************)
EXTENDS Naturals

CONSTANTS
  Mail,   \* mails that may be accepted
  Limit   \* how often the recipient may get the same mail

VARIABLES
  status,  \* status[m]: "none", "accepted", "delivered" or "given up"
  sent     \* how often the adapter sent the mail

vars == <<status, sent>>

Accept(m) ==
  /\ status[m] = "none"
  /\ status' = [status EXCEPT ![m] = "accepted"]
  /\ UNCHANGED sent

Send(m) ==
  /\ status[m] = "accepted" /\ sent[m] < Limit
  /\ sent' = [sent EXCEPT ![m] = @ + 1]
  /\ UNCHANGED status

Deliver(m) ==
  /\ status[m] = "accepted" /\ sent[m] > 0
  /\ status' = [status EXCEPT ![m] = "delivered"]
  /\ UNCHANGED sent

GiveUp(m) ==
  /\ status[m] = "accepted"
  /\ status' = [status EXCEPT ![m] = "given up"]
  /\ UNCHANGED sent

Settle(m) == Deliver(m) \/ GiveUp(m)

Init ==
  /\ status = [m \in Mail |-> "none"]
  /\ sent = [m \in Mail |-> 0]

Next == \E m \in Mail : Accept(m) \/ Send(m) \/ Settle(m)

Spec == Init /\ [][Next]_vars /\ \A m \in Mail : WF_vars(Settle(m))
=============================================================================
