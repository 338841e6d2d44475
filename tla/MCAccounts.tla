----------------------------- MODULE MCAccounts -----------------------------
(* Accounts for TLC: two mails, to one or two accounts, and two redeemers. *)
EXTENDS Accounts
=============================================================================
