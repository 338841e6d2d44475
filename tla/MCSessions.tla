----------------------------- MODULE MCSessions -----------------------------
(* Authentication for TLC: three requests beside the session the user starts *)
(* with, or two logins.                                                      *)
EXTENDS Authentication
=============================================================================
