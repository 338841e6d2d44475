--------------------------- MODULE Authentication ---------------------------
(* How users come to the application, and how long their sessions last: the *)
(* logins of an account (Logins), or the sessions of one (Sessions).        *)
EXTENDS Sessions, Logins

authenticationVars == <<vars, loginsVars>>

AuthenticationInit == Init /\ LoginsInit

LastSession == setup = "none" /\ Next /\ UNCHANGED loginsVars

\* The library makes no difference to the logins, so that one of them is enough.
LogIn ==
  /\ orm = "mongoose" /\ now = 1 /\ \A r \in Request : request[r].pc = "idle"
  /\ LoginNext
  /\ UNCHANGED vars

AuthenticationSpec == AuthenticationInit /\ [][LastSession \/ LogIn]_authenticationVars
=============================================================================
