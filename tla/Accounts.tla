------------------------------ MODULE Accounts ------------------------------
(***************************************************************************)
(* The accounts of the event server: user_database.c, the user files of    *)
(* file_system.c, and the handlers of LIN, LOU, UNR (udp_handlers.c) and   *)
(* CPS (tcp_handlers.c).                                                   *)
(*                                                                         *)
(* An account is three things on the disk: the directory USERS/uid, the    *)
(* file uid_pass.txt and the file uid_login.txt.  They come and go apart:  *)
(* UNR erases the two files and leaves the directory, and a user whose     *)
(* password file is gone is unregistered although the directory is there.  *)
(*                                                                         *)
(* The process serves one request at a time and every handler runs to its  *)
(* end before the next is read (ES.c), so a handler is one action.  Every  *)
(* file operation is taken to succeed.                                     *)
(***************************************************************************)
EXTENDS Protocol

CONSTANT Passwords

ASSUME PasswordsAssumption == NoFile \notin Passwords

VARIABLES
    userDir,    \* the UIDs whose directory USERS/uid exists
    password,   \* uid_pass.txt of each UID, or NoFile
    loggedIn    \* the UIDs whose uid_login.txt exists

accountFiles == <<userDir, password, loggedIn>>

Registered == {u \in Users : password[u] # NoFile}

AccountsInit ==
    /\ userDir = {}
    /\ password = [u \in Users |-> NoFile]
    /\ loggedIn = {}

-----------------------------------------------------------------------------
(* user_database.c *)

\* 1 for the right password, -1 for a wrong one, 0 when there is no password
\* file to compare with: the caller cannot tell "never existed" from "left".
AuthenticateUser(u, p) ==
    IF password[u] = NoFile THEN 0 ELSE IF password[u] = p THEN 1 ELSE -1

\* The directory is made only when it is missing: a user who comes back finds
\* the CREATED and RESERVED entries of the earlier account.
RegisterUser(u, p) ==
    /\ userDir' = userDir \cup {u}
    /\ password' = [password EXCEPT ![u] = p]

LoginUser(u) == loggedIn' = loggedIn \cup {u}

LogoutUser(u) == loggedIn' = loggedIn \ {u}

\* Slip: the user's entry goes, instead of being marked as without a file.
UnregisterUser_dropsEntry(u) ==
    /\ password' = [v \in Users \ {u} |-> password[v]]
    /\ LogoutUser(u)
    /\ UNCHANGED userDir

\* Slip: the login file outlives the account.
UnregisterUser_keepsLogin(u) ==
    /\ password' = [password EXCEPT ![u] = NoFile]
    /\ UNCHANGED <<userDir, loggedIn>>

\* handle_unregister calls logout_user first and unregister_user erases the
\* login file again; together they leave neither file.
UnregisterUser(u) ==
    /\ password' = [password EXCEPT ![u] = NoFile]
    /\ LogoutUser(u)
    /\ UNCHANGED userDir

-----------------------------------------------------------------------------
(* The handlers *)

\* LIN: log in, or register and log in when there is no password file.
HandleLogin(u, p) ==
    \/ /\ AuthenticateUser(u, p) = 1
       /\ LoginUser(u)
       /\ UNCHANGED <<userDir, password>>
       /\ AnswerStatus("RLI", u, 0, "OK")
    \/ /\ AuthenticateUser(u, p) = 0
       /\ RegisterUser(u, p)
       /\ LoginUser(u)
       /\ AnswerStatus("RLI", u, 0, "REG")
    \/ /\ AuthenticateUser(u, p) = -1
       /\ UNCHANGED accountFiles
       /\ AnswerStatus("RLI", u, 0, "NOK")

\* The answer of LOU and UNR to a request they do not carry out.
LeaveRefusal(u, p) ==
    CASE AuthenticateUser(u, p) = 0  -> "UNR"
      [] AuthenticateUser(u, p) = -1 -> "WRP"
      [] OTHER                       -> "NOK"

MayLeave(u, p) == AuthenticateUser(u, p) = 1 /\ u \in loggedIn

HandleLogout(u, p) ==
    \/ /\ MayLeave(u, p)
       /\ LogoutUser(u)
       /\ UNCHANGED <<userDir, password>>
       /\ AnswerStatus("RLO", u, 0, "OK")
    \/ /\ ~MayLeave(u, p)
       /\ UNCHANGED accountFiles
       /\ AnswerStatus("RLO", u, 0, LeaveRefusal(u, p))

HandleUnregister(u, p) ==
    \/ /\ MayLeave(u, p)
       /\ UnregisterUser(u)
       /\ AnswerStatus("RUR", u, 0, "OK")
    \/ /\ ~MayLeave(u, p)
       /\ UNCHANGED accountFiles
       /\ AnswerStatus("RUR", u, 0, LeaveRefusal(u, p))

\* Slip: the session is not looked at before the new password is written.
MayChangePassword_noSession(u, old) == AuthenticateUser(u, old) = 1

MayChangePassword(u, old) == AuthenticateUser(u, old) = 1 /\ u \in loggedIn

HandleChangePassword(u, old, new) ==
    \/ /\ MayChangePassword(u, old)
       /\ password' = [password EXCEPT ![u] = new]
       /\ UNCHANGED <<userDir, loggedIn>>
       /\ AnswerStatus("RCP", u, 0, "OK")
    \/ /\ ~MayChangePassword(u, old)
       /\ UNCHANGED accountFiles
       /\ AnswerStatus("RCP", u, 0,
            CASE AuthenticateUser(u, old) = 0  -> "NID"
              [] AuthenticateUser(u, old) = -1 -> "NOK"
              [] OTHER                         -> "NLG")

MalformedAccountRequest(rsp) ==
    /\ AnswerMalformed(rsp)
    /\ UNCHANGED accountFiles

AccountsNext ==
    \/ \E u \in Users, p \in Passwords :
          \/ HandleLogin(u, p)
          \/ HandleLogout(u, p)
          \/ HandleUnregister(u, p)
          \/ \E new \in Passwords : HandleChangePassword(u, p, new)
    \/ \E rsp \in {"RLI", "RLO", "RUR", "RCP"} : MalformedAccountRequest(rsp)

accountVars == <<accountFiles, reply>>

AccountsAlone == AccountsInit /\ reply = NoReply

AccountsSpec == AccountsAlone /\ [][AccountsNext]_accountVars

-----------------------------------------------------------------------------
(* Properties *)

\* The account files hold what the code writes into them.
AccountsTypeOK ==
    /\ userDir \subseteq Users
    /\ password \in [Users -> Passwords \cup {NoFile}]
    /\ loggedIn \subseteq Users

\* A login file never outlives its account: whoever is logged in has a password
\* file, and whoever has one has a directory to hold it.  RID, LME and the other
\* handlers test the login file and the password file apart and rely on this.
SessionsRegistered ==
    /\ loggedIn \subseteq Registered
    /\ Registered \subseteq userDir

\* A password file changes or disappears only during an open session of that
\* same user, and appears only together with a session: no order of LIN, LOU,
\* UNR and CPS of several users lets one of them touch another's credentials or
\* a closed session's.
CredentialsChangeInSession ==
    [][\A u \in Users :
         password'[u] # password[u] =>
            /\ reply'.uid = u
            /\ IF password[u] = NoFile THEN u \in loggedIn' ELSE u \in loggedIn]_accountVars
=============================================================================
