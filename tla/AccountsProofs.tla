--------------------------- MODULE AccountsProofs ---------------------------
(***************************************************************************)
(* Proofs about Accounts, for any users and any passwords.  The inductive  *)
(* invariant is the type invariant with SessionsRegistered: the answers of *)
(* the handlers depend on the password file and the login file together.   *)
(***************************************************************************)
EXTENDS Accounts, TLAPS

AccountsInv == AccountsTypeOK /\ SessionsRegistered

\* The three answers of authenticate_user and what each says of the files.
LEMMA Authentication ==
    ASSUME NEW u \in Users, NEW p \in Passwords, AccountsTypeOK
    PROVE  /\ AuthenticateUser(u, p) = 1 <=> password[u] = p
           /\ AuthenticateUser(u, p) = 0 <=> u \notin Registered
           /\ AuthenticateUser(u, p) = 1 => u \in Registered
BY PasswordsAssumption DEF AuthenticateUser, Registered, AccountsTypeOK

LEMMA AccountsInitInv == AccountsInit => AccountsInv
BY DEF AccountsInit, AccountsInv, AccountsTypeOK, SessionsRegistered, Registered

\* Every account request keeps the invariant.  ESServer's steps are made of
\* these, so the lemma is about AccountsNext and not about AccountsSpec.
LEMMA AccountsStep == AccountsInv /\ [AccountsNext]_accountFiles => AccountsInv'
<1> SUFFICES ASSUME AccountsInv, [AccountsNext]_accountFiles
             PROVE  AccountsInv'
    OBVIOUS
<1> USE PasswordsAssumption DEF AccountsInv, AccountsTypeOK, SessionsRegistered, Registered
<1>1. ASSUME NEW u \in Users, NEW p \in Passwords, HandleLogin(u, p)
      PROVE  AccountsInv'
    <2>1. CASE UNCHANGED <<userDir, password>> /\ LoginUser(u) /\ AuthenticateUser(u, p) = 1
        BY <2>1, Authentication DEF LoginUser
    <2>2. CASE RegisterUser(u, p) /\ LoginUser(u)
        BY <2>2 DEF RegisterUser, LoginUser
    <2>3. CASE UNCHANGED accountFiles
        BY <2>3 DEF accountFiles
    <2> QED  BY <1>1, <2>1, <2>2, <2>3 DEF HandleLogin
<1>2. ASSUME NEW u \in Users, NEW p \in Passwords, HandleLogout(u, p)
      PROVE  AccountsInv'
    BY <1>2 DEF HandleLogout, LogoutUser, accountFiles
<1>3. ASSUME NEW u \in Users, NEW p \in Passwords, HandleUnregister(u, p)
      PROVE  AccountsInv'
    BY <1>3 DEF HandleUnregister, UnregisterUser, LogoutUser, accountFiles
<1>4. ASSUME NEW u \in Users, NEW p \in Passwords, NEW new \in Passwords,
             HandleChangePassword(u, p, new)
      PROVE  AccountsInv'
    BY <1>4 DEF HandleChangePassword, MayChangePassword, accountFiles
<1>5. CASE UNCHANGED accountFiles
    BY <1>5 DEF accountFiles
<1> QED  BY <1>1, <1>2, <1>3, <1>4, <1>5 DEF AccountsNext, MalformedAccountRequest

\* The account files stay well formed, and whoever is logged in has an account,
\* for every number of users and passwords.
THEOREM AccountsSafe == AccountsSpec => [](AccountsTypeOK /\ SessionsRegistered)
<1>1. AccountsAlone => AccountsInv
    BY AccountsInitInv DEF AccountsAlone
<1>2. AccountsInv /\ [AccountsNext]_accountVars => AccountsInv'
    BY AccountsStep DEF accountVars
<1> QED  BY <1>1, <1>2, PTL DEF AccountsSpec, AccountsInv

\* The directory, password file and login file of every user stay what
\* user_database.c makes them.
THEOREM AccountsTypeSafe == AccountsSpec => []AccountsTypeOK
BY AccountsSafe, PTL

\* What CredentialsChangeInSession says of a step.
InSession ==
    \A u \in Users :
        password'[u] # password[u] =>
            /\ reply'.uid = u
            /\ IF password[u] = NoFile THEN u \in loggedIn' ELSE u \in loggedIn

LEMMA AccountStepInSession == ASSUME AccountsInv, AccountsNext PROVE InSession
<1> USE DEF AccountsInv, AccountsTypeOK, AnswerStatus, Answer, InSession
<1>1. ASSUME NEW u \in Users, NEW p \in Passwords, HandleLogin(u, p)
      PROVE  InSession
    BY <1>1, Authentication
    DEF HandleLogin, RegisterUser, LoginUser, accountFiles, Registered
<1>2. ASSUME NEW u \in Users, NEW p \in Passwords, HandleLogout(u, p)
      PROVE  InSession
    BY <1>2 DEF HandleLogout, accountFiles
<1>3. ASSUME NEW u \in Users, NEW p \in Passwords, HandleUnregister(u, p)
      PROVE  InSession
    BY <1>3 DEF HandleUnregister, UnregisterUser, MayLeave, accountFiles
<1>4. ASSUME NEW u \in Users, NEW p \in Passwords, NEW new \in Passwords,
             HandleChangePassword(u, p, new)
      PROVE  InSession
    BY <1>4, Authentication
    DEF HandleChangePassword, MayChangePassword, accountFiles, Registered
<1>5. ASSUME NEW rsp, MalformedAccountRequest(rsp)
      PROVE  InSession
    BY <1>5 DEF MalformedAccountRequest, accountFiles
<1> QED  BY <1>1, <1>2, <1>3, <1>4, <1>5 DEF AccountsNext

\* A password file changes only in an open session of its own user, or appears
\* with one, in every step of the accounts.
THEOREM CredentialsSafe == AccountsSpec => CredentialsChangeInSession
<1>1. AccountsInv /\ [AccountsNext]_accountVars => [InSession]_accountVars
    BY AccountStepInSession
<1>2. AccountsSpec => []AccountsInv
    BY AccountsSafe, PTL DEF AccountsInv
<1> QED  BY <1>1, <1>2, PTL DEF AccountsSpec, CredentialsChangeInSession, InSession
=============================================================================
