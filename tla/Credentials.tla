----------------------------- MODULE Credentials -----------------------------
(***************************************************************************)
(* The passwords of one e-mail address, as the person it belongs to knows  *)
(* them: the sign-up forms, LoginForm and the password form of             *)
(* ProfileScreen, with AuthService behind them, and what administrators    *)
(* and agents do.  The address may have an account in users, for staff,    *)
(* and another in clients: each table has a unique index of its own, and   *)
(* login looks in users first.                                             *)
(*                                                                         *)
(* A form waits for its answer, but forms may be open side by side; an     *)
(* answer may be lost when its call was served, and the person then tries  *)
(* again.  No statement of a call is in a transaction with another.        *)
(*                                                                         *)
(* Hashes are left out: a hash is the password it was made from.  So is    *)
(* the agent that a client names on signing up: it may be refused.         *)
(***************************************************************************)
EXTENDS Naturals

CONSTANTS
    Passwords,    \* passwords of eight characters and more
    NoPassword,
    Attempts,     \* bound: calls under way at once
    MaxTries      \* bound: calls, and deeds of administrators, in all

ASSUME CredentialAssumption == NoPassword \notin Passwords /\ MaxTries \in Nat

VARIABLES
    account,   \* in each table, its status, "none" where there is no row
    password,  \* password_hash of the row
    cookie,    \* the table of the account that the browser has a token for
    attempt,   \* the calls
    told,      \* history: the password of each account that was last said to be valid
    certain,   \* history: nobody else, and no call without an answer, has set another
    tries      \* counts towards MaxTries

credentialVars == <<account, password, cookie, attempt, told, certain, tries>>
-----------------------------------------------------------------------------
Tables == {"USER", "CLIENT"}
AccountStates == {"none", "PENDING", "ACTIVE", "OFF"}
AccountExists(t) == t \in Tables /\ account[t] # "none"

\* of: the table of the account; "none" before a login finds it, and when the
\* account that the call is about was removed.
\* awaited: the form waits for the answer.
\* latest: no password was set since the one that this call has set or compared.
Attempt == [form : {"signup", "login", "change"}, of : Tables \cup {"none"},
            step : {"sent", "admitted", "checked", "done"},
            old : Passwords, new : Passwords, ok : BOOLEAN, awaited : BOOLEAN, latest : BOOLEAN]
NoAttempt == [form |-> "none"]

AtStep(k, form, step) == attempt[k] # NoAttempt /\ attempt[k].form = form /\ attempt[k].step = step
Try == tries < MaxTries /\ tries' = tries + 1

\* What the calls of the table compared or set is out of date.
Superseded(t) == [i \in Attempts |->
    IF attempt[i] # NoAttempt /\ attempt[i].of = t THEN [attempt[i] EXCEPT !.latest = FALSE]
    ELSE attempt[i]]

\* A call that ends with nobody waiting is forgotten.
Ended(k, t, ok, latest) ==
    IF attempt[k].awaited
    THEN [attempt[k] EXCEPT !.step = "done", !.of = t, !.ok = ok, !.latest = latest]
    ELSE NoAttempt
-----------------------------------------------------------------------------
(* The forms. *)

Submit(k, form, t, old, new) ==
    /\ attempt[k] = NoAttempt
    /\ attempt' = [attempt EXCEPT ![k] =
          [form |-> form, of |-> t, step |-> "sent", old |-> old, new |-> new,
           ok |-> FALSE, awaited |-> TRUE, latest |-> FALSE]]
    /\ Try
    /\ UNCHANGED <<account, password, cookie, told, certain>>

\* onSubmit of SignupBusinessForm and SignupClientForm, and of LoginForm.
SignUp(k, t, new) == Submit(k, "signup", t, new, new)
SignIn(k, secret) == Submit(k, "login", "none", secret, secret)

\* onPasswordSubmit.
ChangePassword(k, old, new) == cookie # "none" /\ Submit(k, "change", cookie, old, new)

\* The answer: the form tells what became of the call, and a login stores the token.
AnswerForm(k) ==
    LET j == attempt[k] IN
    /\ j # NoAttempt /\ j.awaited /\ j.step = "done"
    /\ attempt' = [attempt EXCEPT ![k] = NoAttempt]
    /\ told' = [t \in Tables |-> IF j.ok /\ j.of = t THEN j.new ELSE told[t]]
    /\ certain' = [t \in Tables |-> IF j.ok /\ j.of = t THEN j.latest ELSE certain[t]]
    /\ cookie' = IF j.ok /\ j.form = "login" THEN j.of ELSE cookie
    /\ UNCHANGED <<account, password, tries>>

\* The answer is lost, or the form is left: the call goes on.
LoseAnswer(k) ==
    LET j == attempt[k] IN
    /\ j # NoAttempt /\ j.awaited
    /\ attempt' = [attempt EXCEPT ![k] =
          IF j.step = "done" THEN NoAttempt ELSE [j EXCEPT !.awaited = FALSE]]
    /\ certain' = [t \in Tables |-> certain[t] /\ (j.of = t => j.form = "login")]
    /\ UNCHANGED <<account, password, cookie, told, tries>>

\* LogoutButton, and a token that is over.
SignOut ==
    /\ cookie # "none" /\ cookie' = "none"
    /\ UNCHANGED <<account, password, attempt, told, certain, tries>>
-----------------------------------------------------------------------------
(* AuthService. *)

Refuse(k) ==
    /\ attempt[k] # NoAttempt /\ attempt[k].step # "done"
    /\ attempt' = [attempt EXCEPT ![k] = Ended(k, attempt[k].of, FALSE, FALSE)]
    /\ UNCHANGED <<account, password, cookie, told, certain, tries>>

GoOn(k, step) ==
    /\ attempt' = [attempt EXCEPT ![k].step = step]
    /\ UNCHANGED <<account, password, cookie, told, certain, tries>>

\* signupAgent and signupClient, each in its own table: is the address taken?
CheckClash(k) ==
    /\ AtStep(k, "signup", "sent") /\ ~AccountExists(attempt[k].of)
    /\ GoOn(k, "checked")

\* bcryptHash of the new password.
NewSecret(k) == attempt[k].new

\* Call k sets the password of its account.
SetBy(k) ==
    LET t == attempt[k].of IN
    /\ password' = [password EXCEPT ![t] = NewSecret(k)]
    /\ attempt' = [Superseded(t) EXCEPT ![k] = Ended(k, t, TRUE, TRUE)]
    /\ certain' = [certain EXCEPT ![t] = @ /\ attempt[k].awaited]
    /\ UNCHANGED <<cookie, told, tries>>

\* The unique index of the table refuses a second row of the address.
CreateAccount(k) ==
    /\ AtStep(k, "signup", "checked") /\ ~AccountExists(attempt[k].of)
    /\ account' = [account EXCEPT ![attempt[k].of] = "PENDING"]
    /\ SetBy(k)

\* Fault: the comparison of the password is not waited for.
Unverified(t, secret) == account[t] = "ACTIVE"
\* verifyPassword, and the status of the account.
Verified(t, secret) == account[t] = "ACTIVE" /\ password[t] = secret

Compare(k, t) ==
    /\ attempt' = [attempt EXCEPT ![k] = Ended(k, t, Verified(t, attempt[k].new), TRUE)]
    /\ UNCHANGED <<account, password, cookie, told, certain, tries>>

\* login: an address that is found in users is not looked up in clients.
LookInUsers(k) ==
    /\ AtStep(k, "login", "sent")
    /\ IF AccountExists("USER") THEN Compare(k, "USER") ELSE GoOn(k, "checked")

LookInClients(k) == AtStep(k, "login", "checked") /\ Compare(k, "CLIENT")

\* JwtStrategy.validate.
AdmitChange(k) ==
    /\ AtStep(k, "change", "sent")
    /\ attempt[k].of # "none" /\ account[attempt[k].of] = "ACTIVE"
    /\ GoOn(k, "admitted")

\* changePassword: the account is read and the current password compared ...
VerifyCurrent(k) ==
    /\ AtStep(k, "change", "admitted")
    /\ AccountExists(attempt[k].of) /\ password[attempt[k].of] = attempt[k].old
    /\ GoOn(k, "checked")

\* ... and the new one is written over whatever is there by now.
WriteSecret(k) ==
    /\ AtStep(k, "change", "checked") /\ AccountExists(attempt[k].of)
    /\ SetBy(k)
    /\ UNCHANGED account
-----------------------------------------------------------------------------
(* Administrators and agents. *)

\* create of UsersService and ClientsService, and resetPassword of UsersService.
SetByOthers(t, new) ==
    /\ ~AccountExists(t) \/ t = "USER"
    /\ account' = [account EXCEPT ![t] = IF AccountExists(t) THEN @ ELSE "ACTIVE"]
    /\ password' = [password EXCEPT ![t] = new]
    /\ attempt' = Superseded(t) /\ certain' = [certain EXCEPT ![t] = FALSE]
    /\ Try
    /\ UNCHANGED <<cookie, told>>

\* approve, reject and the status of a user or client; an account is PENDING once.
SetAccount(t) ==
    /\ AccountExists(t)
    /\ \E state \in {"ACTIVE", "OFF"} \ {account[t]} : account' = [account EXCEPT ![t] = state]
    /\ Try
    /\ UNCHANGED <<password, cookie, attempt, told, certain>>

\* remove: tokens of the account, and changes of its password, are for nothing.
RemoveAccount(t) ==
    /\ AccountExists(t)
    /\ account' = [account EXCEPT ![t] = "none"]
    /\ password' = [password EXCEPT ![t] = NoPassword]
    /\ cookie' = IF cookie = t THEN "none" ELSE cookie
    /\ attempt' = [i \in Attempts |->
          IF attempt[i] # NoAttempt /\ attempt[i].of = t /\ attempt[i].form # "signup"
          THEN [attempt[i] EXCEPT !.of = "none"] ELSE Superseded(t)[i]]
    /\ certain' = [certain EXCEPT ![t] = FALSE]
    /\ Try
    /\ UNCHANGED told
-----------------------------------------------------------------------------
CredentialInit ==
    /\ account = [t \in Tables |-> "none"] /\ password = [t \in Tables |-> NoPassword]
    /\ cookie = "none"
    /\ attempt = [k \in Attempts |-> NoAttempt]
    /\ told = [t \in Tables |-> NoPassword] /\ certain = [t \in Tables |-> FALSE]
    /\ tries = 0

UseForm(k) ==
    \/ AnswerForm(k) \/ LoseAnswer(k)
    \/ \E secret \in Passwords : SignIn(k, secret) \/ \E t \in Tables : SignUp(k, t, secret)
    \/ \E old, new \in Passwords : ChangePassword(k, old, new)

Auth(k) ==
    \/ Refuse(k) \/ CheckClash(k) \/ CreateAccount(k) \/ LookInUsers(k) \/ LookInClients(k)
    \/ AdmitChange(k) \/ VerifyCurrent(k) \/ WriteSecret(k)

Administer(t) == SetAccount(t) \/ RemoveAccount(t) \/ \E new \in Passwords : SetByOthers(t, new)

CredentialNext ==
    \/ SignOut
    \/ \E t \in Tables : Administer(t)
    \/ \E k \in Attempts : UseForm(k) \/ Auth(k)

CredentialSpec == CredentialInit /\ [][CredentialNext]_credentialVars
-----------------------------------------------------------------------------
\* Every variable keeps the type its comment gives it.
CredentialTypes ==
    /\ account \in [Tables -> AccountStates]
    /\ password \in [Tables -> Passwords \cup {NoPassword}]
    /\ told \in [Tables -> Passwords \cup {NoPassword}]
    /\ cookie \in Tables \cup {"none"} /\ certain \in [Tables -> BOOLEAN] /\ tries \in Nat
    /\ attempt \in [Attempts -> Attempt \cup {NoAttempt}]

\* A new password of the account was set and the answer that tells it is on the way.
NewsOnTheWay(t) ==
    \E k \in Attempts :
        /\ attempt[k] # NoAttempt /\ attempt[k].awaited /\ attempt[k].ok
        /\ attempt[k].step = "done" /\ attempt[k].form # "login" /\ attempt[k].of = t

Known(t) == certain[t] /\ ~NewsOnTheWay(t)

\* The password of an account that a form last told somebody to be valid, by a
\* sign-up, a login or a change, is the one it has, until somebody else sets
\* another, an answer is lost, or a later call has set one; calls that were
\* refused, that overlapped or that checked a password long gone do not matter,
\* nor do those for the account the address has in the other table.
KnownPasswordIsKept ==
    \A t \in Tables : Known(t) => AccountExists(t) /\ password[t] = told[t]
=============================================================================
