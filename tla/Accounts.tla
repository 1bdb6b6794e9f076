------------------------------ MODULE Accounts ------------------------------
(***************************************************************************)
(* The users of the web interface: web/api/users.py, the login of          *)
(* web/api/system.py and the tokens of web/auth.py.  A token carries the   *)
(* role its user had at login and is believed until it expires; the rows   *)
(* of the table may say something else by then.                            *)
(*                                                                         *)
(* A handler checks its token first and works on the row later, in a       *)
(* transaction that locks the row when it updates it or reads it FOR       *)
(* UPDATE.                                                                 *)
(***************************************************************************)
EXTENDS Naturals

CONSTANTS User, Password,
          Role,        \* roles of an instance, "admin" among them
          Request,     \* requests that are handled at one time
          NONE

Rows == [role : Role, enabled : BOOLEAN, password : Password]

ASSUME AccountsAssumption == "admin" \in Role /\ NONE \notin Request \cup Rows

VARIABLES row,       \* row[u]: the row of users, NONE before it is created
          tokens,    \* tokens that have not expired
          rowLock,   \* rowLock[u]: the request whose transaction holds the row
          req,       \* req[r]: the request that is handled
          outdated   \* history: users were disabled or demoted by somebody
                     \* who was not an enabled admin any more

vars == <<row, tokens, rowLock, req, outdated>>

Idle  == [pc |-> "idle"]
Exists(u) == row[u] # NONE
IsAdmin(u) == Exists(u) /\ row[u].enabled /\ row[u].role = "admin"

\* The installation has created an administrator.
Init ==
    /\ \E u \in User, p \in Password :
          row = [v \in User |-> IF v = u THEN [role |-> "admin", enabled |-> TRUE, password |-> p]
                                ELSE NONE]
    /\ tokens = {} /\ outdated = FALSE
    /\ rowLock = [u \in User |-> NONE]
    /\ req = [r \in Request |-> Idle]
-----------------------------------------------------------------------------
\* login(): the row is read without a lock and the password checked against it.
LoginReads(r, u, p) ==
    /\ req[r].pc = "idle"
    /\ Exists(u) /\ row[u].enabled /\ row[u].password = p
    /\ req' = [req EXCEPT ![r] = [pc |-> "login", target |-> u, role |-> row[u].role]]
    /\ UNCHANGED <<row, tokens, rowLock, outdated>>

\* last_login is updated, and the token has the role that was read.
LoginEnds(r) ==
    /\ req[r].pc = "login" /\ rowLock[req[r].target] = NONE
    /\ tokens' = tokens \cup {[user |-> req[r].target, role |-> req[r].role]}
    /\ req' = [req EXCEPT ![r] = Idle]
    /\ UNCHANGED <<row, rowLock, outdated>>

Expires(token) ==
    /\ tokens' = tokens \ {token}
    /\ UNCHANGED <<row, rowLock, req, outdated>>

FailsLocked(r) == \* mutant: the transaction stays open
    /\ req[r].pc # "idle"
    /\ req' = [req EXCEPT ![r] = Idle]
    /\ UNCHANGED <<row, tokens, rowLock, outdated>>

\* A request fails, or the service ends: its transaction is rolled back.
Fails(r) ==
    /\ req[r].pc # "idle"
    /\ req' = [req EXCEPT ![r] = Idle]
    /\ rowLock' = [u \in User |-> IF rowLock[u] = r THEN NONE ELSE rowLock[u]]
    /\ UNCHANGED <<row, tokens, outdated>>
-----------------------------------------------------------------------------
MayChangeAll(token, u) == token.role = "admin" \* mutant: oneself included

\* delete_user and change_role are for admins, and not for their own row.
MayChange(token, u) == token.role = "admin" /\ u # token.user

\* require_auth and the checks of the handler that need no row.
BeginChange(r, token, u) ==
    /\ req[r].pc = "idle" /\ MayChange(token, u)
    /\ req' = [req EXCEPT ![r] = [pc |-> "change", by |-> token.user, target |-> u]]
    /\ UNCHANGED <<row, tokens, rowLock, outdated>>

\* The UPDATE that ends a request at pc "change".
Update(r, new) ==
    LET u == req[r].target IN
    /\ req[r].pc = "change" /\ Exists(u) /\ rowLock[u] = NONE
    /\ row' = [row EXCEPT ![u] = new]
    /\ outdated' = (outdated \/ ~IsAdmin(req[r].by))
    /\ req' = [req EXCEPT ![r] = Idle]
    /\ UNCHANGED <<tokens, rowLock>>

\* The row of a deleted user is only disabled.
delete_user(r) == Update(r, [row[req[r].target] EXCEPT !.enabled = FALSE])

change_role(r, role) == Update(r, [row[req[r].target] EXCEPT !.role = role])

\* create_user: the name must be new, that of a deleted user is not.
CreateUser(r, token, u, role, p) ==
    /\ req[r].pc = "idle" /\ token.role = "admin" /\ ~Exists(u)
    /\ row' = [row EXCEPT ![u] = [role |-> role, enabled |-> TRUE, password |-> p]]
    /\ UNCHANGED <<tokens, rowLock, req, outdated>>

\* change_password by an admin: one UPDATE, whoever's row it is.
ResetPassword(r, token, u, p) ==
    /\ req[r].pc = "idle" /\ token.role = "admin" /\ Exists(u) /\ rowLock[u] = NONE
    /\ row' = [row EXCEPT ![u].password = p]
    /\ UNCHANGED <<tokens, rowLock, req, outdated>>

ReadPlain(r, token, p) == \* mutant: without FOR UPDATE
    LET u == token.user IN
    /\ req[r].pc = "idle" /\ token.role # "admin"
    /\ Exists(u) /\ row[u].enabled /\ row[u].password = p
    /\ req' = [req EXCEPT ![r] = [pc |-> "verified", target |-> u, old |-> p]]
    /\ UNCHANGED <<row, tokens, rowLock, outdated>>

\* change_password by others: SELECT ... FOR UPDATE of their own row, and the check.
VerifyPassword(r, token, p) ==
    LET u == token.user IN
    /\ req[r].pc = "idle" /\ token.role # "admin"
    /\ Exists(u) /\ row[u].enabled /\ row[u].password = p
    /\ rowLock[u] = NONE /\ rowLock' = [rowLock EXCEPT ![u] = r]
    /\ req' = [req EXCEPT ![r] = [pc |-> "verified", target |-> u, old |-> p]]
    /\ UNCHANGED <<row, tokens, outdated>>

ReplacePassword(r, p) ==
    LET u == req[r].target IN
    /\ req[r].pc = "verified"
    /\ row' = [row EXCEPT ![u].password = p]
    /\ rowLock' = [rowLock EXCEPT ![u] = NONE]
    /\ req' = [req EXCEPT ![r] = Idle]
    /\ UNCHANGED <<tokens, outdated>>

Next ==
    \/ \E token \in tokens : Expires(token)
    \/ \E r \in Request :
          \/ LoginEnds(r) \/ Fails(r) \/ delete_user(r)
          \/ \E role \in Role : change_role(r, role)
          \/ \E p \in Password : ReplacePassword(r, p)
          \/ \E u \in User, p \in Password : LoginReads(r, u, p)
          \/ \E token \in tokens :
                \/ \E p \in Password : VerifyPassword(r, token, p)
                \/ \E u \in User : BeginChange(r, token, u)
                \/ \E u \in User, p \in Password :
                      \/ ResetPassword(r, token, u, p)
                      \/ \E role \in Role : CreateUser(r, token, u, role, p)

Spec == Init /\ [][Next]_vars
-----------------------------------------------------------------------------
Requests ==
    {Idle} \cup [pc : {"login"}, target : User, role : Role]
           \cup [pc : {"change"}, by : User, target : User]
           \cup [pc : {"verified"}, target : User, old : Password]

\* Every variable has its type; a locked row is locked by a request that works on it.
TypeOK ==
    /\ row \in [User -> Rows \cup {NONE}]
    /\ tokens \subseteq [user : User, role : Role]
    /\ rowLock \in [User -> Request \cup {NONE}]
    /\ \A u \in User, r \in Request :
          rowLock[u] = r <=> req[r].pc = "verified" /\ req[r].target = u
    /\ req \in [Request -> Requests]
    /\ outdated \in BOOLEAN

\* Users can always be managed: an enabled admin is left, whatever deletions and role
\* changes cross each other, unless one was made by somebody who had lost that right.
AdminRemains == ~outdated => \E u \in User : IsAdmin(u)

\* The password that change_password replaces is the one it has verified: of two
\* requests with the same old password the second is refused, and none undoes a reset.
VerifiedIsCurrent ==
    \A r \in Request : req[r].pc = "verified" =>
        row[req[r].target] # NONE /\ row[req[r].target].password = req[r].old
=============================================================================
