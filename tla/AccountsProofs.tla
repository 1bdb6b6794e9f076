--------------------------- MODULE AccountsProofs ---------------------------
(***************************************************************************)
(* The accounts for every set of users, passwords, roles and requests.     *)
(* The three properties need one fact more: nobody works on the own row.   *)
(***************************************************************************)
EXTENDS Accounts, TLAPS

USE AccountsAssumption

\* A request to change a row is about the row of somebody else.
OthersOnly == \A r \in Request : req[r].pc = "change" => req[r].by # req[r].target

IInv == TypeOK /\ OthersOnly /\ VerifiedIsCurrent /\ AdminRemains

LEMMA InitIInv == Init => IInv
<1> SUFFICES ASSUME Init PROVE IInv
  OBVIOUS
<1> PICK u \in User, p \in Password :
       row = [v \in User |-> IF v = u THEN [role |-> "admin", enabled |-> TRUE, password |-> p]
                             ELSE NONE]
  BY DEF Init
<1>1. [role |-> "admin", enabled |-> TRUE, password |-> p] \in Rows
  BY DEF Rows
<1>2. TypeOK
  BY <1>1 DEF Init, TypeOK, Requests, Idle
<1>3. IsAdmin(u)
  BY <1>1 DEF IsAdmin, Exists
<1> QED
  BY <1>2, <1>3 DEF Init, IInv, OthersOnly, VerifiedIsCurrent, AdminRemains, Idle
-----------------------------------------------------------------------------
\* What is known of a request by its program counter.
LEMMA RequestTypes ==
  ASSUME TypeOK, NEW r \in Request
  PROVE  /\ req[r].pc = "login" => req[r].target \in User /\ req[r].role \in Role
         /\ req[r].pc = "change" => req[r].by \in User /\ req[r].target \in User
         /\ req[r].pc = "verified" => req[r].target \in User /\ req[r].old \in Password
  BY DEF TypeOK, Requests, Idle

\* The steps that leave the rows and their locks alone.
LEMMA RowsUntouched ==
  ASSUME IInv, NEW r \in Request,
         \/ \E token \in tokens : Expires(token)
         \/ \E u \in User, p \in Password : LoginReads(r, u, p)
         \/ LoginEnds(r)
         \/ \E token \in tokens, u \in User : BeginChange(r, token, u)
  PROVE  IInv'
<1>1. CASE \E token \in tokens : Expires(token)
  BY <1>1 DEF IInv, TypeOK, OthersOnly, VerifiedIsCurrent, AdminRemains, IsAdmin, Exists, Expires
<1>2. CASE \E u \in User, p \in Password : LoginReads(r, u, p)
  <2> PICK u \in User, p \in Password : LoginReads(r, u, p)
    BY <1>2
  <2>1. TypeOK'
    BY DEF IInv, LoginReads, TypeOK, Requests, Idle, Rows, Exists
  <2> QED
    BY <2>1 DEF IInv, LoginReads, TypeOK, OthersOnly, VerifiedIsCurrent, AdminRemains, IsAdmin, Exists
<1>3. CASE LoginEnds(r)
  <2>1. TypeOK'
    BY <1>3, RequestTypes DEF IInv, LoginEnds, TypeOK, Requests, Idle
  <2> QED
    BY <1>3, <2>1 DEF IInv, LoginEnds, TypeOK, OthersOnly, VerifiedIsCurrent, AdminRemains, IsAdmin, Exists, Idle
<1>4. CASE \E token \in tokens, u \in User : BeginChange(r, token, u)
  <2> PICK token \in tokens, u \in User : BeginChange(r, token, u)
    BY <1>4
  <2>1. TypeOK'
    BY DEF IInv, BeginChange, TypeOK, Requests, Idle
  <2> QED
    BY <2>1 DEF IInv, BeginChange, MayChange, TypeOK, OthersOnly, VerifiedIsCurrent, AdminRemains, IsAdmin, Exists
<1> QED
  BY <1>1, <1>2, <1>3, <1>4
-----------------------------------------------------------------------------
\* A request that fails releases its row.
LEMMA FailsStep ==
  ASSUME IInv, NEW r \in Request, Fails(r)
  PROVE  IInv'
<1>1. TypeOK'
  BY DEF IInv, Fails, TypeOK, Requests, Idle
<1> QED
  BY <1>1 DEF IInv, Fails, TypeOK, OthersOnly, VerifiedIsCurrent, AdminRemains, IsAdmin, Exists, Idle

\* The UPDATE of somebody else's row, which no transaction holds.
LEMMA UpdateStep ==
  ASSUME IInv, NEW r \in Request, NEW new \in Rows, Update(r, new)
  PROVE  IInv'
<1> DEFINE u == req[r].target
<1>1. u \in User /\ req[r].by \in User /\ u # req[r].by
  BY RequestTypes DEF IInv, OthersOnly, Update
<1>2. TypeOK'
  BY <1>1 DEF IInv, Update, TypeOK, Requests, Idle, IsAdmin
<1>3. OthersOnly'
  BY DEF IInv, Update, OthersOnly, TypeOK, Idle
<1>4. VerifiedIsCurrent'
  <2> SUFFICES ASSUME NEW q \in Request, req'[q].pc = "verified"
               PROVE  /\ row'[req'[q].target] # NONE
                      /\ row'[req'[q].target].password = req'[q].old
    BY DEF VerifiedIsCurrent
  <2>1. q # r /\ req'[q] = req[q]
    BY DEF IInv, Update, TypeOK, Idle
  <2>2. req[q].target # u
    BY <2>1, <1>1 DEF IInv, Update, TypeOK
  <2> QED
    BY <2>1, <2>2, RequestTypes DEF IInv, Update, TypeOK, VerifiedIsCurrent
<1>5. AdminRemains'
  <2>1. ~outdated' => IsAdmin(req[r].by)
    BY DEF Update
  <2>2. row'[req[r].by] = row[req[r].by]
    BY <1>1 DEF IInv, Update, TypeOK
  <2> QED
    BY <1>1, <2>1, <2>2 DEF AdminRemains, IsAdmin, Exists
<1> QED
  BY <1>2, <1>3, <1>4, <1>5 DEF IInv

\* A row that is created, or given another password, when nobody holds it.
LEMMA RowStep ==
  ASSUME IInv, NEW r \in Request, NEW token \in tokens, NEW u \in User, NEW p \in Password,
         \/ ResetPassword(r, token, u, p)
         \/ \E role \in Role : CreateUser(r, token, u, role, p)
  PROVE  IInv'
<1>1. \E new \in Rows : /\ row' = [row EXCEPT ![u] = new]
                        /\ IsAdmin(u) => new.enabled /\ new.role = "admin"
  <2>1. CASE ResetPassword(r, token, u, p)
    BY <2>1, [row[u] EXCEPT !.password = p] \in Rows
       DEF IInv, ResetPassword, TypeOK, Rows, IsAdmin, Exists
  <2>2. CASE \E role \in Role : CreateUser(r, token, u, role, p)
    BY <2>2 DEF CreateUser, Rows, IsAdmin
  <2> QED
    BY <2>1, <2>2
<1>2. PICK new \in Rows : /\ row' = [row EXCEPT ![u] = new]
                          /\ IsAdmin(u) => new.enabled /\ new.role = "admin"
  BY <1>1
<1>3. UNCHANGED <<tokens, rowLock, req, outdated>>
  BY DEF ResetPassword, CreateUser
<1>4. \A q \in Request : req[q].pc = "verified" => req[q].target # u
  BY DEF IInv, TypeOK, VerifiedIsCurrent, ResetPassword, CreateUser, Exists
<1>5. TypeOK'
  BY <1>2, <1>3 DEF IInv, TypeOK
<1>6. VerifiedIsCurrent'
  BY <1>2, <1>3, <1>4, RequestTypes DEF IInv, TypeOK, VerifiedIsCurrent
<1>7. AdminRemains'
  BY <1>2, <1>3 DEF IInv, TypeOK, AdminRemains, IsAdmin, Exists
<1> QED
  BY <1>3, <1>5, <1>6, <1>7 DEF IInv, OthersOnly
-----------------------------------------------------------------------------
\* The verified password is read under the lock of the row.
LEMMA VerifyStep ==
  ASSUME IInv, NEW r \in Request, NEW token \in tokens, NEW p \in Password,
         VerifyPassword(r, token, p)
  PROVE  IInv'
<1>1. TypeOK'
  <2>1. token.user \in User
    BY DEF IInv, TypeOK
  <2> QED
    BY <2>1 DEF IInv, VerifyPassword, TypeOK, Requests, Idle
<1>2. VerifiedIsCurrent'
  BY DEF IInv, VerifyPassword, TypeOK, VerifiedIsCurrent, Exists
<1> QED
  BY <1>1, <1>2 DEF IInv, VerifyPassword, TypeOK, OthersOnly, AdminRemains, IsAdmin, Exists

\* The transaction that holds the row replaces the password.
LEMMA ReplaceStep ==
  ASSUME IInv, NEW r \in Request, NEW p \in Password, ReplacePassword(r, p)
  PROVE  IInv'
<1> DEFINE u == req[r].target
           new == [row[u] EXCEPT !.password = p]
<1>1. u \in User /\ row[u] \in Rows /\ new \in Rows
  BY RequestTypes DEF IInv, ReplacePassword, TypeOK, VerifiedIsCurrent, Rows
<1>2. TypeOK'
  BY <1>1 DEF IInv, ReplacePassword, TypeOK, Requests, Idle
<1>3. VerifiedIsCurrent'
  BY <1>1, RequestTypes DEF IInv, ReplacePassword, TypeOK, VerifiedIsCurrent, Idle
<1>4. AdminRemains'
  <2>1. /\ new.role = row[u].role
        /\ new.enabled = row[u].enabled
    BY <1>1 DEF Rows
  <2> QED
    BY <1>1, <2>1 DEF IInv, ReplacePassword, TypeOK, AdminRemains, IsAdmin, Exists
<1> QED
  BY <1>2, <1>3, <1>4 DEF IInv, ReplacePassword, TypeOK, OthersOnly, Idle
-----------------------------------------------------------------------------
LEMMA NextIInv == IInv /\ [Next]_vars => IInv'
<1> SUFFICES ASSUME IInv, [Next]_vars PROVE IInv'
  OBVIOUS
<1>1. CASE UNCHANGED vars
  BY <1>1 DEF vars, IInv, TypeOK, OthersOnly, VerifiedIsCurrent, AdminRemains, IsAdmin, Exists
<1>2. CASE \E token \in tokens : Expires(token)
  BY <1>2 DEF IInv, TypeOK, OthersOnly, VerifiedIsCurrent, AdminRemains, IsAdmin, Exists, Expires
<1>3. ASSUME NEW r \in Request, delete_user(r) PROVE IInv'
  <2>0. row[req[r].target] \in Rows
    BY <1>3, RequestTypes DEF IInv, delete_user, Update, TypeOK, Exists
  <2>1. [row[req[r].target] EXCEPT !.enabled = FALSE] \in Rows
    BY <2>0 DEF Rows
  <2> QED
    BY <1>3, <2>1, UpdateStep DEF delete_user
<1>4. ASSUME NEW r \in Request, NEW role \in Role, change_role(r, role) PROVE IInv'
  <2>0. row[req[r].target] \in Rows
    BY <1>4, RequestTypes DEF IInv, change_role, Update, TypeOK, Exists
  <2>1. [row[req[r].target] EXCEPT !.role = role] \in Rows
    BY <2>0 DEF Rows
  <2> QED
    BY <1>4, <2>1, UpdateStep DEF change_role
<1> QED
  BY <1>1, <1>2, <1>3, <1>4, RowsUntouched, FailsStep, RowStep, VerifyStep, ReplaceStep DEF Next

LEMMA AlwaysIInv == Spec => []IInv
  BY InitIInv, NextIInv, PTL DEF Spec

\* Every variable keeps its type, and the lock of a row belongs to the request that verifies.
THEOREM TypeCorrect == Spec => []TypeOK
  BY AlwaysIInv, PTL DEF IInv

\* Unless somebody acted on an outdated token, an enabled admin is left.
THEOREM AdminAlwaysRemains == Spec => []AdminRemains
  BY AlwaysIInv, PTL DEF IInv

\* No request replaces a password other than the one it has verified.
THEOREM PasswordStaysVerified == Spec => []VerifiedIsCurrent
  BY AlwaysIInv, PTL DEF IInv
=============================================================================
