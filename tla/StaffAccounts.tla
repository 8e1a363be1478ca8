--------------------------- MODULE StaffAccounts ---------------------------
(***************************************************************************)
(* Staff accounts, the tokens issued for them and the administrators who   *)
(* edit them (backend/auth.py, app.py, user_db.py, admin_middleware.py and *)
(* admin_users.py).                                                        *)
(*                                                                         *)
(* A login reads the account, verifies the password slowly and issues a    *)
(* token from what it read.  Every request of a token is checked against   *)
(* the account as it is then.  An administrator's request reads its target,*)
(* decides, and writes later in the same transaction, without a lock.      *)
(* updated_at, the token's version, is the start time of the transaction   *)
(* that wrote it: unique, but not in the order of the writes.              *)
(***************************************************************************)
EXTENDS Naturals, FiniteSets

CONSTANTS
    Users,       \* accounts
    Slots,       \* administrators' requests under way
    Nothing,     \* no token, no request
    InitialRole, \* the role of each account at first, "absent" for none
    MaxEdits     \* bound: requests of administrators

Privileged == {"admin", "super_admin"}
Scoped == {"recruiter"}
Roles == Privileged \cup Scoped \cup {"proctor"}

ASSUME AccountsAssumption ==
    /\ InitialRole \in [Users -> Roles \cup {"absent"}]
    /\ MaxEdits \in Nat

VARIABLES
    role,        \* users.role; "absent" before and "gone" after the row
    scope,       \* whether users.sector_id is set
    version,     \* users.updated_at
    generation,  \* history: how often the account's rights were changed
    login,       \* what each login under way has read
    token,       \* the token each user holds
    request,     \* each administrator's request under way
    stamp        \* start times given to transactions so far

accountVars == <<role, scope, version, generation>>
staffVars == <<accountVars, login, token, request, stamp>>

AccountsInit ==
    /\ role = InitialRole
    /\ scope = [u \in Users |-> InitialRole[u] \in Scoped]
    /\ version = [u \in Users |-> 0]
    /\ generation = [u \in Users |-> 0]
    /\ login = [u \in Users |-> Nothing]
    /\ token = [u \in Users |-> Nothing]
    /\ request = [r \in Slots |-> Nothing]
    /\ stamp = 0

Exists(u) == role[u] \in Roles

-----------------------------------------------------------------------------
\* Tokens

\* Slip: a login for an account that is not there goes on.
ReadStranger(u) ==
    /\ login[u] = Nothing
    /\ login' = [login EXCEPT ![u] =
         [role |-> role[u], version |-> version[u], generation |-> generation[u]]]
    /\ UNCHANGED <<accountVars, token, request, stamp>>

\* login reads the account; demo_login is a login without the password.
ReadAccount(u) ==
    /\ login[u] = Nothing
    /\ Exists(u)
    /\ login' = [login EXCEPT ![u] =
         [role |-> role[u], version |-> version[u], generation |-> generation[u]]]
    /\ UNCHANGED <<accountVars, token, request, stamp>>

\* _session_response, from the account as it was read
IssueToken(u) ==
    /\ login[u] # Nothing
    /\ token' = [token EXCEPT ![u] = login[u]]
    /\ login' = [login EXCEPT ![u] = Nothing]
    /\ UNCHANGED <<accountVars, request, stamp>>

\* _is_staff_token_revoked, negated: it fails closed
Honoured(u) ==
    /\ token[u] # Nothing
    /\ Exists(u)
    /\ token[u].role = role[u]
    /\ token[u].version = version[u]

-----------------------------------------------------------------------------
\* Administrators' requests: read and decide ...

IsAdmin(u) == Honoured(u) /\ token[u].role \in Privileged

\* The request's transaction starts; who must not touch the target is refused.
Begin(r, u, t, op) ==
    /\ request[r] = Nothing
    /\ stamp < MaxEdits
    /\ IsAdmin(u)
    /\ request' = [request EXCEPT ![r] =
         [op |-> op, as |-> token[u].role, target |-> t, seen |-> role[t], start |-> stamp + 1]]
    /\ stamp' = stamp + 1
    /\ UNCHANGED <<accountVars, login, token>>

MayTouch(u, t) ==
    IsAdmin(u) /\ (role[t] \in Privileged => token[u].role = "super_admin")

BeginUpdate(r, u, t) == Exists(t) /\ MayTouch(u, t) /\ Begin(r, u, t, "update")
BeginDelete(r, u, t) == Exists(t) /\ t # u /\ MayTouch(u, t) /\ Begin(r, u, t, "delete")
BeginCreate(r, u, t) == role[t] = "absent" /\ Begin(r, u, t, "create")

\* ... and write
Leave(r) ==
    /\ request' = [request EXCEPT ![r] = Nothing]
    /\ UNCHANGED <<login, token, stamp>>

\* Slip: updated_at is not touched.
ChangeSilently(r, newRole, newScope) ==
    LET t == request[r].target
    IN  /\ role' = [role EXCEPT ![t] = newRole]
        /\ scope' = [scope EXCEPT ![t] = newScope]
        /\ generation' = [generation EXCEPT ![t] = @ + 1]
        /\ UNCHANGED version

Change(r, newRole, newScope) ==
    LET t == request[r].target
    IN  /\ role' = [role EXCEPT ![t] = newRole]
        /\ scope' = [scope EXCEPT ![t] = newScope]
        /\ version' = [version EXCEPT ![t] = request[r].start]
        /\ generation' = [generation EXCEPT ![t] = @ + 1]

MayAssign(r, newRole) == newRole \in Privileged => request[r].as = "super_admin"

\* A new role brings the scope it needs; a privileged one is a super
\* administrator's to give.
UpdateRole(r, newRole) ==
    /\ request[r] # Nothing /\ request[r].op = "update"
    /\ Exists(request[r].target)
    /\ MayAssign(r, newRole)
    /\ Change(r, newRole, newRole \in Scoped)
    /\ Leave(r)

\* A new sector is kept if the role read has a scope and dropped otherwise;
\* users_sector_scope_check refuses what does not fit the role there is.
UpdateSector(r) ==
    /\ request[r] # Nothing /\ request[r].op = "update"
    /\ Exists(request[r].target)
    /\ role[request[r].target] \in Scoped => request[r].seen \in Scoped
    /\ Change(r, role[request[r].target], request[r].seen \in Scoped)
    /\ Leave(r)

\* A new password, name or address
UpdatePassword(r) ==
    /\ request[r] # Nothing /\ request[r].op = "update"
    /\ Exists(request[r].target)
    /\ Change(r, role[request[r].target], scope[request[r].target])
    /\ Leave(r)

CreateUser(r, newRole) ==
    /\ request[r] # Nothing /\ request[r].op = "create"
    /\ role[request[r].target] = "absent"
    /\ MayAssign(r, newRole)
    /\ Change(r, newRole, newRole \in Scoped)
    /\ Leave(r)

DeleteUser(r) ==
    /\ request[r] # Nothing /\ request[r].op = "delete"
    /\ Exists(request[r].target)
    /\ Change(r, "gone", FALSE)
    /\ Leave(r)

\* Refused, failed, or the account is gone: nothing is written.
Abandon(r) ==
    /\ request[r] # Nothing
    /\ Leave(r)
    /\ UNCHANGED accountVars

RestartAccounts ==
    /\ login' = [u \in Users |-> Nothing]
    /\ request' = [r \in Slots |-> Nothing]
    /\ UNCHANGED <<accountVars, token, stamp>>

LoginStep(u) == ReadAccount(u) \/ IssueToken(u)
AdminStep(r) ==
    \/ \E u, t \in Users : BeginUpdate(r, u, t) \/ BeginDelete(r, u, t) \/ BeginCreate(r, u, t)
    \/ \E new \in Roles : UpdateRole(r, new) \/ CreateUser(r, new)
    \/ UpdateSector(r) \/ UpdatePassword(r) \/ DeleteUser(r) \/ Abandon(r)

-----------------------------------------------------------------------------

Sessions == [role : Roles, version : 0 .. MaxEdits, generation : 0 .. MaxEdits]
Requests == [op : {"update", "delete", "create"}, as : Privileged, target : Users,
             seen : Roles \cup {"absent"}, start : 1 .. MaxEdits]

AccountsTypeOK ==
    /\ role \in [Users -> Roles \cup {"absent", "gone"}]
    /\ scope \in [Users -> BOOLEAN]
    /\ version \in [Users -> 0 .. MaxEdits]
    /\ generation \in [Users -> 0 .. MaxEdits]
    /\ login \in [Users -> Sessions \cup {Nothing}]
    /\ token \in [Users -> Sessions \cup {Nothing}]
    /\ request \in [Slots -> Requests \cup {Nothing}]
    /\ stamp \in 0 .. MaxEdits

\* A token works only while nothing about the account has changed since its
\* login read it: no role, sector, password or deletion, in whatever order
\* logins and edits overlap (app.py: "Fail closed when a staff account
\* changed or disappeared after login").
HonouredIsCurrent ==
    \A u \in Users : Honoured(u) =>
        token[u].generation = generation[u] /\ token[u].role = role[u]

\* What update_user and delete_user answer: "Only super admins can modify
\* privileged users", "Only super admins can delete privileged users".  A
\* privileged account is changed by a super administrator's request only.
OnlySuperTouchesPrivileged ==
    [][\A t \in Users :
         role[t] \in Privileged /\ version'[t] # version[t] =>
           \E r \in Slots :
             /\ request[r] # Nothing /\ request'[r] = Nothing
             /\ request[r].target = t /\ request[r].as = "super_admin"]_staffVars
=============================================================================
