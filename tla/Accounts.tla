------------------------------ MODULE Accounts ------------------------------
(***************************************************************************)
(* The users table and the requests that change it: the auth routes of     *)
(* api/main.py with their dependencies in auth/core.py, and the bootstrap   *)
(* of the first administrator when the server starts.                      *)
(*                                                                         *)
(* A request reads in one statement and writes in a later one, so others   *)
(* may commit in between; each commits a single row.  Deactivated users    *)
(* keep their row, so an account is known by its e-mail.  Passwords are    *)
(* left out but for the flag that one is temporary: a check of a password  *)
(* passes or the request ends.                                             *)
(***************************************************************************)
EXTENDS Naturals, FiniteSets

CONSTANTS Emails,       \* the e-mail addresses people may register with
          Roles,        \* VALID_ROLES
          NoEmail,
          FirstAdmins,  \* FIRST_ADMIN_EMAIL at a start, NoEmail without a password
          Requests      \* bound: requests handled at the same time

ASSUME AccountsAssumption ==
    /\ {"admin", "viewer"} \subseteq Roles /\ "none" \notin Roles
    /\ NoEmail \notin Emails
    /\ FirstAdmins \subseteq Emails \cup {NoEmail} /\ FirstAdmins # {}

VARIABLES
    users,      \* the row of each account, NoUser without one
    tokens,     \* the role in the last token of each account, "none" without;
                \* an expired one is a request that never comes
    request,    \* what each request is doing
    serving     \* whether the server has started

vars == <<users, tokens, request, serving>>

NoUser == [role |-> "none", active |-> FALSE, mustChange |-> FALSE]

Registered == {e \in Emails : users[e] # NoUser}

Admin(row) == row.role = "admin" /\ row.active

Nothing == [f \in {} |-> TRUE]

(* A row with the columns of writes set. *)
Written(row, writes) ==
    [f \in DOMAIN row |-> IF f \in DOMAIN writes THEN writes[f] ELSE row[f]]

(* asked is what a request wants to write to the row of its user, writes   *)
(* the columns its statement sets.  No action reads the other two: alone   *)
(* tells that no other request has been under way at the same time, found  *)
(* which accounts there were when it arrived.                              *)
Idle == [at |-> "idle", kind |-> "none", by |-> NoEmail, user |-> NoEmail,
         asked |-> Nothing, writes |-> Nothing, alone |-> TRUE, found |-> {}]

Busy(r) == request[r].at # "idle"

(* A request arrives: r is the only one to be alone, if any. *)
Receive(r, at, kind, by, user, asked) ==
    /\ serving
    /\ ~Busy(r)
    /\ request' =
          [q \in Requests |->
              IF q = r
              THEN [at |-> at, kind |-> kind, by |-> by, user |-> user, asked |-> asked,
                    writes |-> Nothing, alone |-> \A p \in Requests : ~Busy(p),
                    found |-> Registered]
              ELSE IF Busy(q) THEN [request[q] EXCEPT !.alone = FALSE] ELSE request[q]]
    /\ UNCHANGED <<users, tokens, serving>>

(* It is answered, or an exception ends it and rolls its work back. *)
Respond(r) == request' = [request EXCEPT ![r] = Idle]

-----------------------------------------------------------------------------
(* Who may do what *)

(* get_current_user: the token names an account, whose row decides. *)
Authenticated(by) == tokens[by] # "none" /\ users[by].active

(* Mutation of Administrates: the role is taken from the token. *)
AdministratesByToken(by) ==
    /\ Authenticated(by)
    /\ ~users[by].mustChange
    /\ tokens[by] = "admin"

(* require_role("admin"), which requires a changed password. *)
Administrates(by) ==
    /\ Authenticated(by)
    /\ ~users[by].mustChange
    /\ users[by].role = "admin"

(* Mutation of OwnRowGuard: nothing is refused. *)
NoOwnRowGuard(by, user, asked) == TRUE

(* Nobody deactivates themself or changes their own role, as it was read   *)
(* when the request was authorized.                                        *)
OwnRowGuard(by, user, asked) ==
    user = by =>
        /\ "active" \in DOMAIN asked => asked.active
        /\ "role" \in DOMAIN asked => asked.role = users[by].role

-----------------------------------------------------------------------------
(* The requests *)

(* Sign-up is public; the user has chosen the password. *)
SignUp(r, user) ==
    Receive(r, "count", "signup", NoEmail, user, Nothing)

(* What a sign-up inserts. *)
SelfMade(role) == [role |-> role, active |-> TRUE, mustChange |-> FALSE]

(* Mutation of CountUsers: the account counts itself. *)
CountWithItself(r) ==
    LET role == IF Cardinality(Registered) <= 1 THEN "admin" ELSE "viewer"
    IN  /\ request[r].at = "count"
        /\ request' = [request EXCEPT ![r].at = "insert", ![r].writes = SelfMade(role)]
        /\ UNCHANGED <<users, tokens, serving>>

(* The first account becomes an administrator. *)
CountUsers(r) ==
    LET role == IF Registered = {} THEN "admin" ELSE "viewer"
    IN  /\ request[r].at = "count"
        /\ request' = [request EXCEPT ![r].at = "insert", ![r].writes = SelfMade(role)]
        /\ UNCHANGED <<users, tokens, serving>>

(* An administrator adds an account with a temporary password. *)
Register(r, by, user, role) ==
    /\ Administrates(by)
    /\ Receive(r, "create", "register", by, user,
               [role |-> role, active |-> TRUE, mustChange |-> TRUE])

(* create_user has nothing to read first. *)
CreateUser(r) ==
    /\ request[r].at = "create"
    /\ request' = [request EXCEPT ![r].at = "insert", ![r].writes = request[r].asked]
    /\ UNCHANGED <<users, tokens, serving>>

(* The INSERT: an e-mail that is taken is refused, by the look-up before   *)
(* it or by the unique column.                                             *)
Insert(r) ==
    /\ request[r].at = "insert"
    /\ LET user == request[r].user
       IN  \/ /\ user \notin Registered
              /\ users' = [users EXCEPT ![user] = request[r].writes]
              /\ IF request[r].kind = "signup"
                 THEN request' = [request EXCEPT ![r].at = "record"]
                 ELSE Respond(r)
           \/ /\ user \in Registered
              /\ Respond(r)
              /\ UNCHANGED users
    /\ UNCHANGED <<tokens, serving>>

(* patch_user: a role, an active state, or both. *)
Patch(r, by, user, asked) ==
    /\ Administrates(by)
    /\ OwnRowGuard(by, user, asked)
    /\ Receive(r, "select", "patch", by, user, asked)

(* delete_user deactivates. *)
Delete(r, by, user) ==
    /\ Administrates(by)
    /\ user # by
    /\ Receive(r, "select", "delete", by, user, [active |-> FALSE])

(* change_password, which a temporary password does not bar. *)
ChangePassword(r, by) ==
    /\ Authenticated(by)
    /\ Receive(r, "select", "password", by, by, [mustChange |-> FALSE])

(* Mutation of Select: every column is written back. *)
SelectAllColumns(r) ==
    LET row == users[request[r].user]
    IN  /\ request[r].at = "select"
        /\ IF row = NoUser THEN Respond(r)
           ELSE request' = [request EXCEPT ![r].at = "update",
                                           ![r].writes = Written(row, request[r].asked)]
        /\ UNCHANGED <<users, tokens, serving>>

(* session.get reads the row afresh; the columns that are to differ from   *)
(* what it read will be written.  An unknown user, or a wrong password,    *)
(* ends the request.                                                       *)
Select(r) ==
    LET row == users[request[r].user]
        asked == request[r].asked
        differing == {f \in DOMAIN asked : asked[f] # row[f]}
    IN  /\ request[r].at = "select"
        /\ \/ /\ row # NoUser
              /\ request' = [request EXCEPT ![r].at = "update",
                                            ![r].writes = [f \in differing |-> asked[f]]]
           \/ /\ row = NoUser \/ request[r].kind = "password"
              /\ Respond(r)
        /\ UNCHANGED <<users, tokens, serving>>

(* UPDATE and COMMIT *)
Update(r) ==
    /\ request[r].at = "update"
    /\ users' = [users EXCEPT ![request[r].user] = Written(@, request[r].writes)]
    /\ Respond(r)
    /\ UNCHANGED <<tokens, serving>>

(* Login: an active user with the right password. *)
Login(r, user) ==
    /\ users[user].active
    /\ Receive(r, "record", "login", NoEmail, user, [role |-> users[user].role])

(* The login is recorded and the token handed over. *)
RecordLogin(r) ==
    LET user == request[r].user
        role == IF request[r].kind = "login" THEN request[r].asked.role
                                             ELSE request[r].writes.role
    IN  /\ request[r].at = "record"
        /\ tokens' = [tokens EXCEPT ![user] = role]
        /\ Respond(r)
        /\ UNCHANGED <<users, serving>>

-----------------------------------------------------------------------------
(* lifespan: bootstrap_admin inserts the first administrator if the table  *)
(* is empty, before any request is served.                                 *)
Start ==
    /\ ~serving
    /\ serving' = TRUE
    /\ \E first \in FirstAdmins :
          users' = IF Registered = {} /\ first # NoEmail
                   THEN [users EXCEPT ![first] =
                            [role |-> "admin", active |-> TRUE, mustChange |-> TRUE]]
                   ELSE users
    /\ UNCHANGED <<tokens, request>>

(* The server stops; what it had not committed is gone. *)
Stop ==
    /\ serving
    /\ serving' = FALSE
    /\ request' = [r \in Requests |-> Idle]
    /\ UNCHANGED <<users, tokens>>

Init ==
    /\ users = [e \in Emails |-> NoUser]
    /\ tokens = [e \in Emails |-> "none"]
    /\ request = [r \in Requests |-> Idle]
    /\ serving = FALSE

(* What a patch may ask for. *)
Patches ==
    [role : Roles] \cup [active : BOOLEAN] \cup [role : Roles, active : BOOLEAN]

Arrive(r) ==
    \/ \E user \in Emails : SignUp(r, user) \/ Login(r, user)
    \/ \E by, user \in Emails :
          \/ \E role \in Roles : Register(r, by, user, role)
          \/ \E asked \in Patches : Patch(r, by, user, asked)
          \/ Delete(r, by, user)
    \/ \E by \in Emails : ChangePassword(r, by)

Handle(r) ==
    CountUsers(r) \/ CreateUser(r) \/ Insert(r) \/ Select(r) \/ Update(r) \/ RecordLogin(r)

Next ==
    \/ \E r \in Requests : Arrive(r) \/ Handle(r)
    \/ Start
    \/ Stop

Spec == Init /\ [][Next]_vars

-----------------------------------------------------------------------------
(* Properties *)

Row == [role : Roles, active : BOOLEAN, mustChange : BOOLEAN]

(* Every row is one the schema allows, every request where its kind goes,  *)
(* and a token is of an account.                                           *)
TypeOK ==
    /\ users \in [Emails -> Row \cup {NoUser}]
    /\ tokens \in [Emails -> Roles \cup {"none"}]
    /\ \A e \in Emails : tokens[e] # "none" => e \in Registered
    /\ \A r \in Requests : request[r].at \in
          {"idle", "count", "create", "insert", "select", "update", "record"}
    /\ serving \in BOOLEAN

(* An administrator cannot lock everyone out, however requests overlap:    *)
(* the last active administrator falls only to the request of someone who  *)
(* was an administrator when it was authorized and has ceased to be one    *)
(* since, as when two administrators demote each other.                    *)
LastAdminStands ==
    [][\A r \in Requests :
          /\ Update(r)
          /\ \E e \in Emails : Admin(users[e])
          => \/ \E e \in Emails : Admin(users'[e])
             \/ /\ request[r].kind \in {"patch", "delete"}
                /\ request[r].user # request[r].by
                /\ ~Admin(users[request[r].by])]_vars

(* Self-service never makes a second administrator once anyone has an      *)
(* account: however sign-ups and other requests overlap, whoever makes     *)
(* themself one signed up while there was no account at all, and the first *)
(* account is one.                                                         *)
FirstIsAdmin ==
    [][\A r \in Requests :
          LET user == request[r].user
          IN  /\ Insert(r) /\ request[r].kind = "signup"
              /\ user \notin Registered
              => /\ Registered = {} => users'[user].role = "admin"
                 /\ users'[user].role = "admin" => request[r].found = {}]_vars

(* Nobody acts on rights they have lost, whatever their token says: a      *)
(* change of another account that nothing overlaps is made by one who is   *)
(* an active administrator, with a password of their own, at that moment.  *)
OnlyAdminsAdminister ==
    [][\A r \in Requests :
          /\ Update(r) \/ Insert(r)
          /\ users' # users
          /\ request[r].alone
          /\ request[r].kind \in {"register", "patch", "delete"}
          => /\ Admin(users[request[r].by])
             /\ ~users[request[r].by].mustChange]_vars

(* No lost update: a column of an account changes only to what the request *)
(* that changes it was asked for.  A deactivation is not undone by a       *)
(* change of role or password that was under way.                          *)
ChangesAreAskedFor ==
    [][\A e \in Registered : \A f \in DOMAIN users[e] :
          users'[e][f] # users[e][f] =>
              \E r \in Requests :
                  /\ request[r].user = e
                  /\ f \in DOMAIN request[r].asked
                  /\ request[r].asked[f] = users'[e][f]]_vars
=============================================================================
