--------------------------- MODULE AccountsProofs ---------------------------
(***************************************************************************)
(* What the account routes guarantee for every set of people, roles and    *)
(* overlapping requests.  The inductive invariant says what a request has  *)
(* found out and may still rely on: that an account there was is there     *)
(* holds whatever overlaps; one that is alone acts on the rows it was      *)
(* authorized by, since only another request could change them.            *)
(***************************************************************************)
EXTENDS Accounts, TLAPS

Administration == {"register", "patch", "delete"}

(* The rows are the ones the schema allows. *)
Rows == users \in [Emails -> Row \cup {NoUser}]

(* What a request may ask for or write: values of some of the columns.     *)
Columns == {"role", "active", "mustChange"}
Changes == UNION {[columns -> Roles \cup BOOLEAN] : columns \in SUBSET Columns}

(* Every request has all its fields. *)
Request ==
    [at : {"idle", "count", "create", "insert", "select", "update", "record"},
     kind : {"none", "signup", "login", "register", "patch", "delete", "password"},
     by : Emails \cup {NoEmail}, user : Emails \cup {NoEmail},
     asked : Changes, writes : Changes, alone : BOOLEAN, found : SUBSET Emails]

Shape == request \in [Requests -> Request]

(* The values a request may write. *)
Sensible(change) ==
    /\ "role" \in DOMAIN change => change["role"] \in Roles
    /\ "active" \in DOMAIN change => change["active"] \in BOOLEAN
    /\ "mustChange" \in DOMAIN change => change["mustChange"] \in BOOLEAN

(* A request does what its kind does, in its order, to an account.         *)
Orderly(r) ==
    LET q == request[r]
    IN  /\ q.at # "idle" => q.user \in Emails
        /\ q.at # "idle" /\ q.kind \in Administration => q.by \in Emails
        /\ q.at = "count" => q.kind = "signup"
        /\ q.at = "create" => q.kind = "register" /\ q.asked \in Row
        /\ q.at = "insert" => q.kind \in {"signup", "register"} /\ q.writes \in Row
        /\ q.at \in {"select", "update"} =>
              q.kind \in {"patch", "delete", "password"} /\ Sensible(q.asked)
        /\ q.at \in {"select", "update"} /\ q.kind = "password" =>
              DOMAIN q.asked = {"mustChange"}
        /\ q.at = "update" => /\ users[q.user] # NoUser
                              /\ DOMAIN q.writes \subseteq DOMAIN q.asked
                              /\ \A f \in DOMAIN q.writes : q.writes[f] = q.asked[f]
        /\ q.at = "record" =>
              /\ users[q.user] # NoUser
              /\ q.kind = "login" => q.asked["role"] \in Roles
              /\ q.kind # "login" => q.writes["role"] \in Roles
        /\ q.kind \in {"patch", "delete"} /\ q.user = q.by =>
              /\ "active" \in DOMAIN q.asked => q.asked["active"]
              /\ "role" \in DOMAIN q.asked => q.asked["role"] = "admin"
        /\ q.at # "idle" => \A e \in q.found : users[e] # NoUser
        /\ q.at = "insert" /\ q.kind = "signup" =>
              /\ q.writes["role"] = "admin" => q.found = {}
              /\ q.writes["role"] # "admin" => \E e \in Emails : users[e] # NoUser

(* What a request that is alone has read still holds.                      *)
Current(r) ==
    LET q == request[r]
    IN  q.at # "idle" /\ q.alone =>
           /\ \A p \in Requests \ {r} : request[p].at = "idle"
           /\ q.kind \in Administration =>
                 Admin(users[q.by]) /\ ~users[q.by].mustChange

Tokens ==
    /\ tokens \in [Emails -> Roles \cup {"none"}]
    /\ \A e \in Emails : tokens[e] # "none" => users[e] # NoUser

AccountsInv ==
    /\ Rows /\ Shape /\ Tokens
    /\ serving \in BOOLEAN
    /\ \A r \in Requests : Busy(r) => serving
    /\ \A r \in Requests : Orderly(r)
    /\ \A r \in Requests : Current(r)

LEMMA NoUserIsNoRow == NoUser \notin Row
  BY AccountsAssumption DEF NoUser, Row

LEMMA SomeChanges ==
  /\ Nothing \in Changes
  /\ \A role \in Roles : [role |-> role] \in Changes
  /\ \A active \in BOOLEAN : [active |-> active] \in Changes
  /\ \A role \in Roles, active \in BOOLEAN : [role |-> role, active |-> active] \in Changes
  /\ [mustChange |-> FALSE] \in Changes
  /\ Row \subseteq Changes
<1> DEFINE V == Roles \cup BOOLEAN
<1>1. \A columns \in SUBSET Columns : \A c \in [columns -> V] : c \in Changes
  BY DEF Changes
<1>2. Nothing \in [{} -> V] /\ {} \in SUBSET Columns
  BY DEF Nothing
<1>3. \A role \in Roles : [role |-> role] \in [{"role"} -> V]
  OBVIOUS
<1>4. \A active \in BOOLEAN : [active |-> active] \in [{"active"} -> V]
  OBVIOUS
<1>5. \A role \in Roles, active \in BOOLEAN :
         [role |-> role, active |-> active] \in [{"role", "active"} -> V]
  OBVIOUS
<1>6. \A b \in BOOLEAN : [mustChange |-> b] \in [{"mustChange"} -> V]
  OBVIOUS
<1>7. Row \subseteq [Columns -> V]
  <2> SUFFICES ASSUME NEW row \in Row PROVE row \in [Columns -> V]
    OBVIOUS
  <2>1. /\ row = [f \in {"role", "active", "mustChange"} |-> row[f]]
        /\ row["role"] \in Roles /\ row["active"] \in BOOLEAN /\ row["mustChange"] \in BOOLEAN
    BY DEF Row
  <2> QED BY <2>1 DEF Columns
<1>8. /\ {"role"} \in SUBSET Columns /\ {"active"} \in SUBSET Columns
      /\ {"role", "active"} \in SUBSET Columns /\ {"mustChange"} \in SUBSET Columns
      /\ Columns \in SUBSET Columns
  BY DEF Columns
<1> HIDE DEF V
<1>9. /\ \A c \in [{} -> V] : c \in Changes
      /\ \A c \in [{"role"} -> V] : c \in Changes
      /\ \A c \in [{"active"} -> V] : c \in Changes
      /\ \A c \in [{"role", "active"} -> V] : c \in Changes
      /\ \A c \in [{"mustChange"} -> V] : c \in Changes
      /\ \A c \in [Columns -> V] : c \in Changes
  BY <1>1, <1>2, <1>8, Zenon
<1> QED BY <1>2, <1>3, <1>4, <1>5, <1>6, <1>7, <1>9, Zenon

LEMMA AccountsInit == Init => AccountsInv
<1> SUFFICES ASSUME Init PROVE AccountsInv
  OBVIOUS
<1>1. Rows /\ Tokens /\ serving \in BOOLEAN
  BY DEF Init, Rows, Tokens
<1>2. Shape
  BY SomeChanges DEF Init, Shape, Request, Idle
<1>3. \A r \in Requests : Orderly(r) /\ Current(r) /\ ~Busy(r)
  BY DEF Init, Idle, Orderly, Current, Busy
<1> QED BY <1>1, <1>2, <1>3 DEF AccountsInv

(* An account that exists is not removed, and others' requests stay what   *)
(* they were: a step of a busy request keeps the invariant for the others, *)
(* none of which is alone.                                                 *)
LEMMA OthersKeep ==
  ASSUME AccountsInv, NEW r \in Requests, Busy(r),
         \A q \in Requests \ {r} : request'[q] = request[q],
         \A e \in Emails : users[e] # NoUser => users'[e] # NoUser
  PROVE  \A q \in Requests \ {r} : Orderly(q)' /\ Current(q)'
<1> SUFFICES ASSUME NEW q \in Requests \ {r} PROVE Orderly(q)' /\ Current(q)'
  OBVIOUS
<1>1. Orderly(q)'
  <2>1. request'[q] = request[q] /\ Orderly(q)
    BY DEF AccountsInv
  <2>2. request[q].found \subseteq Emails
    BY DEF AccountsInv, Shape, Request
  <2> QED BY <2>1, <2>2 DEF Orderly
<1>2. Current(q)'
  BY DEF AccountsInv, Current, Busy
<1> QED BY <1>1, <1>2

(* How the fields of one request change.                                   *)
LEMMA OneRequestChanges ==
  ASSUME Shape, NEW r \in Requests, NEW writes \in Changes,
         NEW at \in {"insert", "update"},
         request' = [request EXCEPT ![r].at = at, ![r].writes = writes]
  PROVE  /\ Shape'
         /\ \A q \in Requests \ {r} : request'[q] = request[q]
         /\ request'[r].at = at /\ request'[r].writes = writes
         /\ request'[r].kind = request[r].kind /\ request'[r].by = request[r].by
         /\ request'[r].user = request[r].user /\ request'[r].asked = request[r].asked
         /\ request'[r].alone = request[r].alone /\ request'[r].found = request[r].found
  BY DEF Shape, Request

LEMMA RequestResponded ==
  ASSUME Shape, NEW r \in Requests, Respond(r)
  PROVE  /\ Shape'
         /\ \A q \in Requests \ {r} : request'[q] = request[q]
         /\ Orderly(r)' /\ Current(r)'
<1>1. request'[r] = Idle /\ \A q \in Requests \ {r} : request'[q] = request[q]
  BY DEF Shape, Respond
<1>2. Shape'
  BY SomeChanges DEF Shape, Request, Respond, Idle
<1>3. Orderly(r)' /\ Current(r)'
  BY <1>1 DEF Idle, Orderly, Current
<1> QED BY <1>1, <1>2, <1>3

(* A request arrives with what its kind brings.                            *)
LEMMA ReceiveKeeps ==
  ASSUME AccountsInv, NEW r \in Requests, NEW at,
         NEW kind \in {"signup", "login", "register", "patch", "delete", "password"},
         NEW by \in Emails \cup {NoEmail}, NEW user \in Emails,
         NEW asked \in Changes, Receive(r, at, kind, by, user, asked),
         at \in {"count", "create", "select", "record"},
         kind \in Administration => /\ by \in Emails /\ Admin(users[by])
                                    /\ ~users[by].mustChange,
         at = "count" => kind = "signup",
         at = "create" => kind = "register" /\ asked \in Row,
         at = "select" => kind \in {"patch", "delete", "password"} /\ Sensible(asked),
         at = "select" /\ kind = "password" => DOMAIN asked = {"mustChange"},
         at = "record" => kind = "login" /\ users[user] # NoUser /\ asked["role"] \in Roles,
         kind \in {"patch", "delete"} /\ user = by =>
            /\ "active" \in DOMAIN asked => asked["active"]
            /\ "role" \in DOMAIN asked => asked["role"] = "admin"
  PROVE  AccountsInv'
<1>1. UNCHANGED <<users, tokens, serving>>
  BY DEF Receive
<1>2. Rows' /\ Tokens' /\ serving' \in BOOLEAN
  BY <1>1 DEF AccountsInv, Rows, Tokens
<1> DEFINE lone == \A p \in Requests : ~Busy(p)
<1>3. /\ request'[r] = [at |-> at, kind |-> kind, by |-> by, user |-> user, asked |-> asked,
                        writes |-> Nothing, alone |-> lone, found |-> Registered]
      /\ \A q \in Requests \ {r} :
            request'[q] = IF Busy(q) THEN [request[q] EXCEPT !.alone = FALSE] ELSE request[q]
      /\ ~Busy(r)
  BY DEF Receive
<1>4. \A q \in Requests \ {r} :
         /\ request'[q].at = request[q].at /\ request'[q].kind = request[q].kind
         /\ request'[q].by = request[q].by /\ request'[q].user = request[q].user
         /\ request'[q].asked = request[q].asked /\ request'[q].writes = request[q].writes
         /\ request'[q].alone \in BOOLEAN /\ request'[q].found = request[q].found
         /\ Busy(q) => request'[q].alone = FALSE
  <2> SUFFICES ASSUME NEW q \in Requests \ {r}
               PROVE  /\ request'[q].at = request[q].at /\ request'[q].kind = request[q].kind
                      /\ request'[q].by = request[q].by /\ request'[q].user = request[q].user
                      /\ request'[q].asked = request[q].asked
                      /\ request'[q].writes = request[q].writes
                      /\ request'[q].alone \in BOOLEAN
                      /\ request'[q].found = request[q].found
                      /\ Busy(q) => request'[q].alone = FALSE
    OBVIOUS
  <2>1. request[q] \in Request
    BY DEF AccountsInv, Shape
  <2>2. CASE Busy(q)
    BY <1>3, <2>1, <2>2 DEF Request
  <2>3. CASE ~Busy(q)
    BY <1>3, <2>1, <2>3 DEF Request
  <2> QED BY <2>2, <2>3
<1>5. Shape'
  <2>1. request'[r] \in Request
    <3>1. lone \in BOOLEAN /\ Registered \in SUBSET Emails
      BY DEF Registered
    <3> HIDE DEF lone
    <3> QED BY <1>3, <3>1, SomeChanges DEF Request
  <2>2. ASSUME NEW q \in Requests \ {r} PROVE request'[q] \in Request
    <3>1. request[q] \in Request /\ [request[q] EXCEPT !.alone = FALSE] \in Request
      BY DEF AccountsInv, Shape, Request
    <3> QED BY <1>3, <3>1
  <2>3. request' = [q \in Requests |-> request'[q]]
    BY DEF Receive
  <2> QED BY <2>1, <2>2, <2>3 DEF Shape
<1>6. \A q \in Requests \ {r} : Orderly(q)'
  BY <1>1, <1>4 DEF AccountsInv, Orderly
<1>7. \A q \in Requests \ {r} : Current(q)'
  BY <1>4 DEF Current, Busy
<1>8. /\ request'[r].at = at /\ request'[r].kind = kind /\ request'[r].by = by
      /\ request'[r].user = user /\ request'[r].asked = asked
      /\ request'[r].alone = lone /\ request'[r].found = Registered
  <2> HIDE DEF lone
  <2> QED BY <1>3
<1>9. Orderly(r)'
  <2>1. at \notin {"idle", "insert", "update"}
    OBVIOUS
  <2>2. users'[user] = users[user] /\ \A e \in Registered : users'[e] # NoUser
    BY <1>1 DEF Registered
  <2> QED BY <1>8, <2>1, <2>2 DEF Orderly, Administration, Sensible
<1>10. Current(r)'
  <2>1. ASSUME request'[r].alone, NEW p \in Requests \ {r} PROVE request'[p].at = "idle"
    <3>1. lone
      <4> HIDE DEF lone
      <4> QED BY <1>8, <2>1
    <3> QED BY <1>4, <3>1 DEF Busy
  <2>2. at \notin {"idle", "insert"} /\ UNCHANGED users
    BY <1>1
  <2> QED BY <1>8, <2>1, <2>2 DEF Current, Administration, Admin
<1>11. serving'
  BY <1>1 DEF Receive
<1> QED BY <1>2, <1>5, <1>6, <1>7, <1>9, <1>10, <1>11 DEF AccountsInv

LEMMA ArriveKeeps ==
  ASSUME AccountsInv, NEW r \in Requests, Arrive(r)
  PROVE  AccountsInv'
<1>1. Rows
  BY DEF AccountsInv
<1>2. ASSUME NEW by \in Emails, Administrates(by)
      PROVE  Admin(users[by]) /\ ~users[by].mustChange
  BY <1>2 DEF Administrates, Authenticated, Admin
<1>3. ASSUME NEW user \in Emails, SignUp(r, user) PROVE AccountsInv'
  <2>1. Receive(r, "count", "signup", NoEmail, user, Nothing)
    BY <1>3 DEF SignUp
  <2>2. "signup" \notin Administration /\ Nothing \in Changes
    BY SomeChanges DEF Administration
  <2> QED BY <2>1, <2>2, ReceiveKeeps DEF Administration
<1>4. ASSUME NEW user \in Emails, Login(r, user) PROVE AccountsInv'
  <2>1. users[user] # NoUser /\ users[user].role \in Roles
    BY <1>1, <1>4 DEF Login, Rows, Row, NoUser
  <2> DEFINE asked == [role |-> users[user].role]
  <2>2. asked \in Changes /\ asked["role"] \in Roles
    BY <2>1, SomeChanges
  <2> HIDE DEF asked
  <2>3. Receive(r, "record", "login", NoEmail, user, asked)
    BY <1>4 DEF Login, asked
  <2> QED BY <2>1, <2>2, <2>3, ReceiveKeeps DEF Administration
<1>5. ASSUME NEW by \in Emails, NEW user \in Emails, NEW role \in Roles,
             Register(r, by, user, role)
      PROVE  AccountsInv'
  <2> DEFINE row == [role |-> role, active |-> TRUE, mustChange |-> TRUE]
  <2>1. row \in Row /\ row \in Changes
    BY SomeChanges DEF Row
  <2> HIDE DEF row
  <2>2. Receive(r, "create", "register", by, user, row)
    BY <1>5 DEF Register, row
  <2> QED BY <1>2, <1>5, <2>1, <2>2, ReceiveKeeps DEF Register, Administration
<1>6. ASSUME NEW by \in Emails, NEW user \in Emails, NEW asked \in Patches,
             Patch(r, by, user, asked)
      PROVE  AccountsInv'
  <2>1. asked \in Changes /\ Sensible(asked)
    BY SomeChanges DEF Patches, Sensible
  <2>2. user = by =>
           /\ "active" \in DOMAIN asked => asked["active"]
           /\ "role" \in DOMAIN asked => asked["role"] = "admin"
    BY <1>6, <1>2 DEF Patch, OwnRowGuard, Admin
  <2> QED BY <1>2, <1>6, <2>1, <2>2, ReceiveKeeps DEF Patch, Administration
<1>7. ASSUME NEW by \in Emails, NEW user \in Emails, Delete(r, by, user)
      PROVE  AccountsInv'
  <2> DEFINE asked == [active |-> FALSE]
  <2>1. asked \in Changes /\ Sensible(asked)
    BY SomeChanges DEF Sensible
  <2> HIDE DEF asked
  <2>2. Receive(r, "select", "delete", by, user, asked) /\ user # by
    BY <1>7 DEF Delete, asked
  <2> QED BY <1>2, <1>7, <2>1, <2>2, ReceiveKeeps DEF Delete, Administration
<1>8. ASSUME NEW by \in Emails, ChangePassword(r, by) PROVE AccountsInv'
  <2> DEFINE asked == [mustChange |-> FALSE]
  <2>1. asked \in Changes /\ Sensible(asked) /\ DOMAIN asked = {"mustChange"}
    BY SomeChanges DEF Sensible
  <2> HIDE DEF asked
  <2>2. Receive(r, "select", "password", by, by, asked)
    BY <1>8 DEF ChangePassword, asked
  <2> QED BY <2>1, <2>2, ReceiveKeeps DEF Administration
<1> QED BY <1>3, <1>4, <1>5, <1>6, <1>7, <1>8 DEF Arrive

(* A step that ends a request, or that only reads.                         *)
LEMMA HandleKeeps ==
  ASSUME AccountsInv, NEW r \in Requests, Handle(r)
  PROVE  AccountsInv'
<1>1. Rows /\ Shape /\ Tokens /\ Orderly(r) /\ Current(r) /\ serving \in BOOLEAN
  BY DEF AccountsInv
<1>2. request[r] \in Request /\ serving' = serving /\ serving'
  BY <1>1 DEF Shape, Handle, CountUsers, CreateUser, Insert, Select, Update, RecordLogin,
              AccountsInv, Busy
<1>3. ASSUME UNCHANGED users, Respond(r), Busy(r), Tokens' PROVE AccountsInv'
  BY <1>1, <1>2, <1>3, RequestResponded, OthersKeep DEF AccountsInv, Rows
<1>4. ASSUME NEW writes \in Changes, NEW at \in {"insert", "update"}, Busy(r),
             request' = [request EXCEPT ![r].at = at, ![r].writes = writes],
             UNCHANGED <<users, tokens>>, Orderly(r)', Current(r)'
      PROVE  AccountsInv'
  BY <1>1, <1>2, <1>4, OneRequestChanges, OthersKeep DEF AccountsInv, Rows, Tokens
<1>5. CASE CountUsers(r)
  <2>1. PICK role \in {"admin", "viewer"} :
           /\ role = (IF Registered = {} THEN "admin" ELSE "viewer")
           /\ request' = [request EXCEPT ![r].at = "insert", ![r].writes = SelfMade(role)]
    BY <1>5 DEF CountUsers
  <2>2. SelfMade(role) \in Row /\ SelfMade(role)["role"] = role
    BY AccountsAssumption DEF SelfMade, Row
  <2>3. SelfMade(role) \in Changes
    BY <2>2, SomeChanges
  <2>4. UNCHANGED <<users, tokens>> /\ Registered' = Registered
    BY <1>5 DEF CountUsers, Registered
  <2>5. Busy(r) /\ request[r].kind = "signup" /\ request[r].user \in Emails
    BY <1>1, <1>5 DEF CountUsers, Orderly, Busy
  <2>6. /\ request'[r].at = "insert" /\ request'[r].writes = SelfMade(role)
        /\ request'[r].kind = "signup" /\ request'[r].user = request[r].user
        /\ request'[r].alone = request[r].alone /\ request'[r].found = request[r].found
        /\ \A q \in Requests \ {r} : request'[q] = request[q]
    BY <1>1, <2>1, <2>3, <2>5, OneRequestChanges
  <2>7. Orderly(r)'
    <3>1. request[r].found \subseteq Registered
      BY <1>1, <1>2, <2>5 DEF Orderly, Busy, Request, Registered
    <3>2. role = "admin" => request[r].found = {}
      BY <2>1, <3>1
    <3>3. role # "admin" => \E e \in Emails : users'[e] # NoUser
      BY <2>1, <2>4 DEF Registered
    <3>4. \A e \in request[r].found : users'[e] # NoUser
      BY <2>4, <3>1 DEF Registered
    <3> QED BY <2>2, <2>5, <2>6, <3>2, <3>3, <3>4 DEF Orderly, Administration
  <2>8. Current(r)'
    BY <1>1, <2>1, <2>2, <2>4, <2>5, <2>6 DEF Current, Administration, Busy
  <2> QED BY <1>4, <2>1, <2>3, <2>4, <2>5, <2>7, <2>8
<1>6. CASE CreateUser(r)
  <2>1. /\ request' = [request EXCEPT ![r].at = "insert", ![r].writes = request[r].asked]
        /\ request[r].asked \in Row /\ request[r].asked \in Changes
        /\ Busy(r) /\ request[r].kind = "register" /\ request[r].user \in Emails
        /\ UNCHANGED <<users, tokens>>
    BY <1>1, <1>6, SomeChanges DEF CreateUser, Orderly, Busy
  <2>2. /\ request'[r].at = "insert" /\ request'[r].writes = request[r].asked
        /\ request'[r].kind = "register" /\ request'[r].user = request[r].user
        /\ request'[r].by = request[r].by /\ request'[r].alone = request[r].alone
        /\ request'[r].found = request[r].found
        /\ \A q \in Requests \ {r} : request'[q] = request[q]
    BY <1>1, <2>1, OneRequestChanges
  <2>3. Orderly(r)'
    BY <1>1, <2>1, <2>2 DEF Orderly, Administration, Busy
  <2>4. Current(r)'
    BY <1>1, <2>1, <2>2 DEF Current, Administration, Busy
  <2> QED BY <1>4, <2>1, <2>3, <2>4
<1>7. CASE Select(r)
  <2>1. Busy(r) /\ UNCHANGED <<users, tokens>>
    BY <1>7 DEF Select, Busy
  <2>2. CASE Respond(r)
    BY <1>1, <1>3, <2>1, <2>2 DEF Tokens
  <2>3. CASE ~Respond(r)
    <3> DEFINE asked == request[r].asked
               differing == {f \in DOMAIN asked : asked[f] # users[request[r].user][f]}
               writes == [f \in differing |-> asked[f]]
    <3>1. /\ request' = [request EXCEPT ![r].at = "update", ![r].writes = writes]
          /\ users[request[r].user] # NoUser /\ request[r].at = "select"
      BY <1>7, <2>3 DEF Select
    <3>2. writes \in Changes
      <4>1. PICK columns \in SUBSET Columns : asked \in [columns -> Roles \cup BOOLEAN]
        BY <1>2 DEF Request, Changes
      <4>2. differing \in SUBSET Columns /\ writes \in [differing -> Roles \cup BOOLEAN]
        BY <4>1
      <4> HIDE DEF writes, differing
      <4> QED BY <4>2 DEF Changes
    <3>3. DOMAIN writes \subseteq DOMAIN asked /\ \A f \in DOMAIN writes : writes[f] = asked[f]
      OBVIOUS
    <3> HIDE DEF writes, differing
    <3>4. /\ request'[r].at = "update" /\ request'[r].writes = writes
          /\ request'[r].kind = request[r].kind /\ request'[r].by = request[r].by
          /\ request'[r].user = request[r].user /\ request'[r].asked = asked
          /\ request'[r].alone = request[r].alone
          /\ request'[r].found = request[r].found
          /\ \A q \in Requests \ {r} : request'[q] = request[q]
      BY <1>1, <3>1, <3>2, OneRequestChanges
    <3>5. Orderly(r)'
      <4>1. /\ request[r].user \in Emails /\ Sensible(asked)
            /\ request[r].kind \in {"patch", "delete", "password"}
            /\ request[r].kind \in Administration => request[r].by \in Emails
            /\ request[r].kind = "password" => DOMAIN asked = {"mustChange"}
            /\ request[r].kind \in {"patch", "delete"} /\ request[r].user = request[r].by =>
                  /\ "active" \in DOMAIN asked => asked["active"]
                  /\ "role" \in DOMAIN asked => asked["role"] = "admin"
        BY <1>1, <3>1 DEF Orderly
      <4>2. /\ users'[request[r].user] # NoUser
            /\ \A e \in request[r].found : users'[e] # NoUser
        BY <1>1, <2>1, <3>1 DEF Orderly
      <4> HIDE DEF asked
      <4> QED BY <3>3, <3>4, <4>1, <4>2 DEF Orderly
    <3>6. Current(r)'
      <4>1. users' = users /\ request[r].at # "idle" /\ Current(r)
        BY <1>1, <2>1, <3>1
      <4>2. \A p \in Requests \ {r} : request'[p].at = request[p].at
        BY <3>4
      <4>3. request'[r].asked = request[r].asked
        BY <3>4
      <4> HIDE DEF asked
      <4> QED BY <3>4, <4>1, <4>2, <4>3 DEF Current, Administration
    <3> QED BY <1>4, <2>1, <3>1, <3>2, <3>5, <3>6
  <2> QED BY <2>2, <2>3
<1>8. CASE Insert(r)
  <2> DEFINE user == request[r].user
  <2>1. /\ Busy(r) /\ request[r].at = "insert" /\ user \in Emails
        /\ request[r].writes \in Row /\ request[r].kind \in {"signup", "register"}
        /\ UNCHANGED <<tokens, serving>>
    BY <1>1, <1>8 DEF Insert, Busy, Orderly
  <2>2. CASE user \in Registered /\ Respond(r) /\ UNCHANGED users
    BY <1>1, <1>3, <2>1, <2>2 DEF Tokens
  <2>3. CASE user \notin Registered /\ users' = [users EXCEPT ![user] = request[r].writes]
    <3>1. /\ users'[user] = request[r].writes /\ users'[user] # NoUser
          /\ \A e \in Emails : users[e] # NoUser => users'[e] # NoUser
          /\ Rows'
      BY <1>1, <2>1, <2>3, NoUserIsNoRow DEF Rows, Registered
    <3>2. Tokens'
      BY <1>1, <2>1, <3>1 DEF Tokens
    <3>3. CASE Respond(r)
      BY <1>1, <1>2, <2>1, <3>1, <3>2, <3>3, RequestResponded, OthersKeep DEF AccountsInv
    <3>4. CASE request' = [request EXCEPT ![r].at = "record"] /\ request[r].kind = "signup"
      <4>1. /\ Shape'
            /\ request'[r].at = "record" /\ request'[r].kind = "signup"
            /\ request'[r].user = user /\ request'[r].writes = request[r].writes
            /\ request'[r].by = request[r].by /\ request'[r].alone = request[r].alone
            /\ request'[r].found = request[r].found
            /\ \A q \in Requests \ {r} : request'[q] = request[q]
        BY <1>1, <3>4 DEF Shape, Request
      <4>2. request[r].writes["role"] \in Roles
        BY <2>1 DEF Row
      <4>3. Orderly(r)'
        <5>1. users'[user] # NoUser /\ \A e \in request[r].found : users'[e] # NoUser
          BY <1>1, <1>2, <2>1, <3>1 DEF Orderly, Request
        <5> HIDE DEF user
        <5> QED BY <2>1, <4>1, <4>2, <5>1 DEF Orderly, Administration
      <4>4. Current(r)'
        BY <1>1, <2>1, <4>1 DEF Current, Administration
      <4> QED BY <1>1, <1>2, <2>1, <3>1, <3>2, <4>1, <4>3, <4>4, OthersKeep DEF AccountsInv
    <3> QED BY <1>8, <2>3, <3>3, <3>4 DEF Insert
  <2> QED BY <1>8, <2>2, <2>3 DEF Insert
<1>9. CASE Update(r)
  <2> DEFINE user == request[r].user
             row == Written(users[user], request[r].writes)
  <2>1. /\ Busy(r) /\ user \in Emails /\ users[user] \in Row
        /\ Sensible(request[r].asked)
        /\ DOMAIN request[r].writes \subseteq DOMAIN request[r].asked
        /\ \A f \in DOMAIN request[r].writes : request[r].writes[f] = request[r].asked[f]
        /\ Respond(r) /\ UNCHANGED <<tokens, serving>>
        /\ users' = [users EXCEPT ![user] = row]
    BY <1>1, <1>9 DEF Update, Busy, Orderly, Rows
  <2>2. row \in Row
    BY <2>1 DEF Written, Row, Sensible
  <2> HIDE DEF row
  <2>3. Rows' /\ \A e \in Emails : users[e] # NoUser => users'[e] # NoUser
    BY <1>1, <2>1, <2>2, NoUserIsNoRow DEF Rows
  <2>4. Tokens'
    BY <1>1, <2>1, <2>3 DEF Tokens
  <2> QED BY <1>1, <1>2, <2>1, <2>3, <2>4, RequestResponded, OthersKeep DEF AccountsInv
<1>10. CASE RecordLogin(r)
  <2>1. /\ Busy(r) /\ Respond(r) /\ UNCHANGED <<users, serving>>
        /\ users[request[r].user] # NoUser /\ request[r].user \in Emails
    BY <1>1, <1>10 DEF RecordLogin, Busy, Orderly
  <2>2. PICK role \in Roles : tokens' = [tokens EXCEPT ![request[r].user] = role]
    BY <1>1, <1>10 DEF RecordLogin, Orderly
  <2>3. Tokens'
    BY <1>1, <2>1, <2>2 DEF Tokens
  <2> QED BY <1>3, <2>1, <2>3
<1> QED BY <1>5, <1>6, <1>7, <1>8, <1>9, <1>10 DEF Handle

LEMMA AccountsStep == AccountsInv /\ [Next]_vars => AccountsInv'
<1> SUFFICES ASSUME AccountsInv, [Next]_vars PROVE AccountsInv'
  OBVIOUS
<1>1. CASE Start
  <2>1. UNCHANGED <<tokens, request>> /\ serving' = TRUE
    BY <1>1 DEF Start
  <2>2. CASE UNCHANGED users
    BY <2>1, <2>2
    DEF AccountsInv, Rows, Shape, Tokens, Orderly, Current, Registered, Busy
  <2>3. CASE users' # users
    <3>1. PICK first \in Emails :
             users' = [users EXCEPT ![first] =
                          [role |-> "admin", active |-> TRUE, mustChange |-> TRUE]]
      BY <1>1, <2>3, AccountsAssumption DEF Start
    <3>2. Rows' /\ \A e \in Emails : users[e] # NoUser => users'[e] # NoUser
      <4>1. [role |-> "admin", active |-> TRUE, mustChange |-> TRUE] \in Row
        BY AccountsAssumption DEF Row
      <4> QED BY <3>1, <4>1, NoUserIsNoRow DEF AccountsInv, Rows
    <3>3. \A r \in Requests : ~Busy(r)
      BY <1>1 DEF Start, AccountsInv
    <3> QED BY <2>1, <3>2, <3>3
        DEF AccountsInv, Shape, Tokens, Orderly, Current, Busy
  <2> QED BY <2>2, <2>3
<1>2. CASE Stop
  <2>1. UNCHANGED <<users, tokens>> /\ serving' = FALSE
    BY <1>2 DEF Stop
  <2>2. Shape'
    BY <1>2, SomeChanges DEF Stop, Idle, Shape, Request
  <2>3. \A r \in Requests : Orderly(r)' /\ Current(r)' /\ ~Busy(r)'
    BY <1>2 DEF Stop, Idle, Orderly, Current, Busy
  <2> QED BY <2>1, <2>2, <2>3 DEF AccountsInv, Rows, Tokens
<1>3. CASE UNCHANGED vars
  BY <1>3 DEF vars, AccountsInv, Rows, Shape, Tokens, Orderly, Current, Registered, Busy
<1> QED BY <1>1, <1>2, <1>3, ArriveKeeps, HandleKeeps DEF Next

LEMMA AccountsInvariance == Spec => []AccountsInv
  BY AccountsInit, AccountsStep, PTL DEF Spec

(* The rows and requests are what the schema and the routes allow.         *)
THEOREM AccountsTyped == Spec => []TypeOK
<1>1. AccountsInv => TypeOK
  BY DEF AccountsInv, Rows, Shape, Request, Tokens, TypeOK, Registered
<1> QED BY <1>1, AccountsInvariance, PTL

(* However requests overlap, the last active administrator falls only to   *)
(* someone who was one when their request was authorized and is one no     *)
(* longer: patch_user and delete_user refuse what would take one's own     *)
(* rights, whatever was committed since the guard was evaluated.           *)
THEOREM LastAdminAlwaysStands == Spec => LastAdminStands
<1> DEFINE Stands(r) ==
      /\ Update(r)
      /\ \E e \in Emails : Admin(users[e])
      => \/ \E e \in Emails : Admin(users'[e])
         \/ /\ request[r].kind \in {"patch", "delete"}
            /\ request[r].user # request[r].by
            /\ ~Admin(users[request[r].by])
<1>1. ASSUME AccountsInv, NEW r \in Requests PROVE Stands(r)
  <2> SUFFICES ASSUME Update(r), NEW e \in Emails, Admin(users[e]),
                      request[r].kind \in {"patch", "delete"}
                         /\ request[r].user # request[r].by
                         => Admin(users[request[r].by])
               PROVE  \E f \in Emails : Admin(users'[f])
    OBVIOUS
  <2> DEFINE user == request[r].user
             row == Written(users[user], request[r].writes)
  <2>1. /\ Orderly(r) /\ Rows /\ request[r].at = "update"
        /\ user \in Emails /\ users[user] \in Row
        /\ users' = [users EXCEPT ![user] = row]
    BY <1>1 DEF AccountsInv, Update, Orderly, Rows
  <2>2. /\ row.role = IF "role" \in DOMAIN request[r].writes THEN request[r].writes["role"]
                                                          ELSE users[user].role
        /\ row.active = IF "active" \in DOMAIN request[r].writes
                        THEN request[r].writes["active"] ELSE users[user].active
    BY <2>1 DEF Written, Row
  <2>3. ASSUME Admin(users[user]) => Admin(row) PROVE \E f \in Emails : Admin(users'[f])
    <3> HIDE DEF row
    <3> QED BY <2>1, <2>3 DEF Rows
  <2>4. CASE request[r].kind = "password"
    <3>1. "role" \notin DOMAIN request[r].writes /\ "active" \notin DOMAIN request[r].writes
      BY <2>1, <2>4 DEF Orderly
    <3>2. row.role = users[user].role /\ row.active = users[user].active
      BY <2>2, <3>1
    <3> HIDE DEF row
    <3> QED BY <2>3, <3>2 DEF Admin
  <2>5. CASE request[r].kind \in {"patch", "delete"} /\ user = request[r].by
    <3>1. Admin(users[user]) => Admin(row)
      BY <2>1, <2>2, <2>5 DEF Admin, Orderly
    <3> QED BY <2>3, <3>1
  <2>6. CASE request[r].kind \in {"patch", "delete"} /\ user # request[r].by
    <3>1. request[r].by \in Emails /\ Admin(users[request[r].by])
      BY <2>1, <2>6 DEF Orderly, Administration
    <3> HIDE DEF row
    <3> QED BY <2>1, <2>6, <3>1 DEF Rows
  <2> QED BY <2>1, <2>4, <2>5, <2>6 DEF Orderly
<1>2. AccountsInv /\ [Next]_vars => [\A r \in Requests : Stands(r)]_vars
  BY <1>1
<1> QED BY <1>2, AccountsInvariance, PTL DEF Spec, LastAdminStands

(* However sign-ups overlap, one that makes an administrator arrived while *)
(* there was no account, and the one that makes the first account makes    *)
(* an administrator (_signup_user counts the users before it inserts).     *)
THEOREM FirstIsAlwaysAdmin == Spec => FirstIsAdmin
<1> DEFINE First(r) ==
      LET user == request[r].user
      IN  /\ Insert(r) /\ request[r].kind = "signup"
          /\ user \notin Registered
          => /\ Registered = {} => users'[user].role = "admin"
             /\ users'[user].role = "admin" => request[r].found = {}
<1>1. ASSUME AccountsInv, NEW r \in Requests PROVE First(r)
  <2> SUFFICES ASSUME Insert(r), request[r].kind = "signup",
                      request[r].user \notin Registered
               PROVE  /\ Registered = {} => users'[request[r].user].role = "admin"
                      /\ users'[request[r].user].role = "admin" => request[r].found = {}
    OBVIOUS
  <2>1. /\ request[r].at = "insert" /\ request[r].user \in Emails
        /\ request[r].writes["role"] = "admin" => request[r].found = {}
        /\ request[r].writes["role"] # "admin" => Registered # {}
    BY <1>1 DEF AccountsInv, Insert, Orderly, Registered
  <2>2. users'[request[r].user] = request[r].writes
    BY <1>1, <2>1 DEF AccountsInv, Insert, Rows
  <2> QED BY <2>1, <2>2
<1>2. AccountsInv /\ [Next]_vars => [\A r \in Requests : First(r)]_vars
  BY <1>1
<1> QED BY <1>2, AccountsInvariance, PTL DEF Spec, FirstIsAdmin

(* Rights that are lost are lost at once, whatever a token says, but for   *)
(* requests that overlap the loss.                                         *)
THEOREM OnlyAdminsAdministerAlways == Spec => OnlyAdminsAdminister
<1> DEFINE Rightful(r) ==
      /\ Update(r) \/ Insert(r)
      /\ users' # users
      /\ request[r].alone
      /\ request[r].kind \in {"register", "patch", "delete"}
      => /\ Admin(users[request[r].by])
         /\ ~users[request[r].by].mustChange
<1>1. ASSUME AccountsInv, NEW r \in Requests PROVE Rightful(r)
  BY <1>1 DEF AccountsInv, Update, Insert, Current, Administration
<1>2. AccountsInv /\ [Next]_vars => [\A r \in Requests : Rightful(r)]_vars
  BY <1>1
<1> QED BY <1>2, AccountsInvariance, PTL DEF Spec, OnlyAdminsAdminister

(* However requests overlap, a column of an account changes only to what   *)
(* the request that changes it was asked for.                              *)
THEOREM ChangesAreAlwaysAskedFor == Spec => ChangesAreAskedFor
<1> DEFINE AskedFor ==
      \A e \in Registered : \A f \in DOMAIN users[e] :
          users'[e][f] # users[e][f] =>
              \E r \in Requests :
                  /\ request[r].user = e
                  /\ f \in DOMAIN request[r].asked
                  /\ request[r].asked[f] = users'[e][f]
<1>1. ASSUME AccountsInv, Next PROVE AskedFor
  <2> SUFFICES ASSUME NEW e \in Registered, NEW f \in DOMAIN users[e],
                      users'[e][f] # users[e][f]
               PROVE  \E r \in Requests :
                         /\ request[r].user = e
                         /\ f \in DOMAIN request[r].asked
                         /\ request[r].asked[f] = users'[e][f]
    OBVIOUS
  <2>1. Rows /\ e \in Emails /\ users[e] # NoUser /\ users'[e] # users[e]
    BY <1>1 DEF AccountsInv, Registered
  <2>2. PICK r \in Requests : Update(r)
    <3>1. ~Start
      BY <2>1 DEF Start, Registered
    <3>2. ~Stop
      BY <2>1 DEF Stop
    <3>3. PICK r \in Requests : Arrive(r) \/ Handle(r)
      BY <1>1, <3>1, <3>2 DEF Next
    <3>4. ~Arrive(r)
      BY <2>1 DEF Arrive, SignUp, Login, Register, Patch, Delete, ChangePassword, Receive
    <3>5. ~Insert(r)
      <4> SUFFICES ASSUME Insert(r) PROVE FALSE
        OBVIOUS
      <4>1. PICK user \in Emails :
               user \notin Registered /\ users' = [users EXCEPT ![user] = request[r].writes]
        BY <1>1, <2>1 DEF Insert, AccountsInv, Orderly
      <4> QED BY <2>1, <4>1 DEF Rows
    <3> QED BY <2>1, <3>3, <3>4, <3>5
        DEF Handle, CountUsers, CreateUser, Select, RecordLogin
  <2>3. /\ request[r].user = e
        /\ users'[e] = Written(users[e], request[r].writes)
    BY <2>1, <2>2 DEF Update, Rows
  <2>4. f \in DOMAIN request[r].writes /\ users'[e][f] = request[r].writes[f]
    BY <2>3 DEF Written
  <2>5. f \in DOMAIN request[r].asked /\ request[r].writes[f] = request[r].asked[f]
    BY <1>1, <2>2, <2>4 DEF AccountsInv, Orderly, Update
  <2> QED BY <2>3, <2>4, <2>5
<1>2. AccountsInv /\ [Next]_vars => [AskedFor]_vars
  BY <1>1
<1> QED BY <1>2, AccountsInvariance, PTL DEF Spec, ChangesAreAskedFor
=============================================================================
