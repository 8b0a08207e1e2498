-------------------------------- MODULE Users --------------------------------
(***************************************************************************)
(* Accounts: UsersService (src/src/modules/users/users.service.ts) with the*)
(* routes of UsersController and the registration routes.  Names that      *)
(* differ only in case are one name to the service (ILike) and two to the  *)
(* UNIQUE index of the table.                                              *)
(***************************************************************************)
EXTENDS Integers, FiniteSets

CONSTANTS
    Names,              \* user names
    Folded,             \* Folded[n]: name n in lower case
    AdminName,          \* SERVER_ADMIN_USERNAME
    ActivationDisabled, \* SERVER_ACCOUNT_ACTIVATION_DISABLED
    Registrations,      \* requests to register
    OwnUpdates,         \* PUT /users/me
    AdminUpdates,       \* PUT /users/:user_id
    RecoverAdmin,       \* recoverAdmin of the boot
    MaxUsers            \* bound: accounts

Updates == OwnUpdates \cup AdminUpdates \cup {RecoverAdmin}

ASSUME UsersAssumption ==
    /\ DOMAIN Folded = Names
    /\ AdminName \in Names
    /\ ActivationDisabled \in BOOLEAN
    /\ MaxUsers \in Nat
    /\ Registrations \cap Updates = {} /\ OwnUpdates \cap AdminUpdates = {}
    /\ RecoverAdmin \notin OwnUpdates \cup AdminUpdates

VARIABLES
    users,      \* rows by id
    userReq,    \* requests
    rights,     \* history: role, activation and deletion as they were given
    overtaken,  \* history: users a request saved on data that was out of date
    shared      \* history: users named while another request checked that name

userHistory == <<rights, overtaken, shared>>
userVars == <<users, userReq, userHistory>>

UserIds == 1 .. MaxUsers
Roles == {"user", "admin"}
User == [name : Names, role : Roles, activated : BOOLEAN, deleted : BOOLEAN]
RightsOf(u) == [role |-> u.role, activated |-> u.activated, deleted |-> u.deleted]

\* user: the row in memory; read: the rights in it when it was read.
UserRequest == [pc : {"new", "checked", "checking", "writing", "ended"},
                id : 0 .. MaxUsers, user : {{}} \cup {{u} : u \in User},
                read : {{}} \cup {{RightsOf(u)} : u \in User}]
NewUserRequest == [pc |-> "new", id |-> 0, user |-> {}, read |-> {}]
EndedUserRequest == [NewUserRequest EXCEPT !.pc = "ended"]

UsersTypeOK ==
    /\ DOMAIN users \in {1 .. n : n \in 0 .. MaxUsers}
    /\ \A id \in DOMAIN users : users[id] \in User
    /\ userReq \in [Registrations \cup Updates -> UserRequest]
    /\ DOMAIN rights = DOMAIN users
    /\ overtaken \subseteq DOMAIN users /\ shared \subseteq DOMAIN users

UsersInit ==
    /\ users = [id \in {} |-> NewUserRequest]
    /\ userReq = [r \in Registrations \cup Updates |->
                     IF r = RecoverAdmin THEN EndedUserRequest ELSE NewUserRequest]
    /\ rights = [id \in {} |-> NewUserRequest]
    /\ overtaken = {} /\ shared = {}

\* Mutant: names are compared as they are written.
TakenAsWritten(n) == \E id \in DOMAIN users : users[id].name = n

\* throwIfAlreadyExists, deleted users included.
Taken(n) == \E id \in DOMAIN users : Folded[users[id].name] = Folded[n]

\* assertUserCanAuthenticate
CanAuthenticate(u) == ~u.deleted /\ (u.activated \/ u.role = "admin")

NobodyThere == \A id \in DOMAIN users : users[id].deleted

NameOf(r) == {u.name : u \in userReq[r].user}
\* Requests that have found a name free and not used it yet, for the name of r.
SameNamePending(r) ==
    {q \in DOMAIN userReq \ {r} : /\ userReq[q].pc \in {"checked", "writing"}
                                  /\ {Folded[n] : n \in NameOf(q)} = {Folded[n] : n \in NameOf(r)}}
MarkShared(r, id) == shared' = IF SameNamePending(r) = {} THEN shared ELSE shared \cup {id}

(***************************************************************************)
(* register.                                                               *)
(***************************************************************************)
CheckName(r) ==
    /\ userReq[r].pc = "new"
    /\ \E n \in Names :
          userReq' = [userReq EXCEPT ![r] =
             IF Taken(n) THEN EndedUserRequest
             ELSE [@ EXCEPT !.pc = "checked",
                   !.user = {[name |-> n, role |-> "user", activated |-> FALSE,
                              deleted |-> FALSE]}]]
    /\ UNCHANGED <<users, userHistory>>

AdministratorAtRegistration(n, first) == n = AdminName \/ first

\* The first user, and the configured one, become administrators; the count
\* leaves deleted users out.  The password is hashed before the row is saved.
CountUsers(r) ==
    /\ userReq[r].pc = "checked"
    /\ \E u \in userReq[r].user :
          LET admin == AdministratorAtRegistration(u.name, NobodyThere)
              role == IF admin THEN "admin" ELSE "user"
              user == [u EXCEPT !.role = role, !.activated = ActivationDisabled \/ admin] IN
          userReq' = [userReq EXCEPT ![r].pc = "writing", ![r].user = {user},
                                     ![r].read = {RightsOf(user)}]
    /\ UNCHANGED <<users, userHistory>>

\* History: the rights that the table justifies now.
JustifiedRights(n) ==
    LET admin == AdministratorAtRegistration(n, NobodyThere) IN
    [role |-> IF admin THEN "admin" ELSE "user",
     activated |-> ActivationDisabled \/ admin, deleted |-> FALSE]

\* The UNIQUE index refuses a name that is there in the same spelling.
SaveUser(r) ==
    LET id == Cardinality(DOMAIN users) + 1 IN
    /\ r \in Registrations /\ userReq[r].pc = "writing"
    /\ id \in UserIds
    /\ userReq' = [userReq EXCEPT ![r] = EndedUserRequest]
    /\ \E u \in userReq[r].user :
          IF \E i \in DOMAIN users : users[i].name = u.name THEN UNCHANGED <<users, userHistory>>
          ELSE LET given == JustifiedRights(u.name) IN
               /\ users' = [i \in 1 .. id |-> IF i = id THEN u ELSE users[i]]
               /\ rights' = [i \in 1 .. id |-> IF i = id THEN given ELSE rights[i]]
               /\ overtaken' = IF given = RightsOf(u) THEN overtaken ELSE overtaken \cup {id}
               /\ MarkShared(r, id)

(***************************************************************************)
(* update, of one's own account or by an administrator.                    *)
(***************************************************************************)

\* Mutant: the role and the activation in the request count for everybody.
SettableByAnyone(q, u) == {v \in User : v.name = u.name /\ v.deleted = u.deleted}

\* Role and activation are set only if isAdmin; recoverAdmin sets both.
Settable(q, u) ==
    IF q \in OwnUpdates THEN {u}
    ELSE IF q = RecoverAdmin THEN {[u EXCEPT !.role = "admin", !.activated = TRUE]}
    ELSE {v \in User : v.name = u.name /\ v.deleted = u.deleted}

\* Whose account a request may be about.
UpdatedBy(q) ==
    {id \in DOMAIN users :
        /\ ~users[id].deleted
        /\ q \in OwnUpdates => CanAuthenticate(users[id])
        /\ q = RecoverAdmin => Folded[users[id].name] = Folded[AdminName]}

\* The request carries a new name or keeps the old one.  A name that differs
\* in more than its case has to be free.
ReadUser(q) ==
    /\ userReq[q].pc = "new"
    /\ \E id \in UpdatedBy(q), n \in Names :
          \E u \in Settable(q, users[id]) :
             /\ q = RecoverAdmin => n = u.name
             /\ userReq' = [userReq EXCEPT ![q] =
                   [pc |-> IF Folded[n] = Folded[u.name] THEN "writing" ELSE "checking",
                    id |-> id, user |-> {[u EXCEPT !.name = n]},
                    read |-> {RightsOf(users[id])}]]
    /\ UNCHANGED <<users, userHistory>>

CheckRename(q) ==
    /\ userReq[q].pc = "checking"
    /\ userReq' = [userReq EXCEPT ![q] =
          IF \E n \in NameOf(q) : Taken(n) THEN EndedUserRequest ELSE [@ EXCEPT !.pc = "writing"]]
    /\ UNCHANGED <<users, userHistory>>

\* After the password was hashed and pictures were looked up the whole row is
\* saved, with the role, the activation and the deletion that were read.
SaveUpdate(q) ==
    LET id == userReq[q].id IN
    /\ q \in Updates /\ userReq[q].pc = "writing"
    /\ userReq' = [userReq EXCEPT ![q] = EndedUserRequest]
    /\ \E u \in userReq[q].user :
          IF \E i \in DOMAIN users \ {id} : users[i].name = u.name
          THEN UNCHANGED <<users, userHistory>>
          ELSE /\ users' = [users EXCEPT ![id] = u]
               /\ rights' = IF q \in OwnUpdates THEN rights
                            ELSE [rights EXCEPT ![id] = RightsOf(u)]
               /\ overtaken' = IF userReq[q].read = {RightsOf(users[id])} THEN overtaken
                               ELSE overtaken \cup {id}
               /\ MarkShared(q, id)

(***************************************************************************)
(* delete and recover write the one column; the boot recovers the          *)
(* configured administrator.                                               *)
(***************************************************************************)
SetDeleted(id, d) ==
    /\ users[id].deleted # d
    /\ users' = [users EXCEPT ![id].deleted = d]
    /\ rights' = [rights EXCEPT ![id].deleted = d]
    /\ UNCHANGED <<userReq, overtaken, shared>>

DeleteUser(id) == id \in DOMAIN users /\ SetDeleted(id, TRUE)
RecoverUser(id) == id \in DOMAIN users /\ SetDeleted(id, FALSE)

\* The process ends, with the requests under way; onApplicationBootstrap does
\* not wait for recoverAdmin.
RestartUsers ==
    /\ userReq[RecoverAdmin] = EndedUserRequest
    /\ userReq' = [r \in DOMAIN userReq |->
          IF r = RecoverAdmin \/ userReq[r].pc = "new" THEN NewUserRequest ELSE EndedUserRequest]
    /\ UNCHANGED <<users, userHistory>>

UsersNext ==
    \/ RestartUsers
    \/ \E r \in Registrations : CheckName(r) \/ CountUsers(r) \/ SaveUser(r)
    \/ \E q \in Updates : ReadUser(q) \/ CheckRename(q) \/ SaveUpdate(q)
    \/ \E id \in UserIds : DeleteUser(id) \/ RecoverUser(id)

UsersSpec == UsersInit /\ [][UsersNext]_userVars

(***************************************************************************)
(* Properties.                                                             *)
(***************************************************************************)

\* Role, activation and deletion of an account are what its registration, an
\* administrator or a deletion made them, the first-user rule included.  Only a
\* request that saved what it had read before such a change, or counted users
\* before another registration, makes an exception.
RightsAreGranted == \A id \in DOMAIN users \ overtaken : RightsOf(users[id]) = rights[id]

\* No two accounts have names that differ only in case, unless the names were
\* checked before the other one was saved.
NamesDifferInMoreThanCase ==
    \A i, j \in DOMAIN users :
        i # j /\ Folded[users[i].name] = Folded[users[j].name] => {i, j} \cap shared # {}
=============================================================================
