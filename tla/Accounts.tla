------------------------------ MODULE Accounts ------------------------------
(***************************************************************************)
(* Users, tokens, and the history of forecasts that the two queries of the *)
(* API return.  (Events are not restricted in this way: the hub sends each *)
(* forecast to every client that connected with a valid token; see Hub.)   *)
(* There is no read before the insertion of a user: that a name is taken   *)
(* is found out by the unique index, so each handler reads or writes the   *)
(* database once and is one step.  Its answer may get lost after the       *)
(* write: the caller is told of an error and the user is there.            *)
(* EnsureAdminUser runs before the server listens; a restart may name      *)
(* another administrator.  Tokens are signed, carry the name and the role, *)
(* and outlive the process that issued them.                               *)
(*                                                                         *)
(* Requests that the handlers refuse for their form (an empty name, a short *)
(* password, a token that is not valid) change nothing and are left out.   *)
(***************************************************************************)
EXTENDS Integers

CONSTANTS Names, Passwords

VARIABLES
    up,         \* whether the API is serving
    users,      \* the documents of the collection users
    tokens,     \* the tokens that have not expired; "typed" and "password" are what was
                \* presented for them and are not part of a token
    forecasts   \* the documents of the collection forecasts: user_id, and who asked

accountVars == <<up, users, tokens, forecasts>>

\* A user name as somebody types it: with or without capitals and spaces.
Spellings == Names \X {"plain", "varied"}
normalizeUsername(name) == <<name[1], "plain">>

Roles == {"user", "admin"}
Users == [username : Spellings, password : Passwords, role : Roles]
Tokens == [username : Spellings, role : Roles, typed : Spellings, password : Passwords]
Forecasts == [user_id : Spellings, typed : Spellings]

AccountsTypeOK ==
    /\ up \in BOOLEAN
    /\ users \subseteq Users
    /\ tokens \subseteq Tokens
    /\ forecasts \subseteq Forecasts

AccountsInit == up = FALSE /\ users = {} /\ tokens = {} /\ forecasts = {}

-----------------------------------------------------------------------------
(* The store.                                                               *)

UsersNamed(name) == {u \in users : u.username = normalizeUsername(name)}

\* InsertOne, with the unique index on username
Refused_Bug(name) == FALSE                      \* the index was not created
Refused(name) == \E u \in users : u.username = name

CreateUser(user) ==
    /\ ~Refused(user.username)
    /\ users' = users \cup {user}

NewUser(typed, password, role) ==
    [username |-> normalizeUsername(typed), password |-> password, role |-> role]

\* EnsureAdminUser, called by main: an existing user keeps its password.  Any of its calls may
\* fail, before or after it has taken effect, and main then gives up.
Promote(u) == users' = (users \ {u}) \cup {[u EXCEPT !.role = "admin"]}

EnsureAdminUser(typed, password) ==
    \/ \E u \in UsersNamed(typed) :
        IF u.role = "admin" THEN UNCHANGED users ELSE Promote(u)
    \/ UsersNamed(typed) = {} /\ CreateUser(NewUser(typed, password, "admin"))

Boot(typed, password) ==
    /\ ~up
    /\ EnsureAdminUser(typed, password)
    /\ up' \in BOOLEAN
    /\ UNCHANGED <<tokens, forecasts>>

Stop ==
    /\ up
    /\ up' = FALSE
    /\ UNCHANGED <<users, tokens, forecasts>>

-----------------------------------------------------------------------------
(* The handlers.                                                            *)

Issue(user, typed, password) ==
    tokens' = tokens \cup
        {[username |-> user.username, role |-> user.role, typed |-> typed, password |-> password]}

\* register, answered
RegisterUser(typed, password) ==
    LET user == NewUser(typed, password, "user") IN
    /\ up
    /\ CreateUser(user)
    /\ Issue(user, typed, password)
    /\ UNCHANGED <<up, forecasts>>

\* register, when the answer of the database or of the API is lost
RegisterUnanswered(typed, password) ==
    /\ up
    /\ CreateUser(NewUser(typed, password, "user"))
    /\ UNCHANGED <<up, tokens, forecasts>>

\* AuthenticateUser: the first document found is compared with the password.
LoginRole_Bug(u) == "user"                      \* issued like a registration
LoginRole(u) == u.role

Login(typed, password) ==
    /\ up
    /\ \E u \in UsersNamed(typed) :
        /\ u.password = password
        /\ Issue([u EXCEPT !.role = LoginRole(u)], typed, password)
    /\ UNCHANGED <<up, users, forecasts>>

Expire(t) ==
    /\ t \in tokens
    /\ tokens' = tokens \ {t}
    /\ UNCHANGED <<up, users, forecasts>>

\* createForecast behind the Middleware: auth.User is the name in the token.
CreateForecast(t) ==
    /\ up
    /\ t \in tokens
    /\ forecasts' = forecasts \cup {[user_id |-> t.username, typed |-> t.typed]}
    /\ UNCHANGED <<up, users, tokens>>

\* listForecasts and getForecast, over all pages and ids: the documents with the user_id of
\* the token
HistoryOf(t) == {f \in forecasts : f.user_id = t.username}

\* getAdminMetrics: the role in the token counts, not that in the database.
IsAdmin(t) == t.role = "admin"

AccountsNext ==
    \/ Stop
    \/ \E typed \in Spellings, password \in Passwords :
        \/ Boot(typed, password) \/ RegisterUser(typed, password)
        \/ RegisterUnanswered(typed, password) \/ Login(typed, password)
    \/ \E t \in Tokens : Expire(t) \/ CreateForecast(t)

AccountsSpec == AccountsInit /\ [][AccountsNext]_accountVars

(* Tokens expire, those of a name and a role in some order.                 *)
FairAccountsSpec ==
    /\ AccountsSpec
    /\ \A name \in Names, role \in Roles :
        WF_accountVars(\E t \in Tokens : t.username[1] = name /\ t.role = role /\ Expire(t))

-----------------------------------------------------------------------------
(* Properties.                                                              *)

\* mongo.go:153-156,187-232 and 278-314, server.go:424-463: however registrations of one name
\* race, get lost or are repeated with other spellings and passwords, a token stands for one
\* account, that of the name and password presented for it, and the history that the two
\* queries return to its holder is that of this account, under whichever spelling it was
\* asked for, and of no other.  What the hub sends is not part of it.
AccountsAreSeparate ==
    \A t \in tokens :
        /\ {u.password : u \in UsersNamed(t.typed)} = {t.password}
        /\ HistoryOf(t) = {f \in forecasts : f.typed[1] = t.typed[1]}

\* mongo.go:166-185, server.go:580-584: nobody gets into the administrator's metrics whose
\* account is not an administrator's at that moment.
Administrator(name) == \E u \in users : u.username[1] = name /\ u.role = "admin"
AdminsAreAppointed == \A t \in tokens : IsAdmin(t) => Administrator(t.username[1])

\* jwt.go:46-50: a token keeps the role of the moment it was issued.  Once an account is an
\* administrator's, all of its valid tokens are in the end; and before that none is.
RolesCatchUp ==
    /\ []AdminsAreAppointed
    /\ \A name \in Names :
        Administrator(name) ~> [](\A t \in tokens : t.username[1] = name => IsAdmin(t))
=============================================================================
