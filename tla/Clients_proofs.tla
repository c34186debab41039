--------------------------- MODULE Clients_proofs ----------------------------
(***************************************************************************)
(* What the API owes those who use it, in two specifications.              *)
(*                                                                         *)
(* Hub, for any number of clients and broadcasts: no client gets an event  *)
(* twice, and only a client that a write has failed for goes without one.  *)
(*                                                                         *)
(* Accounts, for any number of names and passwords: a token stands for one *)
(* account, whose history of forecasts the two queries return to its       *)
(* holder, and tokens with the role of an administrator belong to          *)
(* administrators.                                                         *)
(***************************************************************************)
EXTENDS Hub, Accounts, TLAPS

USE HubAssumption

At(b, c) == step[b] \in {"lock", "write"} /\ at[b] = c

\* A broadcast visits clients that it has copied, and each of them once.
ListInv ==
    \A b \in Broadcasts :
        /\ list[b] \subseteq Clients /\ todo[b] \subseteq list[b]
        /\ step[b] \in {"lock", "write", "drop"} => at[b] \in list[b] \ todo[b]
        /\ step[b] = "idle" => list[b] = {}

\* A client it has not come to has nothing of it yet; one that it has left has its event,
\* unless a write has failed.
SentInv ==
    \A b \in Broadcasts, c \in Clients :
        IF c \notin list[b] \/ c \in todo[b] \/ At(b, c)
        THEN sent[c][b] = 0
        ELSE sent[c][b] \in {0, 1} /\ (sent[c][b] = 1 \/ broken[c])

IInv == TypeOK /\ ListInv /\ SentInv

-----------------------------------------------------------------------------
(* The connection.                                                          *)

\* A write of message adds one to what its client has of it, and of nothing else.
LEMMA SentFacts ==
    ASSUME TypeOK, NEW c \in Clients, NEW message \in Broadcasts \cup {Hello},
           WriteSucceeds(c, message)
    PROVE  /\ sent' \in [Clients -> [Broadcasts -> Nat]]
           /\ unread' \in [Clients -> 0 .. Capacity]
           /\ UNCHANGED <<timed, broken, link>>
           /\ \A d \in Clients, b \in Broadcasts :
                sent'[d][b] = IF d = c /\ b = message THEN sent[d][b] + 1 ELSE sent[d][b]
<1> DEFINE n == [b \in Broadcasts |-> sent[c][b] + IF b = message THEN 1 ELSE 0]
<1>1. sent[c] \in [Broadcasts -> Nat]
  BY DEF TypeOK
<1>2. n \in [Broadcasts -> Nat]
  BY <1>1
<1>3. sent' = [sent EXCEPT ![c] = n]
  BY DEF WriteSucceeds
<1>4. \A b \in Broadcasts : n[b] = IF b = message THEN sent[c][b] + 1 ELSE sent[c][b]
  BY <1>1
<1> HIDE DEF n
<1>5. sent' \in [Clients -> [Broadcasts -> Nat]]
  BY <1>2, <1>3 DEF TypeOK
<1>6. \A d \in Clients, b \in Broadcasts :
        sent'[d][b] = IF d = c /\ b = message THEN sent[d][b] + 1 ELSE sent[d][b]
  BY <1>3, <1>4 DEF TypeOK
<1>7. unread' \in [Clients -> 0 .. Capacity]
  BY DEF TypeOK, WriteSucceeds
<1> QED
  BY <1>5, <1>6, <1>7 DEF WriteSucceeds

-----------------------------------------------------------------------------
(* Types.                                                                   *)

\* Every step keeps the types; that a broadcast is at a client comes from ListInv.
LEMMA TypePreserved == TypeOK /\ ListInv /\ [Next]_vars => TypeOK'
<1> SUFFICES ASSUME TypeOK, ListInv, [Next]_vars PROVE TypeOK'
  OBVIOUS
<1> USE DEF TypeOK
<1>0. \A b \in Broadcasts : step[b] \in {"lock", "write", "drop"} => at[b] \in Clients
  BY DEF ListInv
<1>1. ASSUME NEW c \in Clients, Register(c) PROVE TypeOK'
  BY <1>1 DEF Register, Goes, peer, loop
<1>2. ASSUME NEW c \in Clients, GreetLock(c) PROVE TypeOK'
  BY <1>2 DEF GreetLock, Goes, peer, loop
<1>3. ASSUME NEW c \in Clients, Greet(c) PROVE TypeOK'
  <2>1. CASE WriteSucceeds(c, Hello)
    BY <1>3, <2>1, SentFacts DEF Greet, Goes, loop
  <2>2. CASE WriteFails(c)
    BY <1>3, <2>2 DEF Greet, WriteFails, Goes, loop
  <2> QED
    BY <1>3, <2>1, <2>2 DEF Greet
<1>4. ASSUME NEW c \in Clients, ReadFails(c) PROVE TypeOK'
  BY <1>4 DEF ReadFails, Remove, Goes, loop
<1>5. ASSUME NEW c \in Clients, ClientReads(c) PROVE TypeOK'
  BY <1>5 DEF ClientReads, loop
<1>6. ASSUME NEW c \in Clients, ClientLeaves(c) PROVE TypeOK'
  BY <1>6 DEF ClientLeaves, loop
<1>7. ASSUME NEW b \in Broadcasts, Copy(b) PROVE TypeOK'
  BY <1>7 DEF Copy, To, peer
<1>8. ASSUME NEW b \in Broadcasts, Turn(b) PROVE TypeOK'
  BY <1>8 DEF Turn, To, peer
<1>9. ASSUME NEW b \in Broadcasts, Lock(b) PROVE TypeOK'
  BY <1>9, <1>0 DEF Lock, Deadline, To
<1>10. ASSUME NEW b \in Broadcasts, Write(b) PROVE TypeOK'
  <2>1. at[b] \in Clients /\ writer' \in [Clients -> Broadcasts \cup {Hello, None}]
    BY <1>10, <1>0 DEF Write
  <2>2. CASE WriteSucceeds(at[b], b) /\ To(b, "next")
    BY <1>10, <2>1, <2>2, SentFacts DEF Write, To
  <2>3. CASE WriteFails(at[b]) /\ To(b, "drop")
    BY <1>10, <2>1, <2>3 DEF Write, WriteFails, To
  <2> QED
    BY <1>10, <2>2, <2>3 DEF Write
<1>11. ASSUME NEW b \in Broadcasts, Drop(b) PROVE TypeOK'
  BY <1>11, <1>0 DEF Drop, Remove, AfterFailure, To
<1>12. CASE UNCHANGED vars
  BY <1>12 DEF vars, peer, loop
<1> QED
  BY <1>1, <1>2, <1>3, <1>4, <1>5, <1>6, <1>7, <1>8, <1>9, <1>10, <1>11, <1>12
     DEF Next, Serve, Loop

-----------------------------------------------------------------------------
(* Broadcasts.                                                              *)

\* A broadcast takes each client off its list once.
LEMMA ListPreserved == TypeOK /\ ListInv /\ [Next]_vars => ListInv'
<1> SUFFICES ASSUME TypeOK, ListInv, [Next]_vars PROVE ListInv'
  OBVIOUS
<1> USE DEF TypeOK, ListInv
<1>1. ASSUME NEW b \in Broadcasts, Copy(b) PROVE ListInv'
  BY <1>1 DEF Copy, To
<1>2. ASSUME NEW b \in Broadcasts, Turn(b) PROVE ListInv'
  BY <1>2 DEF Turn, To
<1>3. ASSUME NEW b \in Broadcasts, Lock(b) PROVE ListInv'
  BY <1>3 DEF Lock, To
<1>4. ASSUME NEW b \in Broadcasts, Write(b) PROVE ListInv'
  BY <1>4 DEF Write, To
<1>5. ASSUME NEW b \in Broadcasts, Drop(b) PROVE ListInv'
  BY <1>5 DEF Drop, AfterFailure, To
<1>6. CASE UNCHANGED loop
  BY <1>6 DEF loop
<1> QED
  BY <1>1, <1>2, <1>3, <1>4, <1>5, <1>6
     DEF Next, Serve, Loop, Register, GreetLock, Greet, ReadFails, ClientReads, ClientLeaves, vars

\* What counts for SentInv and does not change in most steps; broken may only be set.
LEMMA SentKept ==
    ASSUME TypeOK, SentInv, UNCHANGED sent,
           \A c \in Clients : broken[c] => broken'[c],
           \A b \in Broadcasts, c \in Clients :
                (c \notin list[b] \/ c \in todo[b] \/ At(b, c))
                    <=> (c \notin list'[b] \/ c \in todo'[b] \/ At(b, c)')
    PROVE  SentInv'
  BY DEF SentInv

\* The write that delivers an event, and the one that fails.
LEMMA WriteKeepsSent ==
    ASSUME TypeOK, ListInv, SentInv, NEW b \in Broadcasts, Write(b)
    PROVE  SentInv'
<1>1. /\ step[b] = "write" /\ at[b] \in Clients /\ at[b] \in list[b] \ todo[b]
      /\ UNCHANGED <<list, todo, at>>
  BY DEF Write, ListInv
<1>2. step' \in [Broadcasts -> {"idle", "next", "lock", "write", "drop"}]
      /\ step'[b] \in {"next", "drop"} /\ \A e \in Broadcasts : e # b => step'[e] = step[e]
  BY DEF Write, To, TypeOK
<1>3. \A e \in Broadcasts, c \in Clients : e # b \/ c # at[b] => (At(e, c)' <=> At(e, c))
  BY <1>1, <1>2 DEF At
<1>4. sent[at[b]][b] = 0 /\ ~At(b, at[b])'
  BY <1>1, <1>2 DEF SentInv, At
<1>5. \A c \in Clients : broken[c] => broken'[c]
  BY DEF Write, WriteSucceeds, WriteFails, TypeOK
<1>6. sent'[at[b]][b] \in {0, 1} /\ (sent'[at[b]][b] = 1 \/ broken'[at[b]])
  <2>1. CASE WriteSucceeds(at[b], b)
    BY <2>1, <1>1, <1>4, SentFacts
  <2>2. CASE WriteFails(at[b])
    BY <2>2, <1>1, <1>4 DEF WriteFails, TypeOK
  <2> QED
    BY <2>1, <2>2 DEF Write
<1>7. \A e \in Broadcasts, c \in Clients : e # b \/ c # at[b] => sent'[c][e] = sent[c][e]
  <2>1. CASE WriteSucceeds(at[b], b)
    BY <2>1, <1>1, SentFacts
  <2>2. CASE WriteFails(at[b])
    BY <2>2 DEF WriteFails
  <2> QED
    BY <2>1, <2>2 DEF Write
<1> SUFFICES ASSUME NEW e \in Broadcasts, NEW c \in Clients
             PROVE  IF c \notin list'[e] \/ c \in todo'[e] \/ At(e, c)'
                    THEN sent'[c][e] = 0
                    ELSE sent'[c][e] \in {0, 1} /\ (sent'[c][e] = 1 \/ broken'[c])
  BY DEF SentInv
<1>8. CASE e = b /\ c = at[b]
  BY <1>8, <1>1, <1>4, <1>6
<1>9. CASE e # b \/ c # at[b]
  BY <1>9, <1>1, <1>3, <1>5, <1>7 DEF SentInv
<1> QED
  BY <1>8, <1>9

\* Of all the steps, only writes tell anybody anything; a Copy begins with nobody told.
LEMMA SentPreserved == IInv /\ [Next]_vars => SentInv'
<1> SUFFICES ASSUME TypeOK, ListInv, SentInv, [Next]_vars PROVE SentInv'
  BY DEF IInv
<1> USE DEF TypeOK
<1>1. ASSUME NEW c \in Clients, Greet(c) PROVE SentInv'
  <2>1. \A d \in Clients : broken[d] => broken'[d]
    BY <1>1 DEF Greet, WriteSucceeds, WriteFails
  <2>2. sent' \in [Clients -> [Broadcasts -> Nat]]
        /\ \A d \in Clients, b \in Broadcasts : sent'[d][b] = sent[d][b]
    BY <1>1, SentFacts DEF Greet, WriteFails
  <2>3. UNCHANGED loop
    BY <1>1 DEF Greet
  <2> QED
    BY <2>1, <2>2, <2>3 DEF SentInv, At, loop
<1>2. ASSUME NEW b \in Broadcasts, Copy(b) PROVE SentInv'
  <2>1. /\ list' = [list EXCEPT ![b] = clients] /\ todo' = [todo EXCEPT ![b] = clients]
        /\ step' = [step EXCEPT ![b] = "next"] /\ UNCHANGED <<at, sent, broken>>
        /\ step[b] = "idle" /\ list[b] = {}
    BY <1>2 DEF Copy, To, peer, ListInv
  <2>2. \A c \in Clients : sent[c][b] = 0
    BY <2>1 DEF SentInv
  <2> QED
    BY <2>1, <2>2 DEF SentInv, At
<1>3. ASSUME NEW b \in Broadcasts, Turn(b) PROVE SentInv'
  BY <1>3, SentKept DEF Turn, To, At, peer, ListInv
<1>4. ASSUME NEW b \in Broadcasts, Lock(b) PROVE SentInv'
  BY <1>4, SentKept DEF Lock, To, At
<1>5. ASSUME NEW b \in Broadcasts, Write(b) PROVE SentInv'
  BY <1>5, WriteKeepsSent
<1>6. ASSUME NEW b \in Broadcasts, Drop(b) PROVE SentInv'
  BY <1>6, SentKept DEF Drop, Remove, AfterFailure, To, At
<1>7. CASE UNCHANGED <<sent, broken, loop>>
  BY <1>7, SentKept DEF loop, At
<1> QED
  BY <1>1, <1>2, <1>3, <1>4, <1>5, <1>6, <1>7
     DEF Next, Serve, Loop, Register, GreetLock, ReadFails, Remove, ClientReads, ClientLeaves,
         vars, peer

-----------------------------------------------------------------------------
(* Theorems.                                                                *)

(* The invariant from which the rest follows.                               *)
THEOREM Invariance == Spec => []IInv
<1>1. Init => IInv
  <2> SUFFICES ASSUME Init PROVE IInv
    OBVIOUS
  <2>1. [c \in Clients |-> [b \in Broadcasts |-> 0]] \in [Clients -> [Broadcasts -> Nat]]
    OBVIOUS
  <2>2. TypeOK
    BY <2>1 DEF Init, TypeOK
  <2> QED
    BY <2>2 DEF Init, IInv, ListInv, SentInv
<1>2. IInv /\ [Next]_vars => IInv'
  BY TypePreserved, ListPreserved, SentPreserved DEF IInv
<1> QED
  BY <1>1, <1>2, PTL DEF Spec

(* Every variable keeps its type.                                           *)
THEOREM TypeCorrect == Spec => []TypeOK
<1>1. IInv => TypeOK
  BY DEF IInv
<1> QED
  BY <1>1, Invariance, PTL

(* hub.go:55-80: a client's failure costs no other client an event, and     *)
(* nobody gets one twice.                                                   *)
THEOREM NobodyElseMissesHolds == Spec => []NobodyElseMisses
<1>1. IInv => NobodyElseMisses
  <2> SUFFICES ASSUME IInv, NEW b \in Broadcasts, NEW c \in Clients
               PROVE  /\ sent[c][b] <= 1
                      /\ Returned(b) /\ c \in list[b] /\ ~broken[c] /\ link[c] = "up"
                            => sent[c][b] = 1
    BY DEF NobodyElseMisses
  <2>1. sent[c][b] \in {0, 1}
    BY DEF IInv, SentInv
  <2>2. Returned(b) => c \notin todo[b] /\ ~At(b, c)
    BY DEF Returned, At
  <2> QED
    BY <2>1, <2>2 DEF IInv, SentInv
<1> QED
  BY <1>1, Invariance, PTL

-----------------------------------------------------------------------------
(* Accounts.                                                                *)

\* The unique index over normalised names keeps accounts apart.
UsersInv ==
    /\ \A u \in users : u.username = normalizeUsername(u.username)
    /\ \A u, v \in users : u.username = v.username => u = v

\* A token was issued for the account with the name and the password that were presented.
TokensInv ==
    \A t \in tokens :
        /\ t.username = normalizeUsername(t.typed)
        /\ \E u \in users : /\ u.username = t.username /\ u.password = t.password
                            /\ t.role = "admin" => u.role = "admin"

\* A forecast belongs to the account of whoever asked for it.
ForecastsInv == \A f \in forecasts : f.user_id = normalizeUsername(f.typed)

AccountsInv == AccountsTypeOK /\ UsersInv /\ TokensInv /\ ForecastsInv

-----------------------------------------------------------------------------
(* The database.                                                            *)

\* Normalising a spelling gives a spelling that normalising leaves alone.
LEMMA NormalForm ==
    ASSUME NEW typed \in Spellings
    PROVE  /\ normalizeUsername(typed) \in Spellings
           /\ normalizeUsername(normalizeUsername(typed)) = normalizeUsername(typed)
           /\ normalizeUsername(typed)[1] = typed[1]
           /\ typed[1] \in Names
  BY DEF Spellings, normalizeUsername

\* Two spellings have one normal form exactly if they are of one name.
LEMMA SameName ==
    ASSUME NEW a \in Spellings, NEW b \in Spellings
    PROVE  (normalizeUsername(a) = normalizeUsername(b)) <=> (a[1] = b[1])
  BY DEF Spellings, normalizeUsername

\* What the document of a new account holds.
LEMMA NewUserTyped ==
    ASSUME NEW typed \in Spellings, NEW password \in Passwords, NEW role \in Roles
    PROVE  /\ NewUser(typed, password, role) \in Users
           /\ NewUser(typed, password, role).username = normalizeUsername(typed)
           /\ NewUser(typed, password, role).password = password
           /\ NewUser(typed, password, role).role = role
  BY NormalForm DEF NewUser, Users

\* A document more keeps the documents that were there, and accounts apart.
LEMMA CreateKeepsUsers ==
    ASSUME AccountsInv, NEW typed \in Spellings, NEW password \in Passwords, NEW role \in Roles,
           CreateUser(NewUser(typed, password, role))
    PROVE  users' \subseteq Users /\ UsersInv' /\ users \subseteq users'
<1> DEFINE n == NewUser(typed, password, role)
<1>1. n \in Users /\ n.username = normalizeUsername(typed)
  BY NewUserTyped
<1>2. users' = users \cup {n} /\ \A u \in users : u.username # n.username
  BY DEF CreateUser, Refused
<1>3. n.username = normalizeUsername(n.username)
  BY <1>1, NormalForm
<1> HIDE DEF n
<1>4. users' \subseteq Users /\ users \subseteq users'
  BY <1>1, <1>2 DEF AccountsInv, AccountsTypeOK
<1>5. UsersInv'
  BY <1>2, <1>3 DEF AccountsInv, UsersInv
<1> QED
  BY <1>4, <1>5

\* A promotion changes the role of one document and nothing else.
LEMMA PromoteKeepsUsers ==
    ASSUME AccountsInv, NEW u \in users, Promote(u)
    PROVE  /\ users' \subseteq Users /\ UsersInv'
           /\ \A v \in users : \E w \in users' : /\ w.username = v.username /\ w.password = v.password
                                                 /\ v.role = "admin" => w.role = "admin"
<1> DEFINE n == [u EXCEPT !.role = "admin"]
<1>1. /\ n \in Users /\ n.username = u.username /\ n.password = u.password /\ n.role = "admin"
      /\ u \in Users
  BY DEF AccountsInv, AccountsTypeOK, Users, Roles
<1>2. users' = (users \ {u}) \cup {n}
  BY DEF Promote
<1> HIDE DEF n
<1>3. users' \subseteq Users
  BY <1>1, <1>2 DEF AccountsInv, AccountsTypeOK
<1>4. UsersInv'
  BY <1>1, <1>2 DEF AccountsInv, UsersInv
<1>5. ASSUME NEW v \in users
      PROVE  \E w \in users' : /\ w.username = v.username /\ w.password = v.password
                               /\ v.role = "admin" => w.role = "admin"
  BY <1>1, <1>2
<1> QED
  BY <1>3, <1>4, <1>5

\* Tokens that were right stay right when documents are only added or promoted.
LEMMA TokensKept ==
    ASSUME AccountsInv, UNCHANGED tokens,
           \A v \in users : \E w \in users' : /\ w.username = v.username /\ w.password = v.password
                                              /\ v.role = "admin" => w.role = "admin"
    PROVE  TokensInv'
  BY DEF AccountsInv, TokensInv

-----------------------------------------------------------------------------
(* Steps.                                                                   *)

\* A token issued for a document, to whoever presented its name and password.
LEMMA IssueKeepsTokens ==
    ASSUME AccountsInv, NEW u \in Users, NEW typed \in Spellings, Issue(u, typed, u.password),
           users \subseteq users', u.username = normalizeUsername(typed),
           \E w \in users' : /\ w.username = u.username /\ w.password = u.password
                             /\ u.role = "admin" => w.role = "admin"
    PROVE  tokens' \subseteq Tokens /\ TokensInv'
<1> DEFINE n == [username |-> u.username, role |-> u.role, typed |-> typed, password |-> u.password]
<1>1. /\ n \in Tokens /\ n.username = u.username /\ n.role = u.role /\ n.typed = typed
      /\ n.password = u.password
  BY DEF Tokens, Users
<1>2. tokens' = tokens \cup {n}
  BY DEF Issue
<1> HIDE DEF n
<1>3. tokens' \subseteq Tokens
  BY <1>1, <1>2 DEF AccountsInv, AccountsTypeOK
<1>4. ASSUME NEW t \in tokens'
      PROVE  /\ t.username = normalizeUsername(t.typed)
             /\ \E w \in users' : /\ w.username = t.username /\ w.password = t.password
                                  /\ t.role = "admin" => w.role = "admin"
  <2>1. CASE t \in tokens
    BY <2>1 DEF AccountsInv, TokensInv
  <2>2. CASE t = n
    BY <2>2, <1>1
  <2> QED
    BY <2>1, <2>2, <1>2
<1> QED
  BY <1>3, <1>4 DEF TokensInv

\* The administrator named at start-up may exist, in either role, or not.
LEMMA BootKeeps ==
    ASSUME AccountsInv, NEW typed \in Spellings, NEW password \in Passwords, Boot(typed, password)
    PROVE  AccountsInv'
<1>1. up' \in BOOLEAN /\ UNCHANGED <<tokens, forecasts>> /\ EnsureAdminUser(typed, password)
  BY DEF Boot
<1>2. /\ users' \subseteq Users /\ UsersInv'
      /\ \A v \in users : \E w \in users' : /\ w.username = v.username /\ w.password = v.password
                                            /\ v.role = "admin" => w.role = "admin"
  <2>1. CASE UNCHANGED users
    BY <2>1 DEF AccountsInv, AccountsTypeOK, UsersInv
  <2>2. CASE \E u \in users : Promote(u)
    BY <2>2, PromoteKeepsUsers
  <2>3. CASE CreateUser(NewUser(typed, password, "admin"))
    <3>1. users' \subseteq Users /\ UsersInv' /\ users \subseteq users'
      BY <2>3, CreateKeepsUsers DEF Roles
    <3> QED
      BY <3>1
  <2> QED
    BY <1>1, <2>1, <2>2, <2>3 DEF EnsureAdminUser, UsersNamed
<1>3. TokensInv'
  BY <1>1, <1>2, TokensKept
<1> QED
  BY <1>1, <1>2, <1>3 DEF AccountsInv, AccountsTypeOK, ForecastsInv

\* A registration, whether its answer arrives or not.
LEMMA RegisterKeeps ==
    ASSUME AccountsInv, NEW typed \in Spellings, NEW password \in Passwords,
           RegisterUser(typed, password) \/ RegisterUnanswered(typed, password)
    PROVE  AccountsInv'
<1> DEFINE n == NewUser(typed, password, "user")
<1>1. /\ CreateUser(n) /\ UNCHANGED <<up, forecasts>>
      /\ UNCHANGED tokens \/ Issue(n, typed, password)
  BY DEF RegisterUser, RegisterUnanswered
<1>2. /\ n \in Users /\ n.username = normalizeUsername(typed) /\ n.password = password
      /\ n \in users'
  BY <1>1, NewUserTyped DEF Roles, CreateUser
<1>3. users' \subseteq Users /\ UsersInv' /\ users \subseteq users'
  BY <1>1, CreateKeepsUsers DEF Roles
<1> HIDE DEF n
<1>4. tokens' \subseteq Tokens /\ TokensInv'
  <2>1. CASE UNCHANGED tokens
    BY <2>1, <1>3, TokensKept DEF AccountsInv, AccountsTypeOK
  <2>2. CASE Issue(n, typed, password)
    BY <2>2, <1>2, <1>3, IssueKeepsTokens
  <2> QED
    BY <1>1, <2>1, <2>2
<1> QED
  BY <1>1, <1>3, <1>4 DEF AccountsInv, AccountsTypeOK, ForecastsInv

\* A login issues a token for the one document of its name.
LEMMA LoginKeeps ==
    ASSUME AccountsInv, NEW typed \in Spellings, NEW password \in Passwords, Login(typed, password)
    PROVE  AccountsInv'
<1>1. PICK u \in UsersNamed(typed) :
        u.password = password /\ Issue([u EXCEPT !.role = LoginRole(u)], typed, password)
  BY DEF Login
<1>2. u \in users /\ u \in Users /\ u.username = normalizeUsername(typed)
  BY <1>1 DEF UsersNamed, AccountsInv, AccountsTypeOK
<1>3. [u EXCEPT !.role = LoginRole(u)] = u
  BY <1>2 DEF LoginRole, Users
<1>4. UNCHANGED <<up, users, forecasts>>
  BY DEF Login
<1>5. tokens' \subseteq Tokens /\ TokensInv'
  BY <1>1, <1>2, <1>3, <1>4, IssueKeepsTokens
<1> QED
  BY <1>4, <1>5 DEF AccountsInv, AccountsTypeOK, UsersInv, ForecastsInv

\* A forecast is filed under the name in the token.
LEMMA CreateForecastKeeps ==
    ASSUME AccountsInv, NEW t \in Tokens, CreateForecast(t)
    PROVE  AccountsInv'
<1> DEFINE n == [user_id |-> t.username, typed |-> t.typed]
<1>1. t \in tokens /\ UNCHANGED <<up, users, tokens>> /\ forecasts' = forecasts \cup {n}
  BY DEF CreateForecast
<1>2. n \in Forecasts /\ n.user_id = normalizeUsername(n.typed)
  BY <1>1 DEF AccountsInv, TokensInv, Tokens, Forecasts
<1> HIDE DEF n
<1> QED
  BY <1>1, <1>2 DEF AccountsInv, AccountsTypeOK, UsersInv, TokensInv, ForecastsInv

-----------------------------------------------------------------------------
(* Theorems about the accounts.                                             *)

(* The invariant from which the rest follows.                               *)
THEOREM AccountsInvariance == AccountsSpec => []AccountsInv
<1>1. AccountsInit => AccountsInv
  BY DEF AccountsInit, AccountsInv, AccountsTypeOK, UsersInv, TokensInv, ForecastsInv
<1>2. AccountsInv /\ [AccountsNext]_accountVars => AccountsInv'
  <2> SUFFICES ASSUME AccountsInv, [AccountsNext]_accountVars PROVE AccountsInv'
    OBVIOUS
  <2>1. CASE Stop \/ UNCHANGED accountVars
    BY <2>1 DEF Stop, accountVars, AccountsInv, AccountsTypeOK, UsersInv, TokensInv, ForecastsInv
  <2>2. ASSUME NEW t \in Tokens, Expire(t) PROVE AccountsInv'
    BY <2>2 DEF Expire, AccountsInv, AccountsTypeOK, UsersInv, TokensInv, ForecastsInv
  <2> QED
    BY <2>1, <2>2, BootKeeps, RegisterKeeps, LoginKeeps, CreateForecastKeeps DEF AccountsNext
<1> QED
  BY <1>1, <1>2, PTL DEF AccountsSpec

(* Every variable keeps its type.                                           *)
THEOREM AccountsTypeCorrect == AccountsSpec => []AccountsTypeOK
<1>1. AccountsInv => AccountsTypeOK
  BY DEF AccountsInv
<1> QED
  BY <1>1, AccountsInvariance, PTL

(* mongo.go:187-232 and 278-314, server.go:424-463: a token stands for one  *)
(* account, and the two queries return to its holder what was asked for     *)
(* under the names of this account, and nothing else.  It says nothing of   *)
(* the events that the hub sends to every client.                           *)
THEOREM AccountsAreSeparateHolds == AccountsSpec => []AccountsAreSeparate
<1>1. AccountsInv => AccountsAreSeparate
  <2> SUFFICES ASSUME AccountsInv, NEW t \in tokens
               PROVE  /\ {u.password : u \in UsersNamed(t.typed)} = {t.password}
                      /\ HistoryOf(t) = {f \in forecasts : f.typed[1] = t.typed[1]}
    BY DEF AccountsAreSeparate
  <2>1. t.typed \in Spellings /\ t.username = normalizeUsername(t.typed)
    BY DEF AccountsInv, AccountsTypeOK, Tokens, TokensInv
  <2>2. PICK u \in users : u.username = t.username /\ u.password = t.password
    BY DEF AccountsInv, TokensInv
  <2>3. UsersNamed(t.typed) = {u}
    BY <2>1, <2>2 DEF UsersNamed, AccountsInv, UsersInv
  <2>4. ASSUME NEW f \in forecasts PROVE (f.user_id = t.username) <=> (f.typed[1] = t.typed[1])
    <3>1. f.typed \in Spellings /\ f.user_id = normalizeUsername(f.typed)
      BY DEF AccountsInv, AccountsTypeOK, Forecasts, ForecastsInv
    <3> QED
      BY <2>1, <3>1, SameName
  <2> QED
    BY <2>2, <2>3, <2>4 DEF HistoryOf
<1> QED
  BY <1>1, AccountsInvariance, PTL

(* mongo.go:166-185, server.go:580-584: a token with the role of an         *)
(* administrator belongs to an administrator.                               *)
THEOREM AdminsAreAppointedHolds == AccountsSpec => []AdminsAreAppointed
<1>1. AccountsInv => AdminsAreAppointed
  BY DEF AccountsInv, TokensInv, AdminsAreAppointed, Administrator, IsAdmin
<1> QED
  BY <1>1, AccountsInvariance, PTL
=============================================================================
