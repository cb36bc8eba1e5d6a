--------------------------- MODULE Authorizations ---------------------------
(***************************************************************************)
(* api/auth and infra/providers/github: how a user connects GitHub         *)
(* accounts and how a run is given one of them. The store is in memory:    *)
(* each of its operations is atomic under its lock, and a restart empties  *)
(* it. A callback is a sequence of such operations with requests to GitHub *)
(* and to the database in between; callbacks overlap.                      *)
(*                                                                         *)
(* GitHub is the only provider, and every account is stored as active. The *)
(* random value of an OAuth state, the id of an account and a token are    *)
(* the flow, the pair of user and GitHub account, and the flow that        *)
(* brought the token. Nothing in the program resolves accounts yet.        *)
(***************************************************************************)
EXTENDS Naturals, FiniteSets

CONSTANTS
  Users,       \* users of this system
  Externals,   \* GitHub accounts
  Flows,       \* OAuth states that can be issued
  Callbacks,   \* requests that carry a callback of GitHub
  MaxRestarts, \* bound: restarts of the server
  MaxResolves  \* bound: accounts asked for

AuthorizationAssumption == MaxRestarts \in Nat /\ MaxResolves \in Nat /\ IsFiniteSet(Flows)

VARIABLES
  owner,       \* the user each issued state was issued to
  pending,     \* oauthStates: the states that have not been consumed
  credentials, \* accounts and credentials: the token of each stored account
  defaults,    \* the default account of each user that has one
  callback,    \* what each callback is doing
  people,      \* the rows of the table of users with each GitHub id
  answered,    \* history: users told that they are authorized, since the start
  request,     \* the resolution that is on its way, or was the last
  restarts, resolves  \* counters of the bounds

vars == <<owner, pending, credentials, defaults, callback, people, answered,
          request, restarts, resolves>>

Nobody == "nobody"
NoAccount == "no account"
Installation == "installation"
Account(u, e) == <<u, e>>
Accounts == Users \X Externals

Idle == [at |-> "idle", flow |-> Nobody, account |-> NoAccount, crossed |-> FALSE]
NoRequest == [at |-> "idle", user |-> Nobody, account |-> NoAccount, by |-> "none"]

Init ==
  /\ owner = [f \in {} |-> Nobody]
  /\ pending = {}
  /\ credentials = [a \in {} |-> Nobody]
  /\ defaults = [u \in {} |-> NoAccount]
  /\ callback = [c \in Callbacks |-> Idle]
  /\ people = [e \in Externals |-> 0]
  /\ answered = {}
  /\ request = NoRequest
  /\ restarts = 0 /\ resolves = 0

Stored == DOMAIN credentials
Open == {c \in Callbacks : callback[c].at # "idle"}
UserOf(c) == owner[callback[c].flow]

(* An entry of a map is written. *)
Put(table, key, value) ==
  [k \in DOMAIN table \cup {key} |-> IF k = key THEN value ELSE table[k]]

Goto(c, at) == callback' = [callback EXCEPT ![c].at = at]

-----------------------------------------------------------------------------
(* GET /github/auth.                                                       *)
StartAuthorization(u) ==
  \E f \in Flows \ DOMAIN owner :
    /\ owner' = Put(owner, f, u)
    /\ pending' = pending \cup {f}
    /\ UNCHANGED <<credentials, defaults, callback, people, answered, request,
                   restarts, resolves>>

-----------------------------------------------------------------------------
(* GET /github/callback. A browser may send the same callback again; it is *)
(* refused when the state has been consumed or was lost.                   *)

(* The callbacks with c in them, each marked as having met another one.    *)
Opened(c, f) ==
  [d \in Callbacks |->
     IF d = c THEN [Idle EXCEPT !.at = "exchange", !.flow = f, !.crossed = Open # {}]
     ELSE IF d \in Open THEN [callback[d] EXCEPT !.crossed = TRUE]
     ELSE Idle]

(* Mutant: the state can be used again. *)
ReadOAuthState(c) ==
  /\ callback[c].at = "idle"
  /\ \E f \in pending : callback' = Opened(c, f)
  /\ UNCHANGED <<owner, pending, credentials, defaults, people, answered, request,
                 restarts, resolves>>

ConsumeOAuthState(c) ==
  /\ callback[c].at = "idle"
  /\ \E f \in pending :
       /\ pending' = pending \ {f}
       /\ callback' = Opened(c, f)
  /\ UNCHANGED <<owner, credentials, defaults, people, answered, request,
                 restarts, resolves>>

(* The code is exchanged for a token and the profile is fetched; either    *)
(* may fail, and the state is gone then. The account belongs to the user   *)
(* that started, whoever has signed in at GitHub.                          *)
CompleteAuthorization(c) ==
  /\ callback[c].at = "exchange"
  /\ \/ \E e \in Externals :
          callback' = [callback EXCEPT ![c].at = "upsert",
                                       ![c].account = Account(UserOf(c), e)]
     \/ callback' = [callback EXCEPT ![c] = Idle]
  /\ UNCHANGED <<owner, pending, credentials, defaults, people, answered, request,
                 restarts, resolves>>

UpsertAuthorizedAccount(c) ==
  /\ callback[c].at = "upsert"
  /\ credentials' = Put(credentials, callback[c].account, callback[c].flow)
  /\ Goto(c, "look")
  /\ UNCHANGED <<owner, pending, defaults, people, answered, request, restarts, resolves>>

GetDefaultAccount(c) ==
  /\ callback[c].at = "look"
  /\ Goto(c, IF UserOf(c) \in DOMAIN defaults THEN "user" ELSE "default")
  /\ UNCHANGED <<owner, pending, credentials, defaults, people, answered, request,
                 restarts, resolves>>

(* The account has been stored, and accounts are never removed. *)
SetDefaultAccount(c) ==
  /\ callback[c].at = "default"
  /\ defaults' = Put(defaults, UserOf(c), callback[c].account)
  /\ Goto(c, "user")
  /\ UNCHANGED <<owner, pending, credentials, people, answered, request, restarts, resolves>>

(* saveUserIfNeeded: FirstOrCreate looks for the GitHub id and inserts a   *)
(* row; no index keeps a second one out. An error is only logged.          *)
FindUser(c) ==
  /\ callback[c].at = "user"
  /\ Goto(c, IF people[callback[c].account[2]] = 0 THEN "create" ELSE "answer")
  /\ UNCHANGED <<owner, pending, credentials, defaults, people, answered, request,
                 restarts, resolves>>

CreateUser(c) ==
  /\ callback[c].at = "create"
  /\ \/ people' = [people EXCEPT ![callback[c].account[2]] = @ + 1]
     \/ UNCHANGED people
  /\ Goto(c, "answer")
  /\ UNCHANGED <<owner, pending, credentials, defaults, answered, request, restarts, resolves>>

Answer(c) ==
  /\ callback[c].at = "answer"
  /\ answered' = answered \cup {UserOf(c)}
  /\ callback' = [callback EXCEPT ![c] = Idle]
  /\ UNCHANGED <<owner, pending, credentials, defaults, people, request, restarts, resolves>>

-----------------------------------------------------------------------------
(* ResolveClient: the app's installation, an account asked for by its id,  *)
(* the user's default, or any account of the user.                         *)

Ask(at, u, a, by) ==
  /\ request' = [at |-> at, user |-> u, account |-> a, by |-> by]
  /\ UNCHANGED <<owner, pending, credentials, defaults, callback, people, answered, restarts>>

Begins == request.at = "idle" /\ resolves < MaxResolves /\ resolves' = resolves + 1

(* A token of the installation is asked for; the request may fail. *)
ResolveInstallation(u) ==
  Begins /\ \/ Ask("done", u, Installation, "installation")
            \/ Ask("failed", u, NoAccount, "installation")

(* The account must be the user's, if a user is named. *)
ResolveExplicit(u, a) ==
  /\ Begins
  /\ IF a \in Stored /\ u \in {Nobody, a[1]} THEN Ask("credential", u, a, "explicit")
     ELSE Ask("failed", u, NoAccount, "explicit")

ResolveDefault(u) ==
  /\ Begins
  /\ IF u \in DOMAIN defaults THEN Ask("credential", u, defaults[u], "default")
     ELSE Ask("list", u, NoAccount, "any")

ResolveAny ==
  LET own == {a \in Stored : a[1] = request.user} IN
  /\ request.at = "list"
  /\ IF own = {} THEN Ask("failed", request.user, NoAccount, "any")
     ELSE \E a \in own : Ask("credential", request.user, a, "any")
  /\ UNCHANGED resolves

GetCredential ==
  /\ request.at = "credential"
  /\ Ask(IF request.account \in Stored THEN "done" ELSE "failed",
         request.user, request.account, request.by)
  /\ UNCHANGED resolves

Resolved ==
  /\ request.at \in {"done", "failed"}
  /\ Ask("idle", Nobody, NoAccount, "none")
  /\ UNCHANGED resolves

-----------------------------------------------------------------------------
(* The store is in memory; the table of users is not. *)
Restart ==
  /\ restarts < MaxRestarts
  /\ restarts' = restarts + 1
  /\ pending' = {} /\ answered' = {}
  /\ credentials' = [a \in {} |-> Nobody]
  /\ defaults' = [u \in {} |-> NoAccount]
  /\ callback' = [c \in Callbacks |-> Idle]
  /\ request' = NoRequest
  /\ UNCHANGED <<owner, people, resolves>>

Resolution ==
  \/ \E u \in Users \cup {Nobody} :
       ResolveInstallation(u) \/ \E a \in Accounts : ResolveExplicit(u, a)
  \/ \E u \in Users : ResolveDefault(u)
  \/ ResolveAny \/ GetCredential \/ Resolved

Callback(c) ==
  \/ ConsumeOAuthState(c) \/ CompleteAuthorization(c) \/ UpsertAuthorizedAccount(c)
  \/ GetDefaultAccount(c) \/ SetDefaultAccount(c)
  \/ FindUser(c) \/ CreateUser(c) \/ Answer(c)

Next ==
  \/ \E u \in Users : StartAuthorization(u)
  \/ \E c \in Callbacks : Callback(c)
  \/ Resolution
  \/ Restart

Spec == Init /\ [][Next]_vars

-----------------------------------------------------------------------------
TypeOK ==
  /\ DOMAIN owner \subseteq Flows
  /\ pending \subseteq DOMAIN owner
  /\ Stored \subseteq Accounts
  /\ \A u \in DOMAIN defaults : defaults[u] \in Stored /\ defaults[u][1] = u
  /\ \A c \in Callbacks : callback[c].flow \in DOMAIN owner \cup {Nobody}
  /\ people \in [Externals -> 0..Cardinality(Flows)]

(* A state serves one callback, however often the browser sends it. *)
StateServesOnce ==
  \A c \in Open : /\ callback[c].flow \notin pending
                  /\ \A d \in Open \ {c} : callback[d].flow # callback[c].flow

(* Who was told to be authorized is, until the server restarts: there is a *)
(* default account, of this user, with a token. Nobody is given the        *)
(* account of another user. *)
AnsweredIsUsable == \A u \in answered : u \in DOMAIN defaults /\ defaults[u] \in Stored
ResolvedIsOwn ==
  request.at = "done" /\ request.user # Nobody /\ request.by # "installation" =>
    request.account[1] = request.user

(* Each state serves one callback; who was told to be authorized has an    *)
(* account to run with, and never another user's. A user's default account *)
(* moves, and a GitHub account gets a second user, only when callbacks     *)
(* overlapped: nothing joins the look at the store or at the table to the  *)
(* write that follows (service.go:124, github.go:177).                     *)
AuthorizationsHold ==
  /\ [](StateServesOnce /\ AnsweredIsUsable /\ ResolvedIsOwn)
  /\ [][/\ \A u \in DOMAIN defaults \cap DOMAIN defaults' :
             defaults'[u] # defaults[u] => \E c \in Open : callback[c].crossed /\ UserOf(c) = u
        /\ \A e \in Externals :
             people'[e] > people[e] /\ people[e] > 0 => \E c \in Open : callback[c].crossed]_vars
=============================================================================
