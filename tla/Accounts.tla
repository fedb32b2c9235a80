------------------------------ MODULE Accounts ------------------------------
(***************************************************************************)
(* Users, invites and sign-in sessions (services/auth.py, api/auth.py,     *)
(* api/dependencies.py).                                                   *)
(*                                                                         *)
(* A request runs in a transaction that takes SQLite's write lock only     *)
(* with its first UPDATE or INSERT: what it decided on was read before,    *)
(* and hashing or verifying a password lies in between.  A request is      *)
(* therefore two steps, the reads and the commit, of one of Clients.       *)
(* When serial holds no request starts before the previous one ended: what *)
(* is promised of such a server, and what is left of it when requests      *)
(* overlap, are both stated below.                                         *)
(***************************************************************************)
EXTENDS Naturals, FiniteSets

CONSTANTS Clients,    \* the threads that serve requests
          Names,      \* usernames; rows of users are never deleted, so a name is an id
          Tokens,     \* sign-in sessions that can be live or in use at once
          Invites,
          MaxSignedIn,  \* bound: live sessions when requests overlap
          None

ASSUME NoneIsNoValue == None \notin Names \cup Tokens \cup Invites
ASSUME ClientsAreFinite == IsFiniteSet(Clients)   \* the server's thread pool

VARIABLES users,      \* the row of each username, role "none" when there is none
          sessions,   \* auth_sessions that are neither revoked nor expired
          invites,
          requests,   \* what each client's request has read so far
          serial      \* requests are served one at a time; never changes

accountsVars == <<users, sessions, invites, requests, serial>>

Roles == {"member", "admin"}

(* Of a password the properties only ask whether the one that was shown to *)
(* sign in is still the user's: current.  Neither it nor via, the invite   *)
(* that made a user, is a column.                                          *)
User == [role: Roles \cup {"none"}, status: {"active", "disabled"}, via: Invites \cup {None}]
Session == [user: Names \cup {None}, current: BOOLEAN]
Invite == [role: Roles, state: {"unused", "open", "claimed", "closed"}]
Request == [op: {"none", "bootstrap", "login", "claim", "password", "admin",
                 "disable", "reset", "signout"},
            acting: Names \cup {None}, name: Names \cup {None},
            current: BOOLEAN, invite: Invites \cup {None}, token: Tokens \cup {None},
            status: {"active", "disabled"}, seen: SUBSET Tokens]

NoUser == [role |-> "none", status |-> "active", via |-> None]
NoSession == [user |-> None, current |-> TRUE]
NoRequest == [op |-> "none", acting |-> None, name |-> None, current |-> TRUE,
              invite |-> None, token |-> None, status |-> "active", seen |-> {}]

AccountsTypeOK == /\ users \in [Names -> User]
                  /\ sessions \in [Tokens -> Session]
                  /\ invites \in [Invites -> Invite]
                  /\ requests \in [Clients -> Request]
                  /\ serial \in BOOLEAN

InitAccounts == /\ users = [n \in Names |-> NoUser]
                /\ sessions = [t \in Tokens |-> NoSession]
                /\ invites = [i \in Invites |-> [role |-> "member", state |-> "unused"]]
                /\ requests = [c \in Clients |-> NoRequest]
                /\ serial \in BOOLEAN

-----------------------------------------------------------------------------
Exists(n) == users[n].role # "none"
Live(t) == sessions[t].user # None
SessionsOf(n) == {t \in Tokens : sessions[t].user = n}

(* A live session whose user is active (get_user_for_session_token).       *)
SignedIn(t) == Live(t) /\ users[sessions[t].user].status = "active"

Starts(c, r) == /\ requests[c] = NoRequest
                /\ serial => \A d \in Clients : requests[d] = NoRequest
                /\ requests' = [requests EXCEPT ![c] = r]
                /\ UNCHANGED <<users, sessions, invites, serial>>

Ends(c) == requests' = [requests EXCEPT ![c] = NoRequest]

(* secrets.token_urlsafe: a token no session or request has.               *)
Fresh(t) == /\ ~Live(t)
            /\ \A c \in Clients : requests[c].token # t /\ t \notin requests[c].seen
            /\ serial \/ Cardinality({s \in Tokens : Live(s)}) < MaxSignedIn

Issued(t, n, current) == [sessions EXCEPT ![t] = [user |-> n, current |-> current]]
Without(gone) == [t \in Tokens |-> IF t \in gone THEN NoSession ELSE sessions[t]]

(* A new password for n: the sessions and sign-ins that showed the old one *)
(* have not shown this one.  Client c's request ends.                      *)
NewPassword(c, n, gone, kept) ==
    /\ sessions' = [t \in Tokens |-> IF sessions[t].user = n /\ t \notin gone
                                     THEN [user |-> n, current |-> t \in kept]
                                     ELSE Without(gone)[t]]
    /\ requests' = [d \in Clients |->
                      IF d = c THEN NoRequest
                      ELSE IF requests[d].op = "login" /\ requests[d].name = n
                           THEN [requests[d] EXCEPT !.current = FALSE]
                           ELSE requests[d]]

(* The UPDATE of a row names the columns whose value is not the loaded one. *)
Column(current, loaded, new) == IF new = loaded THEN current ELSE new

NewUser(role, via) == [role |-> role, status |-> "active", via |-> via]

-----------------------------------------------------------------------------
(* The first administrator (bootstrap_admin).                               *)
BootstrapRead(c, n) ==
    /\ \A m \in Names : ~Exists(m)
    /\ Starts(c, [NoRequest EXCEPT !.op = "bootstrap", !.name = n])

BootstrapCommit(c, t) ==
    LET r == requests[c] IN
    /\ r.op = "bootstrap" /\ ~Exists(r.name) /\ Fresh(t)
    /\ users' = [users EXCEPT ![r.name] = NewUser("admin", None)]
    /\ sessions' = Issued(t, r.name, TRUE)
    /\ Ends(c)
    /\ UNCHANGED <<invites, serial>>

(* Signing in: the row is read, the password verified, the session added.  *)
LoginRead(c, n) ==
    /\ Exists(n) /\ users[n].status = "active"
    /\ Starts(c, [NoRequest EXCEPT !.op = "login", !.name = n])

LoginCommit(c, t) ==
    LET r == requests[c] IN
    /\ r.op = "login" /\ Fresh(t)
    /\ sessions' = Issued(t, r.name, r.current)
    /\ Ends(c)
    /\ UNCHANGED <<users, invites, serial>>

\* Mutant: a claimed invite stays open.
ClaimCommitReusable(c, t) ==
    LET r == requests[c] IN
    /\ r.op = "claim" /\ ~Exists(r.name) /\ Fresh(t)
    /\ users' = [users EXCEPT ![r.name] = NewUser(invites[r.invite].role, r.invite)]
    /\ sessions' = Issued(t, r.name, TRUE)
    /\ Ends(c)
    /\ UNCHANGED <<invites, serial>>

(* An invite is claimed (claim_invite): the commit does not look again at  *)
(* the invite; only the UNIQUE username can refuse it.                     *)
ClaimRead(c, i, n) ==
    /\ invites[i].state = "open" /\ ~Exists(n)
    /\ Starts(c, [NoRequest EXCEPT !.op = "claim", !.name = n, !.invite = i])

ClaimCommit(c, t) ==
    LET r == requests[c] IN
    /\ r.op = "claim" /\ ~Exists(r.name) /\ Fresh(t)
    /\ users' = [users EXCEPT ![r.name] = NewUser(invites[r.invite].role, r.invite)]
    /\ invites' = [invites EXCEPT ![r.invite].state = IF @ = "open" THEN "claimed" ELSE @]
    /\ sessions' = Issued(t, r.name, TRUE)
    /\ Ends(c)
    /\ UNCHANGED serial

(* The user changes the password.  Touching last_seen_at takes the write   *)
(* lock, so only the look-up of the session precedes the rest.             *)
PasswordRead(c, t) ==
    /\ Live(t)
    /\ Starts(c, [NoRequest EXCEPT !.op = "password", !.name = sessions[t].user, !.token = t])

PasswordCommit(c) ==
    LET r == requests[c] IN
    /\ r.op = "password" /\ users[r.name].status = "active"
    /\ NewPassword(c, r.name, SessionsOf(r.name) \ {r.token}, {r.token})
    /\ UNCHANGED <<users, invites, serial>>

(* Signing out, and a session that comes to its expires_at.                *)
Logout(t) ==
    /\ Live(t)
    /\ sessions' = Without({t})
    /\ UNCHANGED <<users, invites, requests, serial>>

-----------------------------------------------------------------------------
(* An administrator's request: get_current_admin_user decides in a session *)
(* of its own, the handler acts in another one.                            *)
Authorize(c, t) ==
    /\ SignedIn(t) /\ users[sessions[t].user].role = "admin"
    /\ Starts(c, [NoRequest EXCEPT !.op = "admin", !.acting = sessions[t].user])

\* Mutant: the administrator's own account too.
TargetAnybody(c, n) == requests[c].op = "admin" /\ Exists(n)

(* require_admin_target: somebody else, who exists.                        *)
Target(c, n) == requests[c].op = "admin" /\ n # requests[c].acting /\ Exists(n)

(* admin_update_user with a role, or with the status "active".             *)
SetRole(c, n, role) ==
    /\ Target(c, n)
    /\ users' = [users EXCEPT ![n].role = role]
    /\ Ends(c)
    /\ UNCHANGED <<sessions, invites, serial>>

Enable(c, n) ==
    /\ Target(c, n)
    /\ users' = [users EXCEPT ![n].status = "active"]
    /\ Ends(c)
    /\ UNCHANGED <<sessions, invites, serial>>

(* The operations that end sessions load the row and select the sessions   *)
(* first, and write with the flush.                                        *)
SelectSessions(c, n, op) ==
    /\ Target(c, n)
    /\ requests' = [requests EXCEPT ![c] =
                      [NoRequest EXCEPT !.op = op, !.name = n, !.seen = SessionsOf(n),
                                        !.status = IF op = "disable" THEN users[n].status ELSE "active"]]
    /\ UNCHANGED <<users, sessions, invites, serial>>

\* Mutant: a disabled user's sessions stay.
DisableKeepingSessions(c) ==
    LET r == requests[c] IN
    /\ r.op = "disable"
    /\ users' = [users EXCEPT ![r.name].status = Column(@, r.status, "disabled")]
    /\ Ends(c)
    /\ UNCHANGED <<sessions, invites, serial>>

Disable(c) ==
    LET r == requests[c] IN
    /\ r.op = "disable"
    /\ users' = [users EXCEPT ![r.name].status = Column(@, r.status, "disabled")]
    /\ sessions' = Without(r.seen)
    /\ Ends(c)
    /\ UNCHANGED <<invites, serial>>

(* A random temporary password.                                            *)
ResetPassword(c) ==
    LET r == requests[c] IN
    /\ r.op = "reset"
    /\ NewPassword(c, r.name, r.seen, {})
    /\ UNCHANGED <<users, invites, serial>>

RevokeSessions(c) ==
    /\ requests[c].op = "signout"
    /\ sessions' = Without(requests[c].seen)
    /\ Ends(c)
    /\ UNCHANGED <<users, invites, serial>>

CreateInvite(c, i, role) ==
    /\ requests[c].op = "admin" /\ invites[i].state = "unused"
    /\ invites' = [invites EXCEPT ![i] = [role |-> role, state |-> "open"]]
    /\ Ends(c)
    /\ UNCHANGED <<users, sessions, serial>>

(* Revoked, also after it was claimed, which nothing distinguishes later.  *)
RevokeInvite(c, i) ==
    /\ requests[c].op = "admin" /\ invites[i].state # "unused"
    /\ invites' = [invites EXCEPT ![i].state = "closed"]
    /\ Ends(c)
    /\ UNCHANGED <<users, sessions, serial>>

InviteExpires(i) ==
    /\ invites[i].state = "open"
    /\ invites' = [invites EXCEPT ![i].state = "closed"]
    /\ UNCHANGED <<users, sessions, requests, serial>>

(* A request that is refused, or that the server's end interrupts, rolls   *)
(* its transaction back.                                                   *)
Fails(c) ==
    /\ requests[c] # NoRequest
    /\ Ends(c)
    /\ UNCHANGED <<users, sessions, invites, serial>>

-----------------------------------------------------------------------------
Administrates(c) ==
    \/ \E t \in Tokens : Authorize(c, t)
    \/ \E n \in Names : \/ \E role \in Roles : SetRole(c, n, role)
                        \/ Enable(c, n)
                        \/ \E op \in {"disable", "reset", "signout"} : SelectSessions(c, n, op)
    \/ Disable(c)
    \/ ResetPassword(c)
    \/ RevokeSessions(c)
    \/ \E i \in Invites : \/ \E role \in Roles : CreateInvite(c, i, role)
                          \/ RevokeInvite(c, i)

UsesAccount(c) ==
    \/ \E n \in Names : \/ BootstrapRead(c, n)
                        \/ LoginRead(c, n)
                        \/ \E i \in Invites : ClaimRead(c, i, n)
    \/ \E t \in Tokens : \/ BootstrapCommit(c, t)
                         \/ LoginCommit(c, t)
                         \/ ClaimCommit(c, t)
                         \/ PasswordRead(c, t)
    \/ PasswordCommit(c)
    \/ Fails(c)

NextAccounts ==
    \/ \E c \in Clients : UsesAccount(c) \/ Administrates(c)
    \/ \E t \in Tokens : Logout(t)
    \/ \E i \in Invites : InviteExpires(i)

SpecAccounts == InitAccounts /\ [][NextAccounts]_accountsVars

-----------------------------------------------------------------------------
(* How many of a thing that is to happen once may happen: overlapping      *)
(* requests each do it once.                                               *)
Once == IF serial THEN 1 ELSE Cardinality(Clients)

(* An invite makes one user, and the empty table one first administrator:  *)
(* only requests that claim it at the same time (claim_invite,             *)
(* auth.py:283), or all counted no user (bootstrap_admin, auth.py:121),    *)
(* make one each, and never a later one.                                   *)
UsersAreMadeOnce ==
    \A i \in Invites \cup {None} : Cardinality({n \in Names : Exists(n) /\ users[n].via = i}) <= Once

(* When requests do not overlap, whoever is signed in is an active user    *)
(* and has shown the password the user has now: neither a password that    *)
(* was changed or reset nor a disabled account leaves a session behind.    *)
SessionsProveThePassword ==
    serial => \A t \in Tokens : Live(t) => /\ users[sessions[t].user].status = "active"
                                           /\ sessions[t].current

(* When requests do not overlap, an active administrator always remains:   *)
(* without one nobody could make one, bootstrap_admin being over.          *)
AdministratorRemains ==
    serial => \/ \A n \in Names : ~Exists(n)
              \/ \E n \in Names : users[n].role = "admin" /\ users[n].status = "active"
=============================================================================
