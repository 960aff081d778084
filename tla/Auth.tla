-------------------------------- MODULE Auth --------------------------------
(***************************************************************************)
(* Who may call Apchi.  Users, sessions, tokens and half-finished SSO      *)
(* logins are rows in MongoDB.  A request is its handler, split at every   *)
(* await: resolving a credential reads two rows, a sign-in reads one, may  *)
(* rehash it, and writes another.                                          *)
(*                                                                         *)
(* There is no route that administers users: whoever disables, provisions  *)
(* or deletes a user, or changes a password, does it in the database, by   *)
(* hand.  What nobody can present twice (a handle, a state, a session's    *)
(* value) is named by the row it belongs to.  A row that outlives its      *)
(* expiry and one that the TTL index reaped are the same row here: every   *)
(* reader checks.                                                          *)
(***************************************************************************)
EXTENDS Naturals, FiniteSets, Sequences

CONSTANTS
    Users,          \* usernames
    AtProvider,     \* those of them the identity provider knows
    Initial,        \* the username of the initial Admin
    Anonymous,      \* who calls when nobody has to sign in
    Sessions, Tokens, Logins,   \* bounds: the rows ever made
    Requests,       \* bound: requests in flight at once
    Modes,          \* the authentication modes the process is started with
    MaxHand,        \* bound: changes made by hand
    Passwords,      \* passwords a user has had
    None

ASSUME AuthAssumption ==
    /\ Initial \in Users /\ AtProvider \subseteq Users
    /\ Anonymous \notin Users
    /\ Modes \subseteq {"none", "password", "sso"}
    /\ MaxHand \in Nat
    /\ \A S \in {Users, Sessions, Tokens, Logins, Passwords} : None \notin S
    /\ Sessions \cap Tokens = {}
    /\ Passwords # {}

VARIABLES
    mode, process,          \* the configured mode, and whether it serves
    users, sessions, tokens, logins,
    audit,                  \* the audit events about each token
    request,
    hand,                   \* how often the database was changed by hand
    seen                    \* history: what each request's credential stood for

authVars == <<mode, process, users, sessions, tokens, logins, audit,
              request, hand, seen>>

Roles == {"operator", "admin"}
Hashes == [of: Passwords, weak: BOOLEAN]
Rows == [role: Roles, hash: Hashes \cup {None}, disabled: BOOLEAN]
Identities == [subject: Users \cup {Anonymous}, role: Roles,
               via: {"none", "password", "sso", "token"}]
Nobody == [subject |-> Anonymous, role |-> "admin", via |-> "none"]
SessionRows == [user: Users, via: {"password", "sso"}, login: Logins \cup {None},
                status: {"live", "gone"}]
TokenRows == [owner: Users, status: {"live", "expired", "revoked"}]
LoginRows == [user: Users, status: {"live", "gone"}]
Events == [token: Tokens, action: {"minted", "revoked"}]

ASSUME NoneAssumption ==
    \A S \in {Rows, Identities, SessionRows, TokenRows, LoginRows, Events} : None \notin S

Idle == [at |-> "idle", credential |-> None, user |-> None, identity |-> None,
         login |-> None, typed |-> None, claim |-> None, event |-> None]

Enabled(u) == users[u] # None /\ ~users[u].disabled
Fresh(rows) == {i \in DOMAIN rows : rows[i] = None}

Goes(r, at) == request' = [request EXCEPT ![r].at = at]
Admits(r, identity) ==
    request' = [request EXCEPT ![r].at = "admitted", ![r].identity = identity]
Audits(r, event) == request' = [request EXCEPT ![r].at = "audit", ![r].event = event]
Ends(r) == request' = [request EXCEPT ![r] = Idle]

-----------------------------------------------------------------------------
(* What a credential is worth, for the history. *)

Live(c) ==
    \/ c \in Sessions /\ sessions[c] # None /\ sessions[c].status = "live"
    \/ c \in Tokens /\ tokens[c] # None /\ tokens[c].status = "live"

Holder(c) == IF c \in Sessions THEN sessions[c].user ELSE tokens[c].owner

\* What the credential of r stands for now; nothing when r carries none.
Standing(r) ==
    LET c == request[r].credential IN
    IF c = None THEN [live |-> FALSE, roles |-> {}]
    ELSE [live |-> Live(c),
          roles |-> IF Enabled(Holder(c)) THEN {users[Holder(c)].role} ELSE {}]

\* From its arrival to its admission, r's credential was live at some moment and its holder
\* had these roles.
Witness ==
    seen' = [r \in Requests |->
        LET now == Standing(r)'
        IN  IF request'[r].credential = None \/ request[r].credential = None THEN now
            ELSE IF request[r].identity # None THEN seen[r]
            ELSE [live |-> seen[r].live \/ now.live, roles |-> seen[r].roles \cup now.roles]]

-----------------------------------------------------------------------------
(* Start-up. *)

Init ==
    /\ mode \in Modes /\ process = "down"
    /\ users = [u \in Users |-> None]
    /\ sessions = [s \in Sessions |-> None]
    /\ tokens = [t \in Tokens |-> None]
    /\ logins = [l \in Logins |-> None]
    /\ audit = [t \in Tokens |-> <<>>]
    /\ request = [r \in Requests |-> Idle]
    /\ hand = 0
    /\ seen = [r \in Requests |-> [live |-> FALSE, roles |-> {}]]

rows == <<users, sessions, tokens, logins, audit>>
surroundings == <<mode, process, hand>>

\* bootstrap, first await: an Admin is created only where there is nobody at all.
CountUsers ==
    /\ process = "down"
    /\ process' = IF mode # "none" /\ \A u \in Users : users[u] = None THEN "empty" ELSE "up"
    /\ UNCHANGED <<mode, hand, request, rows>>

\* bootstrap, second await: the insert, or the duplicate key that says somebody was quicker.
CreateInitialAdmin ==
    /\ process = "empty" /\ process' = "up"
    /\ users' = [users EXCEPT ![Initial] =
          IF @ # None THEN @
          ELSE [role |-> "admin", disabled |-> FALSE,
                hash |-> [of |-> CHOOSE p \in Passwords : TRUE, weak |-> TRUE]]]
    /\ UNCHANGED <<mode, hand, request, sessions, tokens, logins, audit>>

\* A store that does not answer leaves the initial Admin to the next start.
BootstrapFails ==
    /\ process # "up" /\ process' = "up"
    /\ UNCHANGED <<mode, hand, request, rows>>

\* The process stops, and is started with the same settings or others.
Restart ==
    /\ process = "up" /\ process' = "down"
    /\ mode' \in Modes
    /\ request' = [r \in Requests |-> Idle]
    /\ UNCHANGED <<hand, rows>>

-----------------------------------------------------------------------------
(* Resolving the caller. *)

\* A request with a session's value or a token's secret.  Without one it is refused at once.
Arrive(r, c) ==
    /\ process = "up" /\ request[r] = Idle
    /\ c \in {s \in Sessions : sessions[s] # None} \cup {t \in Tokens : tokens[t] # None}
    /\ request' = [request EXCEPT
          ![r].credential = c,
          ![r].at = IF mode = "none" THEN "admitted" ELSE "arrived",
          ![r].identity = IF mode = "none" THEN Nobody ELSE None]
    /\ UNCHANGED <<surroundings, rows>>

\* The token row: anything but a live one is refused, with no second way in.
FindToken(r) ==
    LET t == request[r].credential IN
    /\ request[r].at = "arrived" /\ t \in Tokens
    /\ IF tokens[t].status = "live" THEN Goes(r, "owner") ELSE Ends(r)
    /\ UNCHANGED <<surroundings, rows>>

\* The owner's row, as it is now; the token acts with the role it finds there.
FindOwner(r) ==
    LET owner == tokens[request[r].credential].owner IN
    /\ request[r].at = "owner"
    /\ IF Enabled(owner)
       THEN Admits(r, [subject |-> owner, role |-> users[owner].role, via |-> "token"])
       ELSE Ends(r)
    /\ UNCHANGED <<surroundings, rows>>

ReadSession(r) ==
    LET s == request[r].credential IN
    /\ request[r].at = "arrived" /\ s \in Sessions
    /\ IF sessions[s].status = "live" THEN Goes(r, "user") ELSE Ends(r)
    /\ UNCHANGED <<surroundings, rows>>

\* Mutant: a disabled account is let in.
ReadUserOfSession(r) ==
    LET s == sessions[request[r].credential] IN
    /\ request[r].at = "user"
    /\ IF users[s.user] # None
       THEN Admits(r, [subject |-> s.user, role |-> users[s.user].role, via |-> s.via])
       ELSE Ends(r)
    /\ UNCHANGED <<surroundings, rows>>

\* The user's row decides; of the session only `via` is its own.
ReadUser(r) ==
    LET s == sessions[request[r].credential] IN
    /\ request[r].at = "user"
    /\ IF Enabled(s.user)
       THEN Admits(r, [subject |-> s.user, role |-> users[s.user].role, via |-> s.via])
       ELSE Ends(r)
    /\ UNCHANGED <<surroundings, rows>>

-----------------------------------------------------------------------------
(* What an admitted caller does with credentials. *)

\* Any other route: it ends, and what it did is modelled elsewhere.
OtherRoute(r) ==
    /\ request[r].at = "admitted" /\ Ends(r)
    /\ UNCHANGED <<surroundings, rows>>

\* Mutant: a token for whoever calls.
MintTokenForAnyone(r, t) ==
    /\ request[r].at = "admitted" /\ t \in Fresh(tokens)
    /\ tokens' = [tokens EXCEPT ![t] =
          [owner |-> request[r].identity.subject, status |-> "live"]]
    /\ Audits(r, [token |-> t, action |-> "minted"])
    /\ UNCHANGED <<surroundings, users, sessions, logins, audit>>

\* Only somebody who signed in can own a token.
MintToken(r, t) ==
    /\ request[r].at = "admitted" /\ mode # "none" /\ request[r].identity # Nobody
    /\ t \in Fresh(tokens)
    /\ tokens' = [tokens EXCEPT ![t] =
          [owner |-> request[r].identity.subject, status |-> "live"]]
    /\ Audits(r, [token |-> t, action |-> "minted"])
    /\ UNCHANGED <<surroundings, users, sessions, logins, audit>>

\* Mutant: the update is not conditional.
RevocableAlways(t) == TRUE

\* One conditional update decides which of two revocations it was.
Revocable(t) == tokens[t].status # "revoked"

\* Only the owner's; anybody else's is not found.
RevokeToken(r, t) ==
    /\ request[r].at = "admitted"
    /\ tokens[t] # None /\ tokens[t].owner = request[r].identity.subject
    /\ IF Revocable(t)
       THEN /\ tokens' = [tokens EXCEPT ![t].status = "revoked"]
            /\ Audits(r, [token |-> t, action |-> "revoked"])
       ELSE Ends(r) /\ UNCHANGED tokens
    /\ UNCHANGED <<surroundings, users, sessions, logins, audit>>

\* Never fatal: the event is recorded, or lost, and the request ends.
AuditToken(r) ==
    LET e == request[r].event IN
    /\ request[r].at = "audit" /\ Ends(r)
    /\ \/ audit' = [audit EXCEPT ![e.token] =
             Append(@, [action |-> e.action, by |-> request[r].identity.subject])]
       \/ UNCHANGED audit
    /\ UNCHANGED <<surroundings, users, sessions, tokens, logins>>

\* The session named by the cookie ends, however the caller was resolved.
Logout(r, s) ==
    /\ request[r].at = "admitted" /\ sessions[s] # None
    /\ request[r].credential \in Sessions => s = request[r].credential
    /\ sessions' = [sessions EXCEPT ![s].status = "gone"]
    /\ Ends(r)
    /\ UNCHANGED <<surroundings, users, tokens, logins, audit>>

-----------------------------------------------------------------------------
(* Signing in with a password. *)

\* The row is read, the password verified against it, and a disabled account refused; a
\* missing hash matches nothing.
Authenticate(r, u, p) ==
    /\ process = "up" /\ mode = "password" /\ request[r] = Idle
    /\ Enabled(u) /\ users[u].hash # None /\ users[u].hash.of = p
    /\ request' = [request EXCEPT
          ![r].at = IF users[u].hash.weak THEN "rehash" ELSE "signin",
          ![r].user = u, ![r].typed = p]
    /\ UNCHANGED <<surroundings, rows>>

\* The hash of the password that was typed, whatever the row holds by now, if there is one.
RestoreHash(r) ==
    LET u == request[r].user IN
    /\ request[r].at = "rehash" /\ Goes(r, "signin")
    /\ IF users[u] = None THEN UNCHANGED users
       ELSE users' = [users EXCEPT ![u].hash = [of |-> request[r].typed, weak |-> FALSE]]
    /\ UNCHANGED <<surroundings, sessions, tokens, logins, audit>>

\* Either way of signing in ends in a new row.
CreateSession(r, s) ==
    /\ request[r].at = "signin" /\ s \in Fresh(sessions)
    /\ sessions' = [sessions EXCEPT ![s] =
          [user |-> request[r].user, status |-> "live", login |-> request[r].login,
           via |-> IF request[r].login = None THEN "password" ELSE "sso"]]
    /\ Ends(r)
    /\ UNCHANGED <<surroundings, users, tokens, logins, audit>>

-----------------------------------------------------------------------------
(* Signing in at the provider. *)

\* The attempt is written down, the browser sent away, and the person signs in there.
SsoLogin(u, l) ==
    /\ process = "up" /\ mode = "sso" /\ l \in Fresh(logins)
    /\ logins' = [logins EXCEPT ![l] = [user |-> u, status |-> "live"]]
    /\ UNCHANGED <<surroundings, users, sessions, tokens, audit, request>>

\* Mutant: the attempt is read and left to expire.
TakeKept(l) == UNCHANGED logins

\* take reads and deletes at once.
Take(l) == logins' = [logins EXCEPT ![l].status = "gone"]

\* The callback in a browser whose cookie is of the attempt l: l is spent, and the login goes
\* on only if it was live and the state is its own, not that of an attempt in another tab.
SsoCallback(r, l, state) ==
    /\ process = "up" /\ mode = "sso" /\ request[r] = Idle
    /\ logins[l] # None
    /\ Take(l)
    /\ IF logins[l].status = "live" /\ state = l
       THEN request' = [request EXCEPT
               ![r].at = "exchange", ![r].login = l, ![r].user = logins[l].user]
       ELSE UNCHANGED request
    /\ UNCHANGED <<surroundings, users, sessions, tokens, audit>>

\* The provider declined, the code is spent or the connection failed: the login ends.
LoginFails(r) ==
    /\ request[r].at \in {"exchange", "claims"} /\ Ends(r)
    /\ UNCHANGED <<surroundings, rows>>

\* The ID token carries the groups of this moment, and one role follows from them.
Exchange(r) ==
    /\ request[r].at = "exchange"
    /\ \E role \in Roles :
          request' = [request EXCEPT ![r].at = "claims", ![r].claim = role]
    /\ UNCHANGED <<surroundings, rows>>

\* The signature, the issuer, the audience, the expiry and the nonce are checked against the
\* attempt that was taken; then the claims give a username and a role.
Claims(r) ==
    /\ request[r].at = "claims" /\ Goes(r, "mirror")
    /\ UNCHANGED <<surroundings, rows>>

\* Mutant: the login writes a whole row.
MirroredWhole(row, role) == [role |-> role, hash |-> None, disabled |-> FALSE]

\* The row an SSO login leaves: the role is the provider's, the rest of the row stays.
Mirrored(row, role) ==
    IF row = None THEN [role |-> role, hash |-> None, disabled |-> FALSE]
    ELSE [row EXCEPT !.role = role]

Mirror(r) ==
    LET u == request[r].user IN
    /\ request[r].at = "mirror"
    /\ users' = [users EXCEPT ![u] = Mirrored(@, request[r].claim)]
    /\ IF users'[u].disabled THEN Ends(r) ELSE Goes(r, "signin")
    /\ UNCHANGED <<surroundings, sessions, tokens, logins, audit>>

-----------------------------------------------------------------------------
(* The surroundings. *)

\* Somebody with access to the database: the only way to administer users.
ByHand ==
    /\ hand < MaxHand /\ hand' = hand + 1
    /\ \E u \in Users :
          \/ /\ users[u] = None
             /\ \E p \in Passwords, role \in Roles :
                   users' = [users EXCEPT ![u] =
                      [role |-> role, disabled |-> FALSE, hash |-> [of |-> p, weak |-> FALSE]]]
          \/ /\ users[u] # None
             /\ \/ users' = [users EXCEPT ![u] = None]
                \/ users' = [users EXCEPT ![u].disabled = ~@]
                \/ \E role \in Roles : users' = [users EXCEPT ![u].role = role]
                \/ \E p \in Passwords :
                      users' = [users EXCEPT ![u].hash = [of |-> p, weak |-> FALSE]]
    /\ UNCHANGED <<mode, process, request,
                   sessions, tokens, logins, audit>>

\* Time passes for one credential or one attempt.
Expires ==
    /\ \/ \E s \in Sessions : Live(s) /\ sessions' = [sessions EXCEPT ![s].status = "gone"]
                                      /\ UNCHANGED <<tokens, logins>>
       \/ \E t \in Tokens : Live(t) /\ tokens' = [tokens EXCEPT ![t].status = "expired"]
                                    /\ UNCHANGED <<sessions, logins>>
       \/ \E l \in Logins : logins[l] # None /\ Take(l) /\ UNCHANGED <<sessions, tokens>>
    /\ UNCHANGED <<surroundings, users, audit, request>>

Surroundings == ByHand \/ Expires

Start == CountUsers \/ CreateInitialAdmin \/ BootstrapFails \/ Restart

Resolve(r) ==
    \/ \E c \in Sessions \cup Tokens : Arrive(r, c)
    \/ FindToken(r) \/ FindOwner(r) \/ ReadSession(r) \/ ReadUser(r)

Act(r) ==
    \/ OtherRoute(r) \/ AuditToken(r)
    \/ \E t \in Tokens : MintToken(r, t) \/ RevokeToken(r, t)
    \/ \E s \in Sessions : Logout(r, s)

SignIn(r) ==
    \/ \E u \in Users, p \in Passwords : Authenticate(r, u, p)
    \/ RestoreHash(r)
    \/ \E s \in Sessions : CreateSession(r, s)
    \/ \E l \in Logins, state \in Logins \cup {None} : SsoCallback(r, l, state)
    \/ LoginFails(r) \/ Exchange(r) \/ Claims(r) \/ Mirror(r)

Step ==
    \/ Start \/ Surroundings
    \/ \E r \in Requests : Resolve(r) \/ Act(r) \/ SignIn(r)
    \/ \E u \in AtProvider, l \in Logins : SsoLogin(u, l)

Next == Step /\ Witness

Spec == Init /\ [][Next]_authVars

-----------------------------------------------------------------------------
(* Properties. *)

Steps == {"idle", "arrived", "owner", "user", "admitted", "audit", "rehash", "signin",
          "exchange", "claims", "mirror"}

Handlers ==
    [at: Steps, credential: Sessions \cup Tokens \cup {None}, user: Users \cup {None},
     identity: Identities \cup {None}, login: Logins \cup {None},
     typed: Passwords \cup {None}, claim: Roles \cup {None}, event: Events \cup {None}]

StoredOK ==
    /\ mode \in Modes /\ process \in {"down", "empty", "up"}
    /\ users \in [Users -> Rows \cup {None}]
    /\ sessions \in [Sessions -> SessionRows \cup {None}]
    /\ tokens \in [Tokens -> TokenRows \cup {None}]
    /\ logins \in [Logins -> LoginRows \cup {None}]
    /\ audit \in [Tokens -> Seq([action: {"minted", "revoked"}, by: Users])]
    /\ hand \in 0..MaxHand
    /\ request \in [Requests -> Handlers]

\* Every row and every handler holds what its store and its code put there.
AuthTypeOK ==
    /\ StoredOK
    /\ seen \in [Requests -> [live: BOOLEAN, roles: SUBSET Roles]]

\* "Revoke this person now" (auth/sessions.py): an admitted request acts with a role that the
\* holder of its credential had, enabled, while the request ran, and its credential was live
\* while it ran.  Logging out, revoking, expiring, disabling or demoting therefore reaches
\* every request that arrives afterwards, whichever of the two rows is read first.
AuthorityIsHeld ==
    \A r \in Requests :
        LET i == request[r].identity IN
        i # None /\ i # Nobody =>
            /\ i.subject = Holder(request[r].credential)
            /\ i.role \in seen[r].roles /\ seen[r].live

\* "A state only ever works once" (auth/logins.py): however often and from however many
\* tabs a callback is sent, one attempt makes at most one session, or is on its way to one.
OneSessionPerLogin ==
    \A l \in Logins :
        Cardinality({s \in Sessions : sessions[s] # None /\ sessions[s].login = l})
        + Cardinality({r \in Requests : request[r].login = l}) <= 1

\* The audit tells who minted and who revoked a token: at most one event of each kind, and
\* both name the owner, even when two requests revoke the same token at once.
TokenTrail ==
    \A t \in Tokens : \A i, j \in DOMAIN audit[t] :
        /\ audit[t][i].by = tokens[t].owner
        /\ audit[t][i].action = audit[t][j].action => i = j

\* What was decided by hand stands: no sign-in and no restart enables a disabled account, no
\* password is replaced but by a sign-in that verified it before the change, and a deleted row
\* comes back only by a login at the provider, or at a start that counted no users.
HandStands ==
    [][\A u \in Users :
          /\ users[u] # None /\ hand' = hand =>
              /\ users'[u] # None /\ users'[u].disabled = users[u].disabled
              /\ users'[u].hash # users[u].hash =>
                    \E r \in Requests : /\ request[r].at = "rehash" /\ request[r].user = u
                                         /\ users'[u].hash.of = request[r].typed
          /\ users[u] = None /\ hand' = hand /\ users'[u] # None =>
              \/ u = Initial /\ process = "empty"
              \/ \E r \in Requests : request[r].at = "mirror" /\ request[r].user = u]_authVars

=============================================================================
