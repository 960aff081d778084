----------------------------- MODULE Auth_proofs -----------------------------
(***************************************************************************)
(* Proofs about Auth, for any number of users, sessions, tokens, logins    *)
(* and requests in flight, and any number of changes made by hand.         *)
(***************************************************************************)
EXTENDS Auth, FiniteSetTheorems, SequenceTheorems, TLAPS

-----------------------------------------------------------------------------
(* What a handler knows at each of its awaits. *)

SigningIn == {"rehash", "signin", "exchange", "claims", "mirror"}
Resolving == {"arrived", "owner", "user"}
Resolved == {"admitted", "audit"}

\* A session or a token that was made; its row is never taken away.
Held(c) ==
    \/ c \in Sessions /\ sessions[c] # None
    \/ c \in Tokens /\ tokens[c] # None

\* A handler between its awaits: what is set, and what it stands for.
HandlerOK(r) ==
    LET q == request[r] IN
    /\ q.at = "idle" => q = Idle
    /\ q.at \in Resolving \cup Resolved =>
          Held(q.credential) /\ q.login = None /\ q.user = None
    /\ q.at \in Resolving => q.identity = None /\ q.event = None
    /\ q.at = "owner" => q.credential \in Tokens
    /\ q.at = "user" => q.credential \in Sessions
    /\ q.at \in Resolved =>
          /\ q.identity \in Identities
          /\ \/ q.identity = Nobody
             \/ q.identity.subject \in Users /\ q.identity.subject = Holder(q.credential)
    /\ q.at = "admitted" => q.event = None
    /\ q.at = "audit" => q.event \in Events /\ q.identity.subject \in Users
    /\ q.at \in SigningIn =>
          q.credential = None /\ q.identity = None /\ q.event = None /\ q.user \in Users
    /\ q.at = "rehash" => q.typed \in Passwords /\ q.login = None
    /\ q.at \in {"exchange", "claims", "mirror"} => q.login \in Logins
    /\ q.at \in {"claims", "mirror"} => q.claim \in Roles

CoreInv == StoredOK /\ \A r \in Requests : HandlerOK(r)

\* Until it is admitted, a request has been seen with everything its credential
\* stands for now; past the first row, that the credential was live.
SeenSoFar ==
    \A r \in Requests :
        request[r].at \in Resolving =>
            /\ Standing(r).live => seen[r].live
            /\ Standing(r).roles \subseteq seen[r].roles
            /\ request[r].at \in {"owner", "user"} => seen[r].live

\* An event is on its way or in the audit, once, and only of a token it is true of.
EventsTrue ==
    \A t \in Tokens :
        /\ tokens[t] = None => audit[t] = <<>>
        /\ \A i \in DOMAIN audit[t] :
              audit[t][i].action = "revoked" => tokens[t].status = "revoked"
        /\ \A r \in Requests : request[r].at = "audit" /\ request[r].event.token = t =>
              /\ tokens[t] # None /\ request[r].identity.subject = tokens[t].owner
              /\ request[r].event.action = "revoked" => tokens[t].status = "revoked"
              /\ \A i \in DOMAIN audit[t] : audit[t][i].action # request[r].event.action
              /\ \A q \in Requests :
                    request[q].at = "audit" /\ request[q].event = request[r].event => q = r

\* A login that a session or a handler came from is spent, and came to one of them.
Spent(l) == logins[l] # None /\ logins[l].status = "gone"
LoginsSpent ==
    /\ \A s \in Sessions : sessions[s] # None /\ sessions[s].login # None =>
          /\ Spent(sessions[s].login)
          /\ \A q \in Sessions :
                sessions[q] # None /\ sessions[q].login = sessions[s].login => q = s
          /\ \A r \in Requests : request[r].login # sessions[s].login
    /\ \A r \in Requests : request[r].login # None =>
          /\ Spent(request[r].login)
          /\ \A q \in Requests : request[q].login = request[r].login => q = r

-----------------------------------------------------------------------------
(* Rows and handlers. *)

\* No row of a credential or an attempt is taken away, changes hands, or comes back to life.
RowsStay ==
    /\ \A s \in Sessions : sessions[s] # None =>
          /\ sessions'[s] # None /\ sessions'[s].user = sessions[s].user
          /\ sessions'[s].login = sessions[s].login
    /\ \A t \in Tokens : tokens[t] # None =>
          /\ tokens'[t] # None /\ tokens'[t].owner = tokens[t].owner
          /\ tokens[t].status = "revoked" => tokens'[t].status = "revoked"
    /\ \A l \in Logins : Spent(l) => Spent(l)'

\* None is no row, no identity and no event.
LEMMA NoneIsNothing ==
    /\ None \notin Rows /\ None \notin SessionRows /\ None \notin TokenRows
    /\ None \notin LoginRows /\ None \notin Events /\ None \notin Identities
    /\ None \notin Users /\ None \notin Sessions /\ None \notin Tokens
    /\ None \notin Logins /\ None \notin Passwords
BY NoneAssumption, AuthAssumption

\* Rows that are there have their fields.
LEMMA RowTypes ==
    ASSUME StoredOK
    PROVE  /\ \A u \in Users : users[u] # None =>
                 users[u] \in Rows /\ users[u].role \in Roles /\ users[u].disabled \in BOOLEAN
           /\ \A s \in Sessions : sessions[s] # None =>
                 /\ sessions[s] \in SessionRows /\ sessions[s].user \in Users
                 /\ sessions[s].via \in {"password", "sso"}
           /\ \A t \in Tokens : tokens[t] # None =>
                 tokens[t] \in TokenRows /\ tokens[t].owner \in Users
           /\ \A l \in Logins : logins[l] # None =>
                 logins[l] \in LoginRows /\ logins[l].user \in Users
           /\ \A r \in Requests : request[r] \in Handlers
           /\ Idle \in Handlers
<1>1. \A u \in Users : users[u] # None =>
         users[u] \in Rows /\ users[u].role \in Roles /\ users[u].disabled \in BOOLEAN
  BY DEF StoredOK, Rows
<1>2. \A s \in Sessions : sessions[s] # None =>
         /\ sessions[s] \in SessionRows /\ sessions[s].user \in Users
         /\ sessions[s].via \in {"password", "sso"}
  BY DEF StoredOK, SessionRows
<1>3. \A t \in Tokens : tokens[t] # None =>
         tokens[t] \in TokenRows /\ tokens[t].owner \in Users
  BY DEF StoredOK, TokenRows
<1>4. \A l \in Logins : logins[l] # None =>
         logins[l] \in LoginRows /\ logins[l].user \in Users
  BY DEF StoredOK, LoginRows
<1>5. Idle \in Handlers
  BY DEF Idle, Handlers, Steps
<1>6. QED BY <1>1, <1>2, <1>3, <1>4, <1>5 DEF StoredOK

\* A handler that does not move still knows what it knew.
LEMMA OthersKeep ==
    ASSUME CoreInv, RowsStay, NEW r \in Requests, request'[r] = request[r]
    PROVE  HandlerOK(r)'
<1>1. HandlerOK(r) /\ request[r] \in Handlers
  BY RowTypes DEF CoreInv
<1>2. ASSUME Held(request[r].credential)
      PROVE  /\ Held(request[r].credential)'
             /\ Holder(request[r].credential)' = Holder(request[r].credential)
  BY <1>2, AuthAssumption DEF Held, Holder, RowsStay
<1>3. QED BY <1>1, <1>2 DEF HandlerOK, Held, Holder

\* So a step of one handler keeps them all, if it keeps that one.
LEMMA OneMoves ==
    ASSUME CoreInv, RowsStay, StoredOK', NEW r \in Requests,
           \A x \in Requests \ {r} : request'[x] = request[x],
           HandlerOK(r)'
    PROVE  CoreInv'
BY OthersKeep DEF CoreInv

\* A handler that ended knows nothing.
LEMMA IdleKnows ==
    ASSUME NEW r \in Requests, request'[r] = Idle
    PROVE  HandlerOK(r)'
BY DEF HandlerOK, Idle, Resolving, Resolved, SigningIn

-----------------------------------------------------------------------------
(* Resolving a caller. *)

\* A step that leaves the store alone.
LEMMA RowsUnchanged ==
    ASSUME UNCHANGED rows
    PROVE  RowsStay
BY DEF rows, RowsStay, Spent

\* A request that presents a credential keeps the core invariant.
LEMMA ArriveCore ==
    ASSUME CoreInv, NEW r \in Requests, NEW c \in Sessions \cup Tokens, Arrive(r, c)
    PROVE  CoreInv' /\ RowsStay
<1>1. RowsStay
  BY RowsUnchanged DEF Arrive
<1>2. request[r] \in Handlers /\ request \in [Requests -> Handlers] /\ StoredOK
  BY DEF CoreInv, StoredOK
<1>3. /\ \A x \in Requests \ {r} : request'[x] = request[x]
      /\ request'[r] = [Idle EXCEPT
            !.credential = c,
            !.at = IF mode = "none" THEN "admitted" ELSE "arrived",
            !.identity = IF mode = "none" THEN Nobody ELSE None]
      /\ request' = [request EXCEPT ![r] = request'[r]]
  BY <1>2 DEF Arrive
<1>4. Nobody \in Identities
  BY DEF Nobody, Identities, Roles
<1>5. request'[r] \in Handlers
  BY <1>3, <1>4 DEF Idle, Handlers, Steps
<1>6. StoredOK'
  BY <1>2, <1>3, <1>5 DEF StoredOK, Arrive, rows, surroundings
<1>7. Held(c)'
  BY DEF Arrive, rows, Held
<1>8. HandlerOK(r)'
  BY <1>3, <1>4, <1>7 DEF HandlerOK, Idle, Resolving, Resolved, SigningIn
<1>9. QED BY <1>1, <1>3, <1>6, <1>8, OneMoves

\* Reading the first row, and then the second: the token, the session, and whose
\* they are stay what they were found to be.
LEMMA ResolveCore ==
    ASSUME CoreInv, NEW r \in Requests,
           FindToken(r) \/ FindOwner(r) \/ ReadSession(r) \/ ReadUser(r)
    PROVE  CoreInv' /\ RowsStay
<1>1. RowsStay /\ UNCHANGED <<surroundings, rows>>
  BY RowsUnchanged DEF FindToken, FindOwner, ReadSession, ReadUser
<1>2. /\ request[r] \in Handlers /\ request \in [Requests -> Handlers]
      /\ StoredOK /\ HandlerOK(r) /\ Held(request[r].credential)
  BY DEF CoreInv, StoredOK, HandlerOK, FindToken, FindOwner, ReadSession, ReadUser, Resolving
<1>3. \A x \in Requests \ {r} : request'[x] = request[x]
  BY <1>2 DEF FindToken, FindOwner, ReadSession, ReadUser, Goes, Ends, Admits
<1>4. SUFFICES request'[r] \in Handlers /\ HandlerOK(r)' /\ request' = [request EXCEPT ![r] = request'[r]]
  <2>1. ASSUME request'[r] \in Handlers, request' = [request EXCEPT ![r] = request'[r]]
        PROVE  StoredOK'
    BY <1>1, <1>2, <2>1 DEF StoredOK, rows, surroundings
  <2>2. QED BY <1>1, <1>3, <2>1, OneMoves
<1>5. CASE request' = [request EXCEPT ![r] = Idle]
  BY <1>2, <1>5, IdleKnows, RowTypes
<1>6. CASE FindToken(r) /\ Goes(r, "owner")
  <2>1. /\ request' = [request EXCEPT ![r] = request'[r]]
        /\ request'[r] = [request[r] EXCEPT !.at = "owner"]
    BY <1>2, <1>6 DEF Goes
  <2>2. /\ request'[r] \in Handlers
        /\ request'[r].at = "owner" /\ request'[r].credential = request[r].credential
        /\ request'[r].login = request[r].login /\ request'[r].user = request[r].user
        /\ request'[r].identity = request[r].identity /\ request'[r].event = request[r].event
    BY <1>2, <2>1 DEF Handlers, Steps
  <2>3. request[r].at = "arrived" /\ request[r].credential \in Tokens
    BY <1>6 DEF FindToken
  <2>4. HandlerOK(r)'
    BY <1>1, <1>2, <2>2, <2>3 DEF HandlerOK, Held, rows, Resolving, Resolved, SigningIn
  <2>5. QED BY <2>1, <2>2, <2>4
<1>7. CASE ReadSession(r) /\ Goes(r, "user")
  <2>1. /\ request' = [request EXCEPT ![r] = request'[r]]
        /\ request'[r] = [request[r] EXCEPT !.at = "user"]
    BY <1>2, <1>7 DEF Goes
  <2>2. /\ request'[r] \in Handlers
        /\ request'[r].at = "user" /\ request'[r].credential = request[r].credential
        /\ request'[r].login = request[r].login /\ request'[r].user = request[r].user
        /\ request'[r].identity = request[r].identity /\ request'[r].event = request[r].event
    BY <1>2, <2>1 DEF Handlers, Steps
  <2>3. request[r].at = "arrived" /\ request[r].credential \in Sessions
    BY <1>7 DEF ReadSession
  <2>4. HandlerOK(r)'
    BY <1>1, <1>2, <2>2, <2>3 DEF HandlerOK, Held, rows, Resolving, Resolved, SigningIn
  <2>5. QED BY <2>1, <2>2, <2>4
<1>8. ASSUME NEW i \in Identities, request[r].at \in {"owner", "user"}, Admits(r, i),
             i.subject \in Users, i.subject = Holder(request[r].credential)
      PROVE  /\ request' = [request EXCEPT ![r] = request'[r]]
             /\ request'[r] \in Handlers /\ HandlerOK(r)'
  <2>1. /\ request' = [request EXCEPT ![r] = request'[r]]
        /\ request'[r] = [request[r] EXCEPT !.at = "admitted", !.identity = i]
    BY <1>2, <1>8 DEF Admits
  <2>2. /\ request'[r] \in Handlers
        /\ request'[r].at = "admitted" /\ request'[r].credential = request[r].credential
        /\ request'[r].login = request[r].login /\ request'[r].user = request[r].user
        /\ request'[r].identity = i /\ request'[r].event = request[r].event
    BY <1>2, <1>8, <2>1 DEF Handlers, Steps
  <2>3. HandlerOK(r)'
    BY <1>1, <1>2, <1>8, <2>2 DEF HandlerOK, Held, Holder, rows, Resolving, Resolved, SigningIn
  <2>4. QED BY <2>1, <2>2, <2>3
<1>9. CASE FindOwner(r) /\ Enabled(tokens[request[r].credential].owner)
  <2> DEFINE owner == tokens[request[r].credential].owner
             i == [subject |-> owner, role |-> users[owner].role, via |-> "token"]
  <2>1. request[r].at = "owner" /\ Admits(r, i) /\ request[r].credential \in Tokens
    BY <1>2, <1>9 DEF FindOwner, HandlerOK
  <2>2. owner \in Users /\ users[owner].role \in Roles
    BY <1>2, <1>9, <2>1, RowTypes, AuthAssumption DEF Held, Enabled
  <2>3. i \in Identities /\ i.subject = Holder(request[r].credential)
    BY <2>1, <2>2, AuthAssumption DEF Identities, Holder
  <2>4. QED BY <1>8, <2>1, <2>2, <2>3
<1>10. CASE ReadUser(r) /\ Enabled(sessions[request[r].credential].user)
  <2> DEFINE s == sessions[request[r].credential]
             i == [subject |-> s.user, role |-> users[s.user].role, via |-> s.via]
  <2>1. request[r].at = "user" /\ Admits(r, i) /\ request[r].credential \in Sessions
    BY <1>2, <1>10 DEF ReadUser, HandlerOK
  <2>2. s.user \in Users /\ users[s.user].role \in Roles /\ s.via \in {"password", "sso"}
    BY <1>2, <1>10, <2>1, RowTypes, AuthAssumption DEF Held, Enabled
  <2>3. i \in Identities /\ i.subject = Holder(request[r].credential)
    BY <2>1, <2>2, AuthAssumption DEF Identities, Holder
  <2>4. QED BY <1>8, <2>1, <2>2, <2>3
<1>11. QED
  BY <1>5, <1>6, <1>7, <1>9, <1>10 DEF FindToken, FindOwner, ReadSession, ReadUser, Ends

-----------------------------------------------------------------------------
(* What an admitted caller does. *)

\* Any handler may end, whatever else the step did to the store.
LEMMA EndsCore ==
    ASSUME CoreInv, RowsStay, NEW r \in Requests, Ends(r),
           mode' = mode, process' = process, hand' = hand,
           users' \in [Users -> Rows \cup {None}],
           sessions' \in [Sessions -> SessionRows \cup {None}],
           tokens' \in [Tokens -> TokenRows \cup {None}],
           logins' \in [Logins -> LoginRows \cup {None}],
           audit' \in [Tokens -> Seq([action: {"minted", "revoked"}, by: Users])]
    PROVE  CoreInv'
<1>1. StoredOK /\ request \in [Requests -> Handlers] /\ Idle \in Handlers
  BY RowTypes DEF CoreInv, StoredOK
<1>2. request'[r] = Idle /\ \A x \in Requests \ {r} : request'[x] = request[x]
  BY <1>1 DEF Ends
<1>3. StoredOK'
  BY <1>1 DEF StoredOK, Ends
<1>4. QED BY <1>2, <1>3, IdleKnows, OneMoves

\* A route that does nothing to the rows, or a sign-in refused, keeps the core invariant.
LEMMA SimpleEndsCore ==
    ASSUME CoreInv, NEW r \in Requests, OtherRoute(r) \/ LoginFails(r)
    PROVE  CoreInv' /\ RowsStay
<1>1. RowsStay /\ Ends(r) /\ UNCHANGED <<mode, process, hand, users, sessions, tokens, logins, audit>>
  BY RowsUnchanged DEF OtherRoute, LoginFails, surroundings, rows
<1>2. QED BY <1>1, EndsCore DEF CoreInv, StoredOK

\* A handler that goes on to write its audit event, about a token of its caller's.
LEMMA AuditsCore ==
    ASSUME CoreInv, RowsStay, StoredOK', NEW r \in Requests, NEW e \in Events,
           request[r].at = "admitted", request[r].identity.subject \in Users,
           Audits(r, e)
    PROVE  CoreInv'
<1>1. request[r] \in Handlers /\ request \in [Requests -> Handlers] /\ HandlerOK(r)
  BY DEF CoreInv, StoredOK
<1>2. /\ request'[r] = [request[r] EXCEPT !.at = "audit", !.event = e]
      /\ \A x \in Requests \ {r} : request'[x] = request[x]
  BY <1>1 DEF Audits
<1>3. /\ request'[r].at = "audit" /\ request'[r].credential = request[r].credential
      /\ request'[r].login = request[r].login /\ request'[r].user = request[r].user
      /\ request'[r].identity = request[r].identity /\ request'[r].event = e
  BY <1>1, <1>2 DEF Handlers
<1>4. ASSUME Held(request[r].credential)
      PROVE  /\ Held(request[r].credential)'
             /\ Holder(request[r].credential)' = Holder(request[r].credential)
  BY <1>3, <1>4, AuthAssumption DEF Held, Holder, RowsStay
<1>5. Held(request[r].credential)
  BY <1>1 DEF HandlerOK, Resolved
<1>6. Held(request[r].credential)' /\ Holder(request[r].credential)' = Holder(request[r].credential)
  BY <1>4, <1>5
<1>7. HandlerOK(r)'
  BY <1>1, <1>3, <1>6 DEF HandlerOK, Held, Holder, Resolving, Resolved, SigningIn
<1>8. QED BY <1>2, <1>7, OneMoves

\* Minting a token keeps the core invariant: the row is its holder's.
LEMMA MintCore ==
    ASSUME CoreInv, NEW r \in Requests, NEW t \in Tokens, MintToken(r, t)
    PROVE  CoreInv' /\ RowsStay
<1>1. /\ request[r] \in Handlers /\ request \in [Requests -> Handlers] /\ HandlerOK(r)
      /\ StoredOK /\ tokens \in [Tokens -> TokenRows \cup {None}]
  BY DEF CoreInv, StoredOK
<1>2. request[r].identity.subject \in Users
  BY <1>1 DEF MintToken, HandlerOK, Resolved
<1>3. [owner |-> request[r].identity.subject, status |-> "live"] \in TokenRows
  BY <1>2 DEF TokenRows
<1>4. /\ tokens' \in [Tokens -> TokenRows \cup {None}] /\ tokens[t] = None
      /\ \A x \in Tokens \ {t} : tokens'[x] = tokens[x]
  BY <1>1, <1>3 DEF MintToken, Fresh
<1>5. RowsStay
  BY <1>4 DEF MintToken, RowsStay, Spent
<1>6. [token |-> t, action |-> "minted"] \in Events
  BY DEF Events
<1>7. request' \in [Requests -> Handlers]
  BY <1>1, <1>6 DEF MintToken, Audits, Handlers, Steps
<1>8. StoredOK'
  BY <1>1, <1>4, <1>7 DEF MintToken, StoredOK, surroundings
<1>9. QED BY <1>2, <1>5, <1>6, <1>8, AuditsCore DEF MintToken

\* Revoking a token keeps the core invariant: the row stays its owner's.
LEMMA RevokeCore ==
    ASSUME CoreInv, NEW r \in Requests, NEW t \in Tokens, RevokeToken(r, t)
    PROVE  CoreInv' /\ RowsStay
<1>1. /\ request[r] \in Handlers /\ request \in [Requests -> Handlers] /\ HandlerOK(r)
      /\ StoredOK /\ tokens \in [Tokens -> TokenRows \cup {None}]
      /\ tokens[t] \in TokenRows /\ tokens[t].owner \in Users /\ tokens[t] # None
  BY RowTypes DEF CoreInv, StoredOK, RevokeToken
<1>2. request[r].identity.subject \in Users
  BY <1>1 DEF RevokeToken
<1>3. CASE Revocable(t)
  <2>1. tokens' = [tokens EXCEPT ![t].status = "revoked"] /\ Audits(r, [token |-> t, action |-> "revoked"])
    BY <1>3 DEF RevokeToken
  <2>2. /\ tokens'[t] \in TokenRows /\ tokens'[t].owner = tokens[t].owner
        /\ tokens'[t].status = "revoked"
        /\ \A x \in Tokens \ {t} : tokens'[x] = tokens[x]
    BY <1>1, <2>1 DEF TokenRows
  <2>3. tokens' \in [Tokens -> TokenRows \cup {None}]
    BY <1>1, <2>1, <2>2
  <2>4. RowsStay
    BY <2>2, NoneIsNothing DEF RevokeToken, RowsStay, Spent
  <2>5. [token |-> t, action |-> "revoked"] \in Events
    BY DEF Events
  <2>6. request' \in [Requests -> Handlers]
    BY <1>1, <2>1, <2>5 DEF Audits, Handlers, Steps
  <2>7. StoredOK'
    BY <1>1, <2>3, <2>6 DEF RevokeToken, StoredOK, surroundings
  <2>8. QED BY <1>2, <2>1, <2>4, <2>5, <2>7, AuditsCore DEF RevokeToken
<1>4. CASE ~Revocable(t)
  <2>1. Ends(r) /\ UNCHANGED <<mode, process, hand, users, sessions, tokens, logins, audit>>
    BY <1>4 DEF RevokeToken, surroundings
  <2>2. RowsStay
    BY <2>1, RowsUnchanged DEF rows
  <2>3. QED BY <1>1, <2>1, <2>2, EndsCore DEF StoredOK
<1>5. QED BY <1>3, <1>4

\* Writing the audit event keeps the core invariant.
LEMMA AuditCore ==
    ASSUME CoreInv, NEW r \in Requests, AuditToken(r)
    PROVE  CoreInv' /\ RowsStay
<1> DEFINE Entries == [action: {"minted", "revoked"}, by: Users]
           e == request[r].event
           entry == [action |-> e.action, by |-> request[r].identity.subject]
<1>1. StoredOK /\ HandlerOK(r)
  BY DEF CoreInv
<1>2. e \in Events /\ request[r].identity.subject \in Users
  BY <1>1 DEF AuditToken, HandlerOK
<1>3. entry \in Entries /\ e.token \in Tokens
  BY <1>2 DEF Events
<1>4. audit \in [Tokens -> Seq(Entries)]
  BY <1>1 DEF StoredOK
<1>5. audit' \in [Tokens -> Seq(Entries)]
  <2>1. CASE audit' = [audit EXCEPT ![e.token] = Append(@, entry)]
    <3>1. Append(audit[e.token], entry) \in Seq(Entries)
      BY <1>3, <1>4, AppendProperties
    <3>2. QED BY <1>4, <2>1, <3>1
  <2>2. CASE UNCHANGED audit
    BY <1>4, <2>2
  <2>3. QED BY <2>1, <2>2 DEF AuditToken
<1>6. RowsStay
  BY DEF AuditToken, RowsStay, Spent
<1>7. QED BY <1>1, <1>5, <1>6, EndsCore DEF AuditToken, surroundings, StoredOK

\* Ending a session keeps the core invariant: the row stays its user's.
LEMMA LogoutCore ==
    ASSUME CoreInv, NEW r \in Requests, NEW s \in Sessions, Logout(r, s)
    PROVE  CoreInv' /\ RowsStay
<1>1. /\ StoredOK /\ sessions \in [Sessions -> SessionRows \cup {None}]
      /\ sessions[s] \in SessionRows
  BY RowTypes DEF CoreInv, StoredOK, Logout
<1>2. /\ sessions'[s] \in SessionRows /\ sessions'[s].user = sessions[s].user
      /\ sessions'[s].login = sessions[s].login
      /\ \A x \in Sessions \ {s} : sessions'[x] = sessions[x]
  BY <1>1 DEF Logout, SessionRows
<1>3. sessions' \in [Sessions -> SessionRows \cup {None}]
  BY <1>1, <1>2 DEF Logout
<1>4. RowsStay
  BY <1>2, NoneIsNothing DEF Logout, RowsStay, Spent
<1>5. QED BY <1>1, <1>3, <1>4, EndsCore DEF Logout, surroundings, StoredOK

-----------------------------------------------------------------------------
(* Signing in. *)

\* A handler that signs somebody in knows whom, and nothing of a credential.
LEMMA SigningInOK ==
    ASSUME NEW r \in Requests,
           request'[r].at \in SigningIn,
           request'[r].credential = None, request'[r].identity = None,
           request'[r].event = None, request'[r].user \in Users,
           request'[r].at = "rehash" =>
              request'[r].typed \in Passwords /\ request'[r].login = None,
           request'[r].at \in {"exchange", "claims", "mirror"} => request'[r].login \in Logins,
           request'[r].at \in {"claims", "mirror"} => request'[r].claim \in Roles
    PROVE  HandlerOK(r)'
BY DEF HandlerOK, SigningIn, Resolving, Resolved

\* The steps of a sign-in that write no row.
LEMMA SignInCore ==
    ASSUME CoreInv, NEW r \in Requests,
           \/ \E u \in Users, p \in Passwords : Authenticate(r, u, p)
           \/ Exchange(r)
           \/ Claims(r)
    PROVE  CoreInv' /\ RowsStay
<1>1. RowsStay /\ UNCHANGED <<surroundings, rows>>
  BY RowsUnchanged DEF Authenticate, Exchange, Claims
<1>2. request[r] \in Handlers /\ request \in [Requests -> Handlers] /\ StoredOK /\ HandlerOK(r)
  BY DEF CoreInv, StoredOK
<1>3. ASSUME NEW q \in Handlers, request' = [request EXCEPT ![r] = q], HandlerOK(r)'
      PROVE  CoreInv'
  <2>1. StoredOK' /\ \A x \in Requests \ {r} : request'[x] = request[x]
    BY <1>1, <1>2, <1>3 DEF StoredOK, rows, surroundings
  <2>2. QED BY <1>1, <1>3, <2>1, OneMoves
<1>4. CASE \E u \in Users, p \in Passwords : Authenticate(r, u, p)
  <2>1. PICK u \in Users, p \in Passwords : Authenticate(r, u, p)
    BY <1>4
  <2> DEFINE q == [Idle EXCEPT !.at = IF users[u].hash.weak THEN "rehash" ELSE "signin",
                               !.user = u, !.typed = p]
  <2>2. request' = [request EXCEPT ![r] = q]
    BY <1>1, <1>2, <2>1 DEF Authenticate, Enabled, rows
  <2>3. /\ q \in Handlers /\ q.at \in {"rehash", "signin"} /\ q.credential = None
        /\ q.identity = None /\ q.event = None /\ q.user = u /\ q.login = None /\ q.typed = p
    BY DEF Idle, Handlers, Steps
  <2>4. request'[r] = q
    BY <1>2, <2>2
  <2> HIDE DEF q
  <2>5. HandlerOK(r)'
    BY <2>2, <2>3, <2>4, SigningInOK DEF SigningIn
  <2>6. QED BY <1>1, <1>3, <2>2, <2>3, <2>5
<1>5. CASE Exchange(r)
  <2>1. PICK role \in Roles :
          request' = [request EXCEPT ![r] = [request[r] EXCEPT !.at = "claims", !.claim = role]]
    BY <1>2, <1>5 DEF Exchange
  <2> DEFINE q == [request[r] EXCEPT !.at = "claims", !.claim = role]
  <2>2. /\ q \in Handlers /\ q.at = "claims" /\ q.credential = request[r].credential
        /\ q.identity = request[r].identity /\ q.event = request[r].event
        /\ q.user = request[r].user /\ q.login = request[r].login /\ q.claim = role
    BY <1>2 DEF Handlers, Steps
  <2>3. request'[r] = q /\ request[r].at = "exchange"
    BY <1>2, <1>5, <2>1 DEF Exchange
  <2>4. HandlerOK(r)'
    BY <1>2, <2>2, <2>3, SigningInOK DEF HandlerOK, SigningIn
  <2>5. QED BY <1>1, <1>3, <2>1, <2>2, <2>4
<1>6. CASE Claims(r)
  <2> DEFINE q == [request[r] EXCEPT !.at = "mirror"]
  <2>1. request' = [request EXCEPT ![r] = q] /\ request[r].at = "claims"
    BY <1>2, <1>6 DEF Claims, Goes
  <2>2. /\ q \in Handlers /\ q.at = "mirror" /\ q.credential = request[r].credential
        /\ q.identity = request[r].identity /\ q.event = request[r].event
        /\ q.user = request[r].user /\ q.login = request[r].login
        /\ q.claim = request[r].claim
    BY <1>2 DEF Handlers, Steps
  <2>3. request'[r] = q
    BY <1>2, <2>1
  <2>4. request[r].claim \in Roles
    BY <1>2, <2>1 DEF HandlerOK
  <2>5. HandlerOK(r)'
    BY <1>2, <2>1, <2>2, <2>3, <2>4, SigningInOK DEF HandlerOK, SigningIn
  <2>6. QED BY <1>1, <1>3, <2>1, <2>2, <2>5
<1>7. QED BY <1>1, <1>4, <1>5, <1>6

\* The new hash goes to the row that was read, if it is still there.
LEMMA RehashCore ==
    ASSUME CoreInv, NEW r \in Requests, RestoreHash(r)
    PROVE  CoreInv' /\ RowsStay
<1> DEFINE u == request[r].user
           q == [request[r] EXCEPT !.at = "signin"]
<1>1. /\ request[r] \in Handlers /\ request \in [Requests -> Handlers] /\ StoredOK /\ HandlerOK(r)
      /\ users \in [Users -> Rows \cup {None}] /\ request[r].at = "rehash"
  BY DEF CoreInv, StoredOK, RestoreHash
<1>2. /\ u \in Users /\ request[r].typed \in Passwords
      /\ request[r].credential = None /\ request[r].identity = None /\ request[r].event = None
  BY <1>1, RowTypes DEF HandlerOK, SigningIn
<1>3. /\ request' = [request EXCEPT ![r] = q]
      /\ UNCHANGED <<mode, process, hand, sessions, tokens, logins, audit>>
  BY <1>1, <1>2 DEF RestoreHash, Goes, surroundings
<1>4. [of |-> request[r].typed, weak |-> FALSE] \in Hashes
  BY <1>2 DEF Hashes
<1>5. users[u] = None => users' = users
  BY <1>1 DEF RestoreHash
<1>6. users' \in [Users -> Rows \cup {None}]
  <2>1. CASE users[u] # None
    <3>1. users[u] \in Rows
      BY <1>1, <1>2, <2>1
    <3>2. [users[u] EXCEPT !.hash = [of |-> request[r].typed, weak |-> FALSE]] \in Rows
      BY <1>4, <3>1 DEF Rows
    <3>3. users' = [users EXCEPT ![u] =
                      [users[u] EXCEPT !.hash = [of |-> request[r].typed, weak |-> FALSE]]]
      BY <1>1, <1>2, <2>1 DEF RestoreHash
    <3>4. QED BY <1>1, <3>2, <3>3
  <2>2. QED BY <1>1, <1>5, <2>1
<1>7. RowsStay
  BY <1>3, <1>6 DEF RowsStay, Spent
<1>8. /\ q \in Handlers /\ q.at = "signin" /\ q.credential = None
      /\ q.identity = None /\ q.event = None /\ q.user = u
  BY <1>1, <1>2 DEF Handlers, Steps
<1> HIDE DEF q
<1>9. /\ request'[r] = q /\ \A x \in Requests \ {r} : request'[x] = request[x]
      /\ request' \in [Requests -> Handlers]
  BY <1>1, <1>3, <1>8
<1>10. StoredOK'
  BY <1>1, <1>3, <1>6, <1>9 DEF StoredOK
<1>11. HandlerOK(r)'
  BY <1>2, <1>8, <1>9, SigningInOK DEF SigningIn
<1>12. QED BY <1>7, <1>9, <1>10, <1>11, OneMoves

\* Opening a session keeps the core invariant: the row is of the user who signed in.
LEMMA CreateSessionCore ==
    ASSUME CoreInv, NEW r \in Requests, NEW s \in Sessions, CreateSession(r, s)
    PROVE  CoreInv' /\ RowsStay
<1> DEFINE row == [user |-> request[r].user, status |-> "live", login |-> request[r].login,
                   via |-> IF request[r].login = None THEN "password" ELSE "sso"]
<1>1. /\ request[r] \in Handlers /\ StoredOK /\ HandlerOK(r)
      /\ sessions \in [Sessions -> SessionRows \cup {None}] /\ sessions[s] = None
  BY DEF CoreInv, StoredOK, CreateSession, Fresh
<1>2. request[r].user \in Users /\ request[r].login \in Logins \cup {None}
  BY <1>1 DEF CreateSession, HandlerOK, SigningIn, Handlers
<1>3. row \in SessionRows
  BY <1>2 DEF SessionRows
<1>4. sessions' = [sessions EXCEPT ![s] = row] /\ Ends(r)
      /\ UNCHANGED <<mode, process, hand, users, tokens, logins, audit>>
  BY DEF CreateSession, surroundings
<1> HIDE DEF row
<1>5. /\ sessions' \in [Sessions -> SessionRows \cup {None}]
      /\ \A x \in Sessions \ {s} : sessions'[x] = sessions[x]
  BY <1>1, <1>3, <1>4
<1>6. RowsStay
  BY <1>1, <1>4, <1>5 DEF RowsStay, Spent
<1>7. QED BY <1>1, <1>4, <1>5, <1>6, EndsCore DEF StoredOK

\* The attempt of the cookie is spent, whatever comes of it.
LEMMA TakeRows ==
    ASSUME StoredOK, NEW l \in Logins, logins[l] # None, Take(l)
    PROVE  /\ logins' \in [Logins -> LoginRows \cup {None}]
           /\ \A x \in Logins : Spent(x) => Spent(x)'
           /\ Spent(l)'
           /\ \A x \in Logins \ {l} : logins'[x] = logins[x]
<1>1. logins \in [Logins -> LoginRows \cup {None}] /\ logins[l] \in LoginRows
  BY RowTypes DEF StoredOK
<1>2. logins'[l] \in LoginRows /\ logins'[l].status = "gone"
      /\ \A x \in Logins \ {l} : logins'[x] = logins[x]
  BY <1>1 DEF Take, LoginRows
<1>3. logins' \in [Logins -> LoginRows \cup {None}]
  BY <1>1, <1>2 DEF Take
<1>4. QED BY <1>2, <1>3, NoneIsNothing DEF Spent

\* The provider's callback keeps the core invariant, whichever sign-in it names.
LEMMA CallbackCore ==
    ASSUME CoreInv, NEW r \in Requests, NEW l \in Logins, NEW state,
           SsoCallback(r, l, state)
    PROVE  CoreInv' /\ RowsStay
<1> DEFINE q == [Idle EXCEPT !.at = "exchange", !.login = l, !.user = logins[l].user]
<1>1. /\ request[r] \in Handlers /\ request \in [Requests -> Handlers] /\ StoredOK
      /\ logins[l] # None /\ logins[l].user \in Users
  BY RowTypes DEF CoreInv, StoredOK, SsoCallback
<1>2. /\ logins' \in [Logins -> LoginRows \cup {None}]
      /\ \A x \in Logins : Spent(x) => Spent(x)'
  BY <1>1, TakeRows DEF SsoCallback
<1>3. UNCHANGED <<mode, process, hand, users, sessions, tokens, audit>>
  BY DEF SsoCallback, surroundings
<1>4. RowsStay
  BY <1>2, <1>3 DEF RowsStay
<1>5. CASE request' = [request EXCEPT ![r] = q]
  <2>1. /\ q \in Handlers /\ q.at = "exchange" /\ q.credential = None
        /\ q.identity = None /\ q.event = None /\ q.user \in Users /\ q.login = l
    BY <1>1 DEF Idle, Handlers, Steps
  <2> HIDE DEF q
  <2>2. /\ request'[r] = q /\ \A x \in Requests \ {r} : request'[x] = request[x]
        /\ request' \in [Requests -> Handlers]
    BY <1>1, <1>5, <2>1
  <2>3. StoredOK'
    BY <1>1, <1>2, <1>3, <2>2 DEF StoredOK
  <2>4. HandlerOK(r)'
    BY <2>1, <2>2, SigningInOK DEF SigningIn
  <2>5. QED BY <1>4, <2>2, <2>3, <2>4, OneMoves
<1>6. CASE UNCHANGED request
  <2>1. StoredOK'
    BY <1>1, <1>2, <1>3, <1>6 DEF StoredOK
  <2>2. QED BY <1>4, <1>6, <2>1, OthersKeep DEF CoreInv
<1>7. request[r] = Idle
  BY DEF SsoCallback
<1>8. QED BY <1>1, <1>4, <1>5, <1>6, <1>7 DEF SsoCallback

\* A login leaves a row: a new one, or the old one with the provider's role.
LEMMA MirroredRow ==
    ASSUME NEW row \in Rows \cup {None}, NEW role \in Roles
    PROVE  /\ Mirrored(row, role) \in Rows
           /\ row # None => /\ Mirrored(row, role).disabled = row.disabled
                            /\ Mirrored(row, role).hash = row.hash
BY DEF Mirrored, Rows

\* Mirroring the provider's roles keeps the core invariant.
LEMMA MirrorCore ==
    ASSUME CoreInv, NEW r \in Requests, Mirror(r)
    PROVE  CoreInv' /\ RowsStay
<1> DEFINE u == request[r].user
           q == [request[r] EXCEPT !.at = "signin"]
<1>1. /\ request[r] \in Handlers /\ request \in [Requests -> Handlers] /\ StoredOK /\ HandlerOK(r)
      /\ users \in [Users -> Rows \cup {None}] /\ request[r].at = "mirror"
  BY DEF CoreInv, StoredOK, Mirror
<1>2. /\ u \in Users /\ request[r].claim \in Roles
      /\ request[r].credential = None /\ request[r].identity = None /\ request[r].event = None
  BY <1>1, RowTypes DEF HandlerOK, SigningIn
<1>3. /\ users' = [users EXCEPT ![u] = Mirrored(users[u], request[r].claim)]
      /\ Ends(r) \/ Goes(r, "signin")
      /\ UNCHANGED <<mode, process, hand, sessions, tokens, logins, audit>>
  BY <1>1, <1>2 DEF Mirror, surroundings
<1>4. Mirrored(users[u], request[r].claim) \in Rows
  BY <1>1, <1>2, MirroredRow
<1>5. /\ users' \in [Users -> Rows \cup {None}] /\ users'[u] # None
      /\ \A x \in Users \ {u} : users'[x] = users[x]
  BY <1>1, <1>2, <1>3, <1>4, NoneIsNothing
<1>6. RowsStay
  BY <1>3, <1>5 DEF RowsStay, Spent
<1>7. CASE Ends(r)
  BY <1>1, <1>3, <1>5, <1>6, <1>7, EndsCore DEF StoredOK
<1>8. CASE Goes(r, "signin")
  <2>1. /\ q \in Handlers /\ q.at = "signin" /\ q.credential = None
        /\ q.identity = None /\ q.event = None /\ q.user = u
    BY <1>1, <1>2 DEF Handlers, Steps
  <2>2. request' = [request EXCEPT ![r] = q]
    BY <1>1, <1>8 DEF Goes
  <2> HIDE DEF q
  <2>3. /\ request'[r] = q /\ \A x \in Requests \ {r} : request'[x] = request[x]
        /\ request' \in [Requests -> Handlers]
    BY <1>1, <2>1, <2>2
  <2>4. StoredOK'
    BY <1>1, <1>3, <1>5, <2>3 DEF StoredOK
  <2>5. HandlerOK(r)'
    BY <1>2, <2>1, <2>3, SigningInOK DEF SigningIn
  <2>6. QED BY <1>6, <2>3, <2>4, <2>5, OneMoves
<1>9. QED BY <1>3, <1>7, <1>8

-----------------------------------------------------------------------------
(* The surroundings. *)

\* Where no handler moves, it is enough that the rows stay and have their types.
LEMMA StillCore ==
    ASSUME CoreInv, RowsStay, StoredOK', UNCHANGED request
    PROVE  CoreInv'
BY OthersKeep DEF CoreInv

\* Starting up, the bootstrap Admin included, keeps the core invariant.
LEMMA StartCore ==
    ASSUME CoreInv, Start
    PROVE  CoreInv' /\ RowsStay
<1>1. StoredOK /\ users \in [Users -> Rows \cup {None}]
  BY DEF CoreInv, StoredOK
<1>2. CASE CountUsers \/ BootstrapFails
  <2>1. RowsStay /\ UNCHANGED request
    BY <1>2, RowsUnchanged DEF CountUsers, BootstrapFails
  <2>2. StoredOK'
    BY <1>1, <1>2 DEF CountUsers, BootstrapFails, StoredOK, rows
  <2>3. QED BY <2>1, <2>2, StillCore
<1>3. CASE CreateInitialAdmin
  <2> DEFINE row == [role |-> "admin", disabled |-> FALSE,
                     hash |-> [of |-> CHOOSE p \in Passwords : TRUE, weak |-> TRUE]]
  <2>1. (CHOOSE p \in Passwords : TRUE) \in Passwords
    BY AuthAssumption
  <2>2. row \in Rows
    BY <2>1 DEF Rows, Hashes, Roles
  <2>3. /\ users' = [users EXCEPT ![Initial] = IF users[Initial] # None THEN users[Initial] ELSE row]
        /\ UNCHANGED <<mode, hand, request, sessions, tokens, logins, audit>> /\ process' = "up"
    BY <1>3 DEF CreateInitialAdmin
  <2> HIDE DEF row
  <2>4. users' \in [Users -> Rows \cup {None}] /\ RowsStay
    BY <1>1, <2>2, <2>3, AuthAssumption DEF RowsStay, Spent
  <2>5. StoredOK'
    BY <1>1, <2>3, <2>4 DEF StoredOK
  <2>6. QED BY <2>3, <2>4, <2>5, StillCore
<1>4. CASE Restart
  <2>1. RowsStay
    BY <1>4, RowsUnchanged DEF Restart
  <2>2. request' \in [Requests -> Handlers] /\ \A r \in Requests : request'[r] = Idle
    BY <1>1, <1>4, RowTypes DEF Restart
  <2>3. StoredOK'
    BY <1>1, <1>4, <2>2 DEF Restart, StoredOK, rows
  <2>4. QED BY <2>1, <2>2, <2>3, IdleKnows DEF CoreInv
<1>5. QED BY <1>2, <1>3, <1>4 DEF Start

\* An edit of a user by hand, from the shell, keeps the core invariant.
LEMMA ByHandCore ==
    ASSUME CoreInv, ByHand
    PROVE  CoreInv' /\ RowsStay
<1>1. StoredOK /\ users \in [Users -> Rows \cup {None}]
  BY DEF CoreInv, StoredOK
<1>2. PICK u \in Users, row \in Rows \cup {None} : users' = [users EXCEPT ![u] = row]
  <2>1. PICK u \in Users :
          \/ /\ users[u] = None
             /\ \E p \in Passwords, role \in Roles :
                   users' = [users EXCEPT ![u] =
                      [role |-> role, disabled |-> FALSE, hash |-> [of |-> p, weak |-> FALSE]]]
          \/ /\ users[u] # None
             /\ \/ users' = [users EXCEPT ![u] = None]
                \/ users' = [users EXCEPT ![u].disabled = ~@]
                \/ \E role \in Roles : users' = [users EXCEPT ![u].role = role]
                \/ \E p \in Passwords :
                      users' = [users EXCEPT ![u].hash = [of |-> p, weak |-> FALSE]]
    BY DEF ByHand
  <2>2. CASE users[u] = None
    <3>1. PICK p \in Passwords, role \in Roles :
             users' = [users EXCEPT ![u] =
                [role |-> role, disabled |-> FALSE, hash |-> [of |-> p, weak |-> FALSE]]]
      BY <2>1, <2>2
    <3>2. [role |-> role, disabled |-> FALSE, hash |-> [of |-> p, weak |-> FALSE]] \in Rows
      BY DEF Rows, Hashes
    <3>3. QED BY <3>1, <3>2
  <2>3. CASE users[u] # None /\ users' = [users EXCEPT ![u].disabled = ~@]
    <3>1. [users[u] EXCEPT !.disabled = ~users[u].disabled] \in Rows
      BY <1>1, <2>3 DEF Rows
    <3>2. users' = [users EXCEPT ![u] = [users[u] EXCEPT !.disabled = ~users[u].disabled]]
      BY <1>1, <2>3
    <3>3. QED BY <3>1, <3>2
  <2>4. CASE users[u] # None /\ \E role \in Roles : users' = [users EXCEPT ![u].role = role]
    <3>1. PICK role \in Roles : users' = [users EXCEPT ![u].role = role]
      BY <2>4
    <3>2. [users[u] EXCEPT !.role = role] \in Rows
      BY <1>1, <2>4 DEF Rows
    <3>3. users' = [users EXCEPT ![u] = [users[u] EXCEPT !.role = role]]
      BY <1>1, <3>1
    <3>4. QED BY <3>2, <3>3
  <2>5. CASE users[u] # None /\ \E p \in Passwords :
                users' = [users EXCEPT ![u].hash = [of |-> p, weak |-> FALSE]]
    <3>1. PICK p \in Passwords : users' = [users EXCEPT ![u].hash = [of |-> p, weak |-> FALSE]]
      BY <2>5
    <3>2. [users[u] EXCEPT !.hash = [of |-> p, weak |-> FALSE]] \in Rows
      BY <1>1, <2>5 DEF Rows, Hashes
    <3>3. users' = [users EXCEPT ![u] = [users[u] EXCEPT !.hash = [of |-> p, weak |-> FALSE]]]
      BY <1>1, <3>1
    <3>4. QED BY <3>2, <3>3
  <2>6. CASE users' = [users EXCEPT ![u] = None]
    BY <2>6
  <2>7. QED BY <2>1, <2>2, <2>3, <2>4, <2>5, <2>6
<1>3. /\ hand < MaxHand /\ hand' = hand + 1
      /\ UNCHANGED <<mode, process, request, sessions, tokens, logins, audit>>
  BY DEF ByHand
<1>4. users' \in [Users -> Rows \cup {None}] /\ RowsStay
  BY <1>1, <1>2, <1>3, NoneIsNothing DEF RowsStay, Spent
<1>5. hand' \in 0..MaxHand
  BY <1>1, <1>3, AuthAssumption DEF StoredOK
<1>6. StoredOK'
  BY <1>1, <1>3, <1>4, <1>5 DEF StoredOK
<1>7. QED BY <1>3, <1>4, <1>6, StillCore

\* A credential or an attempt whose time has passed keeps the core invariant.
LEMMA ExpiresCore ==
    ASSUME CoreInv, Expires
    PROVE  CoreInv' /\ RowsStay
<1>1. /\ StoredOK /\ UNCHANGED <<mode, process, hand, users, audit, request>>
      /\ sessions \in [Sessions -> SessionRows \cup {None}]
      /\ tokens \in [Tokens -> TokenRows \cup {None}]
  BY DEF CoreInv, StoredOK, Expires, surroundings
<1>2. CASE \E s \in Sessions : Live(s) /\ sessions' = [sessions EXCEPT ![s].status = "gone"]
                                       /\ UNCHANGED <<tokens, logins>>
  <2>1. PICK s \in Sessions : Live(s) /\ sessions' = [sessions EXCEPT ![s].status = "gone"]
                                      /\ UNCHANGED <<tokens, logins>>
    BY <1>2
  <2>2. sessions[s] \in SessionRows
    BY <1>1, <2>1, AuthAssumption DEF Live
  <2>3. /\ sessions'[s] \in SessionRows /\ sessions'[s].user = sessions[s].user
        /\ sessions'[s].login = sessions[s].login
        /\ \A x \in Sessions \ {s} : sessions'[x] = sessions[x]
    BY <1>1, <2>1, <2>2 DEF SessionRows
  <2>4. sessions' \in [Sessions -> SessionRows \cup {None}]
    BY <1>1, <2>1, <2>3
  <2>5. RowsStay
    BY <1>1, <2>1, <2>3, NoneIsNothing DEF RowsStay, Spent
  <2>6. StoredOK'
    BY <1>1, <2>1, <2>4 DEF StoredOK
  <2>7. QED BY <1>1, <2>5, <2>6, StillCore
<1>3. CASE \E t \in Tokens : Live(t) /\ tokens' = [tokens EXCEPT ![t].status = "expired"]
                                     /\ UNCHANGED <<sessions, logins>>
  <2>1. PICK t \in Tokens : Live(t) /\ tokens' = [tokens EXCEPT ![t].status = "expired"]
                                    /\ UNCHANGED <<sessions, logins>>
    BY <1>3
  <2>2. tokens[t] \in TokenRows /\ tokens[t].status = "live"
    BY <1>1, <2>1, AuthAssumption DEF Live
  <2>3. /\ tokens'[t] \in TokenRows /\ tokens'[t].owner = tokens[t].owner
        /\ \A x \in Tokens \ {t} : tokens'[x] = tokens[x]
    BY <1>1, <2>1, <2>2 DEF TokenRows
  <2>4. tokens' \in [Tokens -> TokenRows \cup {None}]
    BY <1>1, <2>1, <2>3
  <2>5. RowsStay
    BY <1>1, <2>1, <2>2, <2>3, NoneIsNothing DEF RowsStay, Spent
  <2>6. StoredOK'
    BY <1>1, <2>1, <2>4 DEF StoredOK
  <2>7. QED BY <1>1, <2>5, <2>6, StillCore
<1>4. CASE \E l \in Logins : logins[l] # None /\ Take(l) /\ UNCHANGED <<sessions, tokens>>
  <2>1. PICK l \in Logins : logins[l] # None /\ Take(l) /\ UNCHANGED <<sessions, tokens>>
    BY <1>4
  <2>2. /\ logins' \in [Logins -> LoginRows \cup {None}]
        /\ \A x \in Logins : Spent(x) => Spent(x)'
    BY <1>1, <2>1, TakeRows
  <2>3. RowsStay /\ StoredOK'
    BY <1>1, <2>1, <2>2 DEF RowsStay, StoredOK
  <2>4. QED BY <1>1, <2>3, StillCore
<1>5. QED BY <1>2, <1>3, <1>4 DEF Expires

\* Opening a sign-in at the provider keeps the core invariant.
LEMMA SsoLoginCore ==
    ASSUME CoreInv, NEW u \in AtProvider, NEW l \in Logins, SsoLogin(u, l)
    PROVE  CoreInv' /\ RowsStay
<1>1. StoredOK /\ logins \in [Logins -> LoginRows \cup {None}] /\ logins[l] = None
  BY DEF CoreInv, StoredOK, SsoLogin, Fresh
<1>2. [user |-> u, status |-> "live"] \in LoginRows
  BY AuthAssumption DEF LoginRows
<1>3. /\ logins' \in [Logins -> LoginRows \cup {None}]
      /\ \A x \in Logins \ {l} : logins'[x] = logins[x]
      /\ UNCHANGED <<mode, process, hand, users, sessions, tokens, audit, request>>
  BY <1>1, <1>2 DEF SsoLogin, surroundings
<1>4. RowsStay /\ StoredOK'
  BY <1>1, <1>3 DEF RowsStay, StoredOK, Spent
<1>5. QED BY <1>3, <1>4, StillCore

\* Every step keeps the rows and what the handlers know of them.
LEMMA CoreStep == CoreInv /\ Step => CoreInv' /\ RowsStay
<1> SUFFICES ASSUME CoreInv, Step PROVE CoreInv' /\ RowsStay
  OBVIOUS
<1>1. CASE Start
  BY <1>1, StartCore
<1>2. CASE Surroundings
  BY <1>2, ByHandCore, ExpiresCore DEF Surroundings
<1>3. CASE \E r \in Requests : Resolve(r)
  BY <1>3, ArriveCore, ResolveCore DEF Resolve
<1>4. CASE \E r \in Requests : Act(r)
  BY <1>4, SimpleEndsCore, AuditCore, MintCore, RevokeCore, LogoutCore DEF Act
<1>5. CASE \E r \in Requests : SignIn(r)
  BY <1>5, SignInCore, RehashCore, CreateSessionCore, CallbackCore, SimpleEndsCore, MirrorCore
     DEF SignIn
<1>6. CASE \E u \in AtProvider, l \in Logins : SsoLogin(u, l)
  BY <1>6, SsoLoginCore
<1>7. QED BY <1>1, <1>2, <1>3, <1>4, <1>5, <1>6 DEF Step

\* The core invariant holds before anybody has signed in.
LEMMA CoreInit == Init => CoreInv
<1> SUFFICES ASSUME Init PROVE CoreInv
  OBVIOUS
<1>1. Idle \in Handlers
  BY DEF Idle, Handlers, Steps
<1>2. \A t \in Tokens : audit[t] \in Seq([action: {"minted", "revoked"}, by: Users])
  BY DEF Init
<1>3. StoredOK
  BY <1>1, <1>2, AuthAssumption DEF Init, StoredOK
<1>4. \A r \in Requests : HandlerOK(r)
  BY DEF Init, HandlerOK, Idle, Resolving, Resolved, SigningIn
<1>5. QED BY <1>3, <1>4 DEF CoreInv

\* Every step, of whichever handler, keeps the core invariant.
LEMMA CoreNext == CoreInv /\ [Next]_authVars => CoreInv'
<1>1. ASSUME CoreInv, UNCHANGED authVars PROVE CoreInv'
  BY <1>1 DEF authVars, CoreInv, StoredOK, HandlerOK, Held, Holder
<1>2. QED BY <1>1, CoreStep DEF Next

\* What a handler knows of the rows is true, whatever the others do meanwhile.
THEOREM AuthCore == Spec => []CoreInv
BY CoreInit, CoreNext, PTL DEF Spec

-----------------------------------------------------------------------------
(* Authority. *)

\* What one step does to one handler, as far as its credential goes.
Moves(r) ==
    LET q == request[r]
        n == request'[r]
    IN  \/ n = q
        \/ n = Idle
        \/ /\ q = Idle /\ n.credential # None
           /\ \/ n.at = "arrived" /\ n.identity = None
              \/ n.at = "admitted" /\ n.identity = Nobody
        \/ /\ q.at = "arrived" /\ n.at \in {"owner", "user"} /\ Live(q.credential)
           /\ n.credential = q.credential
        \/ /\ q.at \in {"owner", "user"} /\ n.at = "admitted"
           /\ n.credential = q.credential /\ Enabled(Holder(q.credential))
           /\ n.identity.subject = Holder(q.credential)
           /\ n.identity.role = users[Holder(q.credential)].role
        \/ /\ q.at = "admitted" /\ n.at = "audit"
           /\ n.credential = q.credential /\ n.identity = q.identity
        \/ q.credential = None /\ n.at \in SigningIn

\* Resolving a credential takes the handler one step on, and moves no other handler.
LEMMA ResolveMoves ==
    ASSUME CoreInv, NEW r \in Requests, Resolve(r)
    PROVE  Moves(r) /\ \A x \in Requests \ {r} : request'[x] = request[x]
<1>1. /\ request[r] \in Handlers /\ request \in [Requests -> Handlers] /\ HandlerOK(r)
  BY DEF CoreInv, StoredOK
<1>2. CASE \E c \in Sessions \cup Tokens : Arrive(r, c)
  <2>1. PICK c \in Sessions \cup Tokens : Arrive(r, c)
    BY <1>2
  <2>2. c # None
    BY NoneIsNothing
  <2>3. /\ \A x \in Requests \ {r} : request'[x] = request[x]
        /\ request[r] = Idle
        /\ request'[r].credential = c
        /\ request'[r].at = IF mode = "none" THEN "admitted" ELSE "arrived"
        /\ request'[r].identity = IF mode = "none" THEN Nobody ELSE None
    BY <1>1, <2>1 DEF Arrive, Handlers
  <2>4. QED BY <2>2, <2>3 DEF Moves
<1>3. CASE FindToken(r)
  <2>1. CASE Ends(r)
    BY <1>1, <2>1 DEF Ends, Moves
  <2>2. CASE Goes(r, "owner") /\ tokens[request[r].credential].status = "live"
    <3>1. /\ \A x \in Requests \ {r} : request'[x] = request[x]
          /\ request'[r].credential = request[r].credential /\ request'[r].at = "owner"
      BY <1>1, <2>2 DEF Goes, Handlers
    <3>2. request[r].at = "arrived" /\ Live(request[r].credential)
      BY <1>1, <1>3, <2>2, AuthAssumption DEF FindToken, Live, HandlerOK, Held, Resolving
    <3>3. QED BY <3>1, <3>2 DEF Moves
  <2>3. QED BY <1>3, <2>1, <2>2 DEF FindToken
<1>4. CASE ReadSession(r)
  <2>1. CASE Ends(r)
    BY <1>1, <2>1 DEF Ends, Moves
  <2>2. CASE Goes(r, "user") /\ sessions[request[r].credential].status = "live"
    <3>1. /\ \A x \in Requests \ {r} : request'[x] = request[x]
          /\ request'[r].credential = request[r].credential /\ request'[r].at = "user"
      BY <1>1, <2>2 DEF Goes, Handlers
    <3>2. request[r].at = "arrived" /\ Live(request[r].credential)
      BY <1>1, <1>4, <2>2, AuthAssumption DEF ReadSession, Live, HandlerOK, Held, Resolving
    <3>3. QED BY <3>1, <3>2 DEF Moves
  <2>3. QED BY <1>4, <2>1, <2>2 DEF ReadSession
<1>5. ASSUME NEW i, Admits(r, i), request[r].at \in {"owner", "user"},
             Enabled(Holder(request[r].credential)),
             i.subject = Holder(request[r].credential),
             i.role = users[Holder(request[r].credential)].role
      PROVE  Moves(r) /\ \A x \in Requests \ {r} : request'[x] = request[x]
  <2>1. /\ \A x \in Requests \ {r} : request'[x] = request[x]
        /\ request'[r].credential = request[r].credential /\ request'[r].at = "admitted"
        /\ request'[r].identity = i
    BY <1>1, <1>5 DEF Admits, Handlers
  <2>2. QED BY <1>5, <2>1 DEF Moves
<1>6. CASE FindOwner(r)
  <2>1. CASE Ends(r)
    BY <1>1, <2>1 DEF Ends, Moves
  <2>2. Holder(request[r].credential) = tokens[request[r].credential].owner
    BY <1>1, <1>6, AuthAssumption DEF FindOwner, HandlerOK, Holder
  <2>3. QED BY <1>5, <1>6, <2>1, <2>2 DEF FindOwner
<1>7. CASE ReadUser(r)
  <2>1. CASE Ends(r)
    BY <1>1, <2>1 DEF Ends, Moves
  <2>2. Holder(request[r].credential) = sessions[request[r].credential].user
    BY <1>1, <1>7, AuthAssumption DEF ReadUser, HandlerOK, Holder
  <2>3. QED BY <1>5, <1>7, <2>1, <2>2 DEF ReadUser
<1>8. QED BY <1>2, <1>3, <1>4, <1>6, <1>7 DEF Resolve

\* Acting takes the handler one step on, and moves no other handler.
LEMMA ActMoves ==
    ASSUME CoreInv, NEW r \in Requests, Act(r)
    PROVE  Moves(r) /\ \A x \in Requests \ {r} : request'[x] = request[x]
<1>1. /\ request[r] \in Handlers /\ request \in [Requests -> Handlers]
  BY DEF CoreInv, StoredOK
<1>2. CASE Ends(r)
  BY <1>1, <1>2 DEF Ends, Moves
<1>3. ASSUME NEW e, Audits(r, e), request[r].at = "admitted"
      PROVE  Moves(r) /\ \A x \in Requests \ {r} : request'[x] = request[x]
  <2>1. /\ \A x \in Requests \ {r} : request'[x] = request[x]
        /\ request'[r].credential = request[r].credential /\ request'[r].at = "audit"
        /\ request'[r].identity = request[r].identity
    BY <1>1, <1>3 DEF Audits, Handlers
  <2>2. QED BY <1>3, <2>1 DEF Moves
<1>4. QED
  BY <1>2, <1>3 DEF Act, OtherRoute, AuditToken, MintToken, RevokeToken, Logout

\* Signing in takes the handler one step on, and moves no other handler.
LEMMA SignInMoves ==
    ASSUME CoreInv, NEW r \in Requests, SignIn(r)
    PROVE  Moves(r) /\ \A x \in Requests \ {r} : request'[x] = request[x]
<1>1. /\ request[r] \in Handlers /\ request \in [Requests -> Handlers] /\ HandlerOK(r)
  BY DEF CoreInv, StoredOK
<1>2. CASE Ends(r)
  BY <1>1, <1>2 DEF Ends, Moves
<1>3. CASE UNCHANGED request
  BY <1>3 DEF Moves
<1>4. ASSUME request'[r].at \in SigningIn,
             request[r].at \in SigningIn \/ request[r] = Idle
      PROVE  Moves(r)
  BY <1>1, <1>4 DEF Moves, HandlerOK, Idle
<1>5. CASE \E u \in Users, p \in Passwords : Authenticate(r, u, p)
  <2>1. /\ \A x \in Requests \ {r} : request'[x] = request[x]
        /\ request'[r].at \in SigningIn /\ request[r] = Idle
    BY <1>1, <1>5 DEF Authenticate, Handlers, SigningIn
  <2>2. QED BY <1>4, <2>1
<1>6. ASSUME NEW l, NEW state, SsoCallback(r, l, state), ~UNCHANGED request
      PROVE  Moves(r) /\ \A x \in Requests \ {r} : request'[x] = request[x]
  <2>1. /\ \A x \in Requests \ {r} : request'[x] = request[x]
        /\ request'[r].at \in SigningIn /\ request[r] = Idle
    BY <1>1, <1>6 DEF SsoCallback, Handlers, SigningIn
  <2>2. QED BY <1>4, <2>1
<1>7. ASSUME Goes(r, "signin") \/ Goes(r, "mirror") \/ Exchange(r),
             request[r].at \in SigningIn
      PROVE  Moves(r) /\ \A x \in Requests \ {r} : request'[x] = request[x]
  <2>1. \A x \in Requests \ {r} : request'[x] = request[x]
    BY <1>1, <1>7 DEF Exchange, Goes
  <2>2. request'[r].at \in SigningIn
    BY <1>1, <1>7 DEF Exchange, Handlers, SigningIn, Goes
  <2>3. QED BY <1>4, <1>7, <2>1, <2>2
<1>8. CASE RestoreHash(r) \/ Claims(r) \/ Mirror(r) \/ Exchange(r)
  BY <1>2, <1>7, <1>8 DEF RestoreHash, Claims, Mirror, Exchange, SigningIn
<1>9. CASE LoginFails(r) \/ \E s \in Sessions : CreateSession(r, s)
  BY <1>2, <1>9 DEF LoginFails, CreateSession
<1>10. QED
  BY <1>3, <1>5, <1>6, <1>8, <1>9 DEF SignIn

\* Every step moves each handler so, and no two of them at once but to restart.
LEMMA StepMoves ==
    ASSUME CoreInv, Step
    PROVE  \A r \in Requests : Moves(r)
<1>1. CASE UNCHANGED request
  BY <1>1 DEF Moves
<1>2. CASE \A r \in Requests : request'[r] = Idle
  BY <1>2 DEF Moves
<1>3. ASSUME NEW r \in Requests, Resolve(r) \/ Act(r) \/ SignIn(r)
      PROVE  \A x \in Requests : Moves(x)
  <2>1. Moves(r) /\ \A x \in Requests \ {r} : request'[x] = request[x]
    BY <1>3, ResolveMoves, ActMoves, SignInMoves
  <2>2. QED BY <2>1 DEF Moves
<1>4. CASE Start \/ Surroundings \/ \E u \in AtProvider, l \in Logins : SsoLogin(u, l)
  BY <1>1, <1>2, <1>4 DEF Start, CountUsers, CreateInitialAdmin, BootstrapFails, Restart,
     Surroundings, ByHand, Expires, SsoLogin
<1>5. QED BY <1>3, <1>4 DEF Step

SeenType == seen \in [Requests -> [live: BOOLEAN, roles: SUBSET Roles]]

\* A handler carries a credential when, and only when, it resolves or has
\* resolved one, and its holder is then a user.
Carries ==
    \A r \in Requests :
        /\ request[r].credential # None <=> request[r].at \in Resolving \cup Resolved
        /\ request[r].at \in Resolving \cup Resolved =>
              Holder(request[r].credential) \in Users
        /\ request[r].identity # None <=> request[r].at \in Resolved
        /\ Standing(r) \in [live: BOOLEAN, roles: SUBSET Roles]

\* A handler carries a credential and an identity exactly in the steps that use them.
LEMMA WhoCarries == CoreInv => Carries
<1> SUFFICES ASSUME CoreInv, NEW r \in Requests
             PROVE  /\ request[r].credential # None <=> request[r].at \in Resolving \cup Resolved
                    /\ request[r].at \in Resolving \cup Resolved =>
                          Holder(request[r].credential) \in Users
                    /\ request[r].identity # None <=> request[r].at \in Resolved
                    /\ Standing(r) \in [live: BOOLEAN, roles: SUBSET Roles]
  BY DEF Carries
<1>1. request[r] \in Handlers /\ HandlerOK(r) /\ StoredOK
  BY RowTypes DEF CoreInv
<1>2. request[r].at \in {"idle"} \cup Resolving \cup Resolved \cup SigningIn
  BY <1>1 DEF Handlers, Steps, Resolving, Resolved, SigningIn
<1>3. request[r].credential # None <=> request[r].at \in Resolving \cup Resolved
  BY <1>1, <1>2, NoneIsNothing DEF HandlerOK, Held, Idle
<1>4. request[r].at \in Resolving \cup Resolved =>
         Holder(request[r].credential) \in Users
  BY <1>1, RowTypes, AuthAssumption DEF HandlerOK, Held, Holder
<1>5. request[r].identity # None <=> request[r].at \in Resolved
  BY <1>1, <1>2, NoneIsNothing DEF HandlerOK, Idle, Resolved, Resolving, SigningIn
<1>6. Standing(r) \in [live: BOOLEAN, roles: SUBSET Roles]
  <2>1. CASE request[r].credential = None
    BY <2>1 DEF Standing
  <2>2. CASE request[r].credential # None
    <3>1. Holder(request[r].credential) \in Users
      BY <1>3, <1>4, <2>2
    <3>2. Enabled(Holder(request[r].credential)) => users[Holder(request[r].credential)].role \in Roles
      BY <1>1, <3>1, RowTypes DEF Enabled
    <3>3. Live(request[r].credential) \in BOOLEAN
      BY DEF Live
    <3>4. QED BY <2>2, <3>2, <3>3 DEF Standing
  <2>3. QED BY <2>1, <2>2
<1>7. QED BY <1>3, <1>4, <1>5, <1>6

\* What a handler saw of its credential stays well typed.
LEMMA SeenTyped ==
    ASSUME Carries', SeenType, Witness
    PROVE  SeenType'
<1>1. ASSUME NEW r \in Requests PROVE Standing(r)' \in [live: BOOLEAN, roles: SUBSET Roles]
  BY DEF Carries
<1>2. ASSUME NEW r \in Requests, NEW now \in [live: BOOLEAN, roles: SUBSET Roles]
      PROVE  /\ seen[r] \in [live: BOOLEAN, roles: SUBSET Roles]
             /\ [live |-> seen[r].live \/ now.live, roles |-> seen[r].roles \cup now.roles]
                  \in [live: BOOLEAN, roles: SUBSET Roles]
  BY DEF SeenType
<1>3. QED BY <1>1, <1>2 DEF Witness, SeenType

\* What a handler may do was its holder's to do while it resolved.
AuthorityInv == CoreInv /\ SeenType /\ SeenSoFar /\ AuthorityIsHeld

\* Every step keeps what a handler may do within what was true while it resolved.
LEMMA AuthorityStep == AuthorityInv /\ [Next]_authVars => AuthorityInv'
<1> SUFFICES ASSUME AuthorityInv, [Next]_authVars PROVE AuthorityInv'
  OBVIOUS
<1>1. CoreInv' /\ Carries /\ Carries'
  BY CoreNext, WhoCarries, PTL DEF AuthorityInv
<1>2. CASE UNCHANGED authVars
  BY <1>1, <1>2 DEF authVars, AuthorityInv, SeenType, SeenSoFar, AuthorityIsHeld, Standing,
     Holder, Enabled, Live
<1>3. CASE Next
  <2>1. SeenType'
    BY <1>1, <1>3, SeenTyped DEF AuthorityInv, Next
  <2>2. RowsStay /\ \A r \in Requests : Moves(r)
    BY <1>3, CoreStep, StepMoves DEF AuthorityInv, Next
  <2>3. ASSUME NEW r \in Requests
        PROVE  /\ request'[r].credential = None \/ request[r].credential = None =>
                     seen'[r] = Standing(r)'
               /\ request'[r].credential # None /\ request[r].credential # None =>
                     IF request[r].identity # None THEN seen'[r] = seen[r]
                     ELSE /\ seen'[r].live = (seen[r].live \/ Standing(r)'.live)
                          /\ seen'[r].roles = seen[r].roles \cup Standing(r)'.roles
    BY <1>3 DEF Next, Witness
  <2>4. ASSUME NEW r \in Requests
        PROVE  HandlerOK(r) /\ HandlerOK(r)'
    BY <1>1 DEF AuthorityInv, CoreInv
  <2>5. SeenSoFar'
    <3>1. SUFFICES ASSUME NEW r \in Requests, request'[r].at \in Resolving
                   PROVE  /\ Standing(r)'.live => seen'[r].live
                          /\ Standing(r)'.roles \subseteq seen'[r].roles
                          /\ request'[r].at \in {"owner", "user"} => seen'[r].live
      BY DEF SeenSoFar, Resolving
    <3>2. request'[r].credential # None /\ request'[r].identity = None
      BY <1>1, <3>1 DEF Carries, Resolving, Resolved
    <3>3. CASE request[r] = Idle
      <4>1. seen'[r] = Standing(r)'
        BY <2>3, <3>3 DEF Idle
      <4>2. request'[r].at \notin {"owner", "user"}
        BY <2>2, <3>3 DEF Moves, Idle, SigningIn
      <4>3. QED BY <4>1, <4>2
    <3>4. CASE request[r] # Idle
      <4>1. /\ request[r].at \in Resolving /\ request'[r].credential = request[r].credential
            /\ \/ request'[r].at = request[r].at
               \/ request[r].at = "arrived" /\ Live(request[r].credential)
        BY <2>2, <2>4, <3>1, <3>4 DEF Moves, Resolving, Resolved, SigningIn, Idle
      <4>2. request[r].credential # None /\ request[r].identity = None
        BY <1>1, <4>1 DEF Carries, Resolving, Resolved
      <4>3. /\ seen'[r].live = (seen[r].live \/ Standing(r)'.live)
            /\ seen'[r].roles = seen[r].roles \cup Standing(r)'.roles
        BY <2>3, <3>2, <4>2
      <4>4. Live(request[r].credential) => Standing(r).live
        BY <4>2 DEF Standing
      <4>5. request'[r].at \in {"owner", "user"} => seen[r].live
        BY <3>1, <4>1, <4>4 DEF AuthorityInv, SeenSoFar
      <4>6. QED BY <4>3, <4>5
    <3>5. QED BY <3>3, <3>4
  <2>6. AuthorityIsHeld'
    <3>1. SUFFICES ASSUME NEW r \in Requests, request'[r].identity # None,
                          request'[r].identity # Nobody
                   PROVE  /\ request'[r].identity.subject = Holder(request[r].credential)'
                          /\ request'[r].identity.role \in seen'[r].roles /\ seen'[r].live
      BY DEF AuthorityIsHeld, Holder
    <3>2. request'[r].at \in Resolved /\ request'[r].credential # None
      BY <1>1, <3>1 DEF Carries, Resolving, Resolved
    <3>3. request'[r].identity.subject = Holder(request[r].credential)'
      BY <2>4, <3>1, <3>2 DEF HandlerOK, Holder
    <3>4. CASE request[r].at \in Resolved
      <4>1. request'[r].identity = request[r].identity
        BY <2>2, <3>1, <3>2, <3>4 DEF Moves, Resolved, Resolving, SigningIn, Idle
      <4>2. request[r].credential # None /\ request[r].identity # None
        BY <1>1, <3>4 DEF Carries
      <4>3. seen'[r] = seen[r]
        BY <2>3, <3>2, <4>2
      <4>4. QED BY <3>1, <3>3, <4>1, <4>2, <4>3 DEF AuthorityInv, AuthorityIsHeld
    <3>5. CASE request[r].at \notin Resolved
      <4>1. /\ request[r].at \in {"owner", "user"} /\ Enabled(Holder(request[r].credential))
            /\ request'[r].identity.role = users[Holder(request[r].credential)].role
        BY <2>2, <3>1, <3>2, <3>5 DEF Moves, Resolved, Resolving, SigningIn, Idle
      <4>2. request[r].credential # None /\ request[r].identity = None
        BY <1>1, <4>1 DEF Carries, Resolving, Resolved
      <4>3. request'[r].identity.role \in Standing(r).roles
        BY <4>1, <4>2 DEF Standing
      <4>4. seen[r].live /\ Standing(r).roles \subseteq seen[r].roles
        BY <4>1 DEF AuthorityInv, SeenSoFar, Resolving
      <4>5. seen'[r].live /\ seen[r].roles \subseteq seen'[r].roles
        BY <2>3, <3>2, <4>2, <4>4
      <4>6. QED BY <3>3, <4>3, <4>4, <4>5
    <3>6. QED BY <3>4, <3>5
  <2>7. QED BY <1>1, <2>1, <2>5, <2>6 DEF AuthorityInv
<1>4. QED BY <1>2, <1>3

\* No handler has any authority at the start.
LEMMA AuthorityInit == Init => AuthorityInv
<1> SUFFICES ASSUME Init PROVE AuthorityInv
  OBVIOUS
<1>1. \A r \in Requests : request[r] = Idle
  BY DEF Init
<1>2. SeenType
  BY DEF Init, SeenType
<1>3. SeenSoFar /\ AuthorityIsHeld
  BY <1>1 DEF SeenSoFar, AuthorityIsHeld, Idle, Resolving
<1>4. QED BY <1>2, <1>3, CoreInit DEF AuthorityInv

\* Every row, every handler and the history keep their types.
THEOREM AuthTypes == Spec => []AuthTypeOK
<1>1. AuthorityInv => AuthTypeOK
  BY DEF AuthorityInv, CoreInv, SeenType, AuthTypeOK
<1>2. QED BY <1>1, AuthorityInit, AuthorityStep, PTL DEF Spec

\* No interleaving of requests with logouts, revocations, expiries, disabled or
\* demoted users and restarts lets a request act with a role that the holder of
\* its credential did not have, enabled, while it ran.
THEOREM Authority == Spec => []AuthorityIsHeld
<1>1. AuthorityInv => AuthorityIsHeld
  BY DEF AuthorityInv
<1>2. QED BY <1>1, AuthorityInit, AuthorityStep, PTL DEF Spec

-----------------------------------------------------------------------------
(* The trail of a token. *)

TrailInv == CoreInv /\ EventsTrue /\ TokenTrail

\* Where no event is added, in a handler or in the audit, the trail stays true.
LEMMA QuietTrail ==
    ASSUME TrailInv, RowsStay, UNCHANGED audit,
           \A r \in Requests : request'[r].at = "audit" => request'[r] = request[r]
    PROVE  EventsTrue' /\ TokenTrail'
<1>1. EventsTrue /\ TokenTrail
  BY DEF TrailInv
<1>2. ASSUME NEW t \in Tokens, tokens[t] = None
      PROVE  DOMAIN audit[t] = {}
  BY <1>1, <1>2 DEF EventsTrue
<1>3. \A t \in Tokens : tokens'[t] = None => tokens[t] = None
  BY DEF RowsStay
<1>4. ASSUME NEW t \in Tokens
      PROVE  /\ tokens'[t] = None => audit'[t] = <<>>
             /\ \A i \in DOMAIN audit'[t] :
                   audit'[t][i].action = "revoked" => tokens'[t].status = "revoked"
  BY <1>1, <1>2, <1>3, <1>4 DEF EventsTrue, RowsStay
<1>5. ASSUME NEW t \in Tokens, NEW r \in Requests,
             request'[r].at = "audit", request'[r].event.token = t
      PROVE  /\ tokens'[t] # None /\ request'[r].identity.subject = tokens'[t].owner
             /\ request'[r].event.action = "revoked" => tokens'[t].status = "revoked"
             /\ \A i \in DOMAIN audit'[t] : audit'[t][i].action # request'[r].event.action
             /\ \A q \in Requests :
                   request'[q].at = "audit" /\ request'[q].event = request'[r].event => q = r
  BY <1>1, <1>5 DEF EventsTrue, RowsStay
<1>6. TokenTrail'
  BY <1>1, <1>2 DEF TokenTrail, RowsStay
<1>7. QED BY <1>4, <1>5, <1>6 DEF EventsTrue

\* Minting: a token nobody wrote about, and one event about it on its way.
LEMMA MintTrail ==
    ASSUME TrailInv, NEW r \in Requests, NEW t \in Tokens, MintToken(r, t)
    PROVE  EventsTrue' /\ TokenTrail'
<1>1. /\ EventsTrue /\ TokenTrail /\ request[r] \in Handlers /\ request \in [Requests -> Handlers]
      /\ tokens \in [Tokens -> TokenRows \cup {None}] /\ RowsStay
  BY MintCore DEF TrailInv, CoreInv, StoredOK
<1>2. /\ tokens[t] = None /\ UNCHANGED audit
      /\ \A x \in Tokens \ {t} : tokens'[x] = tokens[x]
      /\ tokens'[t] = [owner |-> request[r].identity.subject, status |-> "live"]
      /\ \A x \in Requests \ {r} : request'[x] = request[x]
      /\ request'[r].at = "audit" /\ request'[r].event = [token |-> t, action |-> "minted"]
      /\ request'[r].identity = request[r].identity
  BY <1>1 DEF MintToken, Fresh, Audits, Handlers
<1>3. audit[t] = <<>> /\ \A x \in Requests \ {r} : request[x].at = "audit" => request[x].event.token # t
  BY <1>1, <1>2 DEF EventsTrue
<1>4. tokens'[t] # None
  <2>1. request[r].identity.subject \in Users
    BY DEF TrailInv, CoreInv, MintToken, HandlerOK, Resolved
  <2>2. tokens'[t] \in TokenRows
    BY <1>2, <2>1 DEF TokenRows
  <2>3. QED BY <2>2, NoneIsNothing
<1>5. EventsTrue'
  <2>1. ASSUME NEW x \in Tokens
        PROVE  /\ tokens'[x] = None => audit'[x] = <<>>
               /\ \A i \in DOMAIN audit'[x] :
                     audit'[x][i].action = "revoked" => tokens'[x].status = "revoked"
    BY <1>1, <1>2, <1>3, <2>1 DEF EventsTrue
  <2>2. ASSUME NEW x \in Tokens, NEW y \in Requests,
               request'[y].at = "audit", request'[y].event.token = x
        PROVE  /\ tokens'[x] # None /\ request'[y].identity.subject = tokens'[x].owner
               /\ request'[y].event.action = "revoked" => tokens'[x].status = "revoked"
               /\ \A i \in DOMAIN audit'[x] : audit'[x][i].action # request'[y].event.action
               /\ \A q \in Requests :
                     request'[q].at = "audit" /\ request'[q].event = request'[y].event => q = y
    <3>1. CASE y = r
      BY <1>2, <1>3, <1>4, <2>2, <3>1
    <3>2. CASE y # r
      <4>1. x # t /\ request'[y] = request[y] /\ tokens'[x] = tokens[x]
        BY <1>2, <1>3, <2>2, <3>2
      <4>2. ASSUME NEW q \in Requests,
                   request'[q].at = "audit", request'[q].event = request'[y].event
            PROVE  q = y
        BY <1>1, <1>2, <2>2, <4>1, <4>2 DEF EventsTrue
      <4>3. QED BY <1>1, <1>2, <2>2, <4>1, <4>2 DEF EventsTrue
    <3>3. QED BY <3>1, <3>2
  <2>3. QED BY <2>1, <2>2 DEF EventsTrue
<1>6. TokenTrail'
  BY <1>1, <1>2, <1>3 DEF TokenTrail
<1>7. QED BY <1>5, <1>6

\* Revoking: the conditional update lets one request through, and its event is
\* the first of its kind.
LEMMA RevokeTrail ==
    ASSUME TrailInv, NEW r \in Requests, NEW t \in Tokens, RevokeToken(r, t), Revocable(t)
    PROVE  EventsTrue' /\ TokenTrail'
<1>1. /\ EventsTrue /\ TokenTrail /\ request[r] \in Handlers /\ request \in [Requests -> Handlers]
      /\ tokens \in [Tokens -> TokenRows \cup {None}] /\ RowsStay
  BY RevokeCore DEF TrailInv, CoreInv, StoredOK
<1>2. /\ tokens[t] # None /\ tokens[t] \in TokenRows /\ tokens[t].status # "revoked"
      /\ tokens[t].owner = request[r].identity.subject
      /\ tokens' = [tokens EXCEPT ![t].status = "revoked"] /\ UNCHANGED audit
      /\ Audits(r, [token |-> t, action |-> "revoked"])
  BY <1>1 DEF RevokeToken, Revocable
<1>3. /\ \A x \in Tokens \ {t} : tokens'[x] = tokens[x]
      /\ tokens'[t].owner = tokens[t].owner /\ tokens'[t].status = "revoked"
      /\ tokens'[t] # None
  BY <1>1, <1>2 DEF RowsStay, TokenRows
<1>4. /\ \A x \in Requests \ {r} : request'[x] = request[x]
      /\ request'[r].at = "audit" /\ request'[r].event = [token |-> t, action |-> "revoked"]
      /\ request'[r].identity = request[r].identity
  BY <1>1, <1>2 DEF Audits, Handlers
<1>5. /\ \A i \in DOMAIN audit[t] : audit[t][i].action # "revoked"
      /\ \A x \in Requests : request[x].at = "audit" /\ request[x].event.token = t =>
            request[x].event.action # "revoked"
  BY <1>1, <1>2 DEF EventsTrue
<1>6. ASSUME NEW x \in Tokens
      PROVE  /\ tokens'[x] = None => audit'[x] = <<>>
             /\ \A i \in DOMAIN audit'[x] :
                   audit'[x][i].action = "revoked" => tokens'[x].status = "revoked"
  BY <1>1, <1>2, <1>3, <1>6 DEF EventsTrue
<1>7. ASSUME NEW x \in Tokens, NEW y \in Requests,
             request'[y].at = "audit", request'[y].event.token = x
      PROVE  /\ tokens'[x] # None /\ request'[y].identity.subject = tokens'[x].owner
             /\ request'[y].event.action = "revoked" => tokens'[x].status = "revoked"
             /\ \A i \in DOMAIN audit'[x] : audit'[x][i].action # request'[y].event.action
             /\ \A q \in Requests :
                   request'[q].at = "audit" /\ request'[q].event = request'[y].event => q = y
  <2>1. CASE y = r
    <3>1. x = t /\ request'[y].event.action = "revoked"
      BY <1>4, <1>7, <2>1
    <3>2. ASSUME NEW q \in Requests,
                 request'[q].at = "audit", request'[q].event = request'[y].event
          PROVE  q = y
      BY <1>4, <1>5, <2>1, <3>1, <3>2
    <3>3. QED BY <1>2, <1>3, <1>4, <1>5, <2>1, <3>1, <3>2
  <2>2. CASE y # r
    <3>1. request'[y] = request[y] /\ request[y].event.token = x
      BY <1>4, <1>7, <2>2
    <3>2. /\ tokens[x] # None /\ request[y].identity.subject = tokens[x].owner
          /\ request[y].event.action = "revoked" => tokens[x].status = "revoked"
          /\ \A i \in DOMAIN audit[x] : audit[x][i].action # request[y].event.action
      BY <1>1, <1>7, <3>1 DEF EventsTrue
    <3>3. ASSUME NEW q \in Requests,
                 request'[q].at = "audit", request'[q].event = request'[y].event
          PROVE  q = y
      <4>1. CASE q = r
        BY <1>4, <1>5, <1>7, <3>1, <3>3, <4>1
      <4>2. CASE q # r
        BY <1>1, <1>4, <1>7, <3>1, <3>3, <4>2 DEF EventsTrue
      <4>3. QED BY <4>1, <4>2
    <3>4. QED BY <1>2, <1>3, <3>1, <3>2, <3>3
  <2>3. QED BY <2>1, <2>2
<1>8. TokenTrail'
  BY <1>1, <1>2, <1>3 DEF TokenTrail
<1>9. QED BY <1>6, <1>7, <1>8 DEF EventsTrue

\* Recording: the event leaves the handler and is the one entry of its kind.
LEMMA AuditTrail ==
    ASSUME TrailInv, NEW r \in Requests, AuditToken(r)
    PROVE  EventsTrue' /\ TokenTrail'
<1> DEFINE e == request[r].event
           entry == [action |-> e.action, by |-> request[r].identity.subject]
<1>1. /\ EventsTrue /\ TokenTrail /\ request \in [Requests -> Handlers] /\ RowsStay
      /\ \A x \in Requests : HandlerOK(x)
      /\ audit \in [Tokens -> Seq([action: {"minted", "revoked"}, by: Users])]
  BY AuditCore DEF TrailInv, CoreInv, StoredOK
<1>2. /\ request[r].at = "audit" /\ UNCHANGED tokens
      /\ \A x \in Requests \ {r} : request'[x] = request[x]
      /\ request'[r].at = "idle"
  BY <1>1 DEF AuditToken, Ends, Idle
<1>3. CASE UNCHANGED audit
  BY <1>1, <1>2, <1>3, QuietTrail
<1>4. CASE audit' = [audit EXCEPT ![e.token] = Append(@, entry)]
  <2>1. e \in Events /\ e.token \in Tokens
    BY <1>1, <1>2 DEF HandlerOK, Events
  <2>2. PICK t \in Tokens : t = e.token
    BY <2>1
  <2>3. /\ tokens[t] # None /\ entry.by = tokens[t].owner
        /\ entry.action = "revoked" => tokens[t].status = "revoked"
        /\ \A i \in DOMAIN audit[t] : audit[t][i].action # entry.action
    BY <1>1, <1>2, <2>2 DEF EventsTrue
  <2>4. ASSUME NEW x \in Requests, x # r, request[x].at = "audit", request[x].event.token = t
        PROVE  request[x].event.action # entry.action
    <3>1. request[x].event \in Events /\ request[x].event # e
      BY <1>1, <1>2, <2>2, <2>4 DEF HandlerOK, EventsTrue
    <3>2. QED BY <2>1, <2>2, <2>4, <3>1 DEF Events
  <2>5. audit[t] \in Seq([action: {"minted", "revoked"}, by: Users])
    BY <1>1
  <2> HIDE DEF entry
  <2>6. /\ audit'[t] = Append(audit[t], entry)
        /\ \A x \in Tokens \ {t} : audit'[x] = audit[x]
    BY <1>1, <1>4, <2>2
  <2>7. /\ DOMAIN audit'[t] = DOMAIN audit[t] \cup {Len(audit[t]) + 1}
        /\ audit'[t][Len(audit[t]) + 1] = entry
        /\ \A i \in DOMAIN audit[t] : audit'[t][i] = audit[t][i]
    BY <2>5, <2>6
  <2>8. ASSUME NEW x \in Tokens
        PROVE  /\ tokens'[x] = None => audit'[x] = <<>>
               /\ \A i \in DOMAIN audit'[x] :
                     audit'[x][i].action = "revoked" => tokens'[x].status = "revoked"
    <3>1. CASE x = t
      <4>1. \A i \in DOMAIN audit[t] : audit[t][i].action = "revoked" => tokens[t].status = "revoked"
        BY <1>1 DEF EventsTrue
      <4>2. QED BY <1>2, <2>3, <2>7, <3>1, <4>1
    <3>2. CASE x # t
      BY <1>1, <1>2, <2>6, <3>2 DEF EventsTrue
    <3>3. QED BY <3>1, <3>2
  <2>9. ASSUME NEW x \in Tokens, NEW y \in Requests,
               request'[y].at = "audit", request'[y].event.token = x
        PROVE  /\ tokens'[x] # None /\ request'[y].identity.subject = tokens'[x].owner
               /\ request'[y].event.action = "revoked" => tokens'[x].status = "revoked"
               /\ \A i \in DOMAIN audit'[x] : audit'[x][i].action # request'[y].event.action
               /\ \A q \in Requests :
                     request'[q].at = "audit" /\ request'[q].event = request'[y].event => q = y
    <3>1. y # r /\ request'[y] = request[y]
      BY <1>2, <2>9
    <3>2. \A i \in DOMAIN audit[x] : audit[x][i].action # request[y].event.action
      BY <1>1, <2>9, <3>1 DEF EventsTrue
    <3>3. \A i \in DOMAIN audit'[x] : audit'[x][i].action # request'[y].event.action
      BY <2>4, <2>6, <2>7, <2>9, <3>1, <3>2
    <3>4. ASSUME NEW q \in Requests,
                 request'[q].at = "audit", request'[q].event = request'[y].event
          PROVE  q = y
      BY <1>1, <1>2, <2>9, <3>1, <3>4 DEF EventsTrue
    <3>5. QED BY <1>1, <1>2, <2>9, <3>1, <3>3, <3>4 DEF EventsTrue
  <2>10. TokenTrail'
    <3>1. ASSUME NEW x \in Tokens, NEW i \in DOMAIN audit'[x], NEW j \in DOMAIN audit'[x]
          PROVE  /\ audit'[x][i].by = tokens'[x].owner
                 /\ audit'[x][i].action = audit'[x][j].action => i = j
      <4>1. CASE x = t
        BY <1>1, <1>2, <2>3, <2>7, <4>1 DEF TokenTrail
      <4>2. CASE x # t
        BY <1>1, <1>2, <2>6, <4>2 DEF TokenTrail
      <4>3. QED BY <4>1, <4>2
    <3>2. QED BY <3>1 DEF TokenTrail
  <2>11. QED BY <2>8, <2>9, <2>10 DEF EventsTrue
<1>5. QED BY <1>3, <1>4 DEF AuditToken

\* Every step keeps the audit trail of the tokens true to their rows.
LEMMA TrailNext == TrailInv /\ [Next]_authVars => TrailInv'
<1> SUFFICES ASSUME TrailInv, [Next]_authVars PROVE EventsTrue' /\ TokenTrail'
  BY CoreNext DEF TrailInv
<1>1. CASE UNCHANGED authVars
  BY <1>1 DEF authVars, TrailInv, EventsTrue, TokenTrail
<1>2. CASE Step
  <2>1. RowsStay /\ \A r \in Requests : request[r] \in Handlers /\ Moves(r)
    BY <1>2, CoreStep, StepMoves, RowTypes DEF TrailInv, CoreInv
  <2>2. ASSUME UNCHANGED audit,
               \A r \in Requests : request[r].at = "admitted" => request'[r].at # "audit"
        PROVE  EventsTrue' /\ TokenTrail'
    <3>1. \A r \in Requests : request'[r].at = "audit" => request'[r] = request[r]
      BY <2>1, <2>2 DEF Moves, Idle, SigningIn
    <3>2. QED BY <2>1, <2>2, <3>1, QuietTrail
  <2>3. CASE Start \/ Surroundings \/ \E u \in AtProvider, l \in Logins : SsoLogin(u, l)
    <3>1. UNCHANGED audit /\ (UNCHANGED request \/ \A r \in Requests : request'[r] = Idle)
      BY <2>3 DEF Start, CountUsers, CreateInitialAdmin, BootstrapFails, Restart,
         Surroundings, ByHand, Expires, SsoLogin, rows
    <3>2. QED BY <2>2, <3>1 DEF Idle
  <2>4. ASSUME NEW r \in Requests, Resolve(r)
        PROVE  EventsTrue' /\ TokenTrail'
    <3> Idle.at = "idle"
      BY DEF Idle
    <3>1. UNCHANGED audit /\ request[r].at # "admitted"
      BY <2>4 DEF Resolve, Arrive, FindToken, FindOwner, ReadSession, ReadUser, rows
    <3>2. \A x \in Requests \ {r} : request'[x] = request[x]
      BY <2>4, ResolveMoves DEF TrailInv
    <3>3. QED BY <2>2, <3>1, <3>2
  <2>5. ASSUME NEW r \in Requests, SignIn(r)
        PROVE  EventsTrue' /\ TokenTrail'
    <3>1. UNCHANGED audit
      BY <2>5 DEF SignIn, Authenticate, RestoreHash, CreateSession, SsoCallback, LoginFails,
         Exchange, Claims, Mirror, rows
    <3> Idle.at = "idle"
      BY DEF Idle
    <3>2. request[r].at # "admitted"
      BY <2>5 DEF SignIn, Authenticate, RestoreHash, CreateSession, SsoCallback, LoginFails,
         Exchange, Claims, Mirror
    <3>3. \A x \in Requests \ {r} : request'[x] = request[x]
      BY <2>5, SignInMoves DEF TrailInv
    <3>4. QED BY <2>2, <3>1, <3>2, <3>3
  <2>6. ASSUME NEW r \in Requests, Act(r)
        PROVE  EventsTrue' /\ TokenTrail'
    <3>1. ASSUME UNCHANGED audit, Ends(r)
          PROVE  EventsTrue' /\ TokenTrail'
      <4>1. request'[r] = Idle
        BY <3>1 DEF Ends, TrailInv, CoreInv, StoredOK
      <4>2. \A x \in Requests \ {r} : request'[x] = request[x]
        BY <2>6, ActMoves DEF TrailInv
      <4>3. QED BY <2>2, <3>1, <4>1, <4>2 DEF Idle
    <3>2. CASE OtherRoute(r) \/ \E s \in Sessions : Logout(r, s)
      BY <3>1, <3>2 DEF OtherRoute, Logout, rows
    <3>3. ASSUME NEW t \in Tokens, RevokeToken(r, t), ~Revocable(t)
          PROVE  EventsTrue' /\ TokenTrail'
      BY <3>1, <3>3 DEF RevokeToken
    <3>4. QED BY <2>6, <3>2, <3>3, AuditTrail, MintTrail, RevokeTrail DEF Act
  <2>7. QED BY <1>2, <2>3, <2>4, <2>5, <2>6 DEF Step
<1>3. QED BY <1>1, <1>2 DEF Next

\* The audit of a token holds at most one event of each kind, about the owner,
\* however many requests mint and revoke at once.
THEOREM Trail == Spec => []TokenTrail
<1>1. Init => TrailInv
  <2>1. ASSUME Init PROVE EventsTrue /\ TokenTrail
    BY <2>1 DEF Init, EventsTrue, TokenTrail, Idle
  <2>2. QED BY <2>1, CoreInit DEF TrailInv
<1>2. TrailInv => TokenTrail
  BY DEF TrailInv
<1>3. QED BY <1>1, <1>2, TrailNext, PTL DEF Spec

-----------------------------------------------------------------------------
(* A login is good for one session. *)

LoginInv == CoreInv /\ LoginsSpent

\* Where nobody gets a login, nor a session, that they did not have, all stays.
LEMMA QuietLogins ==
    ASSUME LoginInv, RowsStay,
           \A s \in Sessions : sessions'[s] # None =>
              sessions[s] # None /\ sessions'[s].login = sessions[s].login,
           \A r \in Requests : request'[r].login \in {request[r].login, None}
    PROVE  LoginsSpent'
<1>1. LoginsSpent /\ StoredOK
  BY DEF LoginInv, CoreInv
<1>2. ASSUME NEW l \in Logins, Spent(l) PROVE Spent(l)'
  BY <1>2 DEF RowsStay
<1>3. ASSUME NEW s \in Sessions, sessions'[s] # None, sessions'[s].login # None
      PROVE  /\ Spent(sessions[s].login)'
             /\ \A q \in Sessions :
                   sessions'[q] # None /\ sessions'[q].login = sessions'[s].login => q = s
             /\ \A r \in Requests : request'[r].login # sessions'[s].login
  <2>1. sessions[s] # None /\ sessions[s].login = sessions'[s].login
    BY <1>3
  <2>2. sessions[s].login \in Logins /\ Spent(sessions[s].login)
    BY <1>1, <1>3, <2>1, RowTypes DEF LoginsSpent, SessionRows
  <2>3. PICK l \in Logins : l = sessions[s].login
    BY <2>2
  <2>4. Spent(l)' /\ l = sessions'[s].login
    BY <1>2, <2>1, <2>2, <2>3
  <2>5. QED BY <1>1, <1>3, <2>1, <2>3, <2>4 DEF LoginsSpent, Spent
<1>4. ASSUME NEW r \in Requests, request'[r].login # None
      PROVE  /\ Spent(request[r].login)'
             /\ \A q \in Requests : request'[q].login = request'[r].login => q = r
  <2>1. request[r].login = request'[r].login
    BY <1>4
  <2>2. request[r].login \in Logins /\ Spent(request[r].login)
    BY <1>1, <1>4, <2>1, RowTypes DEF LoginsSpent, Handlers
  <2>3. PICK l \in Logins : l = request[r].login
    BY <2>2
  <2>4. Spent(l)' /\ l = request'[r].login
    BY <1>2, <2>1, <2>2, <2>3
  <2>5. QED BY <1>1, <1>4, <2>1, <2>3, <2>4 DEF LoginsSpent, Spent
<1>5. QED BY <1>3, <1>4 DEF LoginsSpent

\* The callback: the attempt was live, so nobody had it; now it is spent, and one
\* handler has it.
LEMMA CallbackLogins ==
    ASSUME LoginInv, NEW r \in Requests, NEW l \in Logins, NEW state, SsoCallback(r, l, state)
    PROVE  LoginsSpent'
<1>1. /\ LoginsSpent /\ StoredOK /\ RowsStay /\ UNCHANGED sessions
      /\ request \in [Requests -> Handlers] /\ sessions \in [Sessions -> SessionRows \cup {None}]
  BY CallbackCore DEF LoginInv, CoreInv, StoredOK, SsoCallback
<1>2. CASE UNCHANGED request
  BY <1>1, <1>2, QuietLogins
<1>3. CASE ~UNCHANGED request
  <2>1. /\ logins[l].status = "live" /\ Spent(l)'
        /\ \A x \in Requests \ {r} : request'[x] = request[x]
        /\ request'[r].login = l
        /\ request[r].login = None
    BY <1>1, <1>3, TakeRows DEF SsoCallback, Handlers, Idle
  <2>2. ~Spent(l)
    BY <2>1 DEF Spent
  <2>3. /\ \A s \in Sessions : sessions[s] # None => sessions[s].login # l
        /\ \A x \in Requests : request[x].login # l
    BY <1>1, <2>2, NoneIsNothing DEF LoginsSpent
  <2>4. \A x \in Logins : Spent(x) => Spent(x)'
    BY <1>1 DEF RowsStay
  <2>5. ASSUME NEW s \in Sessions, sessions'[s] # None, sessions'[s].login # None
        PROVE  /\ Spent(sessions[s].login)'
               /\ \A q \in Sessions :
                     sessions'[q] # None /\ sessions'[q].login = sessions'[s].login => q = s
               /\ \A x \in Requests : request'[x].login # sessions'[s].login
    <3>1. sessions[s] # None /\ sessions[s].login \in Logins /\ Spent(sessions[s].login)
      BY <1>1, <2>5, RowTypes DEF LoginsSpent, SessionRows
    <3>2. Spent(sessions[s].login)'
      BY <1>1, <2>4, <3>1 DEF Spent
    <3>3. \A x \in Requests : request'[x].login # sessions'[s].login
      BY <1>1, <2>1, <2>3, <2>5, <3>1 DEF LoginsSpent
    <3>4. QED BY <1>1, <2>5, <3>2, <3>3 DEF LoginsSpent
  <2>6. ASSUME NEW x \in Requests, request'[x].login # None
        PROVE  /\ Spent(request[x].login)'
               /\ \A q \in Requests : request'[q].login = request'[x].login => q = x
    <3>1. CASE x = r
      BY <2>1, <2>3, <3>1 DEF Spent
    <3>2. CASE x # r
      <4>1. request'[x] = request[x] /\ request[x].login \in Logins /\ Spent(request[x].login)
        BY <1>1, <2>1, <2>6, <3>2 DEF LoginsSpent, Handlers
      <4>2. Spent(request[x].login)'
        BY <2>4, <4>1 DEF Spent
      <4>3. ASSUME NEW q \in Requests, request'[q].login = request'[x].login PROVE q = x
        BY <1>1, <2>1, <2>3, <2>6, <4>1, <4>3 DEF LoginsSpent
      <4>4. QED BY <4>2, <4>3
    <3>3. QED BY <3>1, <3>2
  <2>7. QED BY <2>5, <2>6 DEF LoginsSpent
<1>4. QED BY <1>2, <1>3

\* The new session has the login its handler had, and the handler ends.
LEMMA CreateLogins ==
    ASSUME LoginInv, NEW r \in Requests, NEW s \in Sessions, CreateSession(r, s)
    PROVE  LoginsSpent'
<1>1. /\ LoginsSpent /\ StoredOK /\ RowsStay /\ UNCHANGED logins
      /\ request \in [Requests -> Handlers] /\ sessions \in [Sessions -> SessionRows \cup {None}]
  BY CreateSessionCore DEF LoginInv, CoreInv, StoredOK, CreateSession
<1>2. /\ sessions[s] = None /\ sessions'[s].login = request[r].login
      /\ \A x \in Sessions \ {s} : sessions'[x] = sessions[x]
      /\ \A x \in Requests \ {r} : request'[x] = request[x]
      /\ request'[r].login = None
  BY <1>1 DEF CreateSession, Ends, Idle, Fresh
<1>3. ASSUME NEW x \in Sessions, sessions'[x] # None, sessions'[x].login # None
      PROVE  /\ Spent(sessions[x].login)'
             /\ \A q \in Sessions :
                   sessions'[q] # None /\ sessions'[q].login = sessions'[x].login => q = x
             /\ \A y \in Requests : request'[y].login # sessions'[x].login
  <2>1. CASE x = s
    <3>1. sessions'[x].login = request[r].login /\ request[r].login # None
      BY <1>2, <1>3, <2>1
    <3>2. Spent(sessions[x].login)'
      BY <1>1, <3>1 DEF LoginsSpent, Spent
    <3>3. \A q \in Sessions :
             sessions'[q] # None /\ sessions'[q].login = sessions'[x].login => q = x
      BY <1>1, <1>2, <2>1, <3>1 DEF LoginsSpent
    <3>4. \A y \in Requests : request'[y].login # sessions'[x].login
      BY <1>1, <1>2, <3>1 DEF LoginsSpent
    <3>5. QED BY <3>2, <3>3, <3>4
  <2>2. CASE x # s
    <3>1. sessions'[x] = sessions[x] /\ sessions[x] # None /\ sessions[x].login # None
      BY <1>2, <1>3, <2>2
    <3>2. Spent(sessions[x].login)'
      BY <1>1, <3>1 DEF LoginsSpent, Spent
    <3>3. \A q \in Sessions :
             sessions'[q] # None /\ sessions'[q].login = sessions'[x].login => q = x
      BY <1>1, <1>2, <3>1 DEF LoginsSpent
    <3>4. \A y \in Requests : request'[y].login # sessions'[x].login
      BY <1>1, <1>2, <3>1 DEF LoginsSpent
    <3>5. QED BY <3>2, <3>3, <3>4
  <2>3. QED BY <2>1, <2>2
<1>4. ASSUME NEW x \in Requests, request'[x].login # None
      PROVE  /\ Spent(request[x].login)'
             /\ \A q \in Requests : request'[q].login = request'[x].login => q = x
  <2>1. request'[x] = request[x]
    BY <1>2, <1>4
  <2>2. Spent(request[x].login)'
    BY <1>1, <1>4, <2>1 DEF LoginsSpent, Spent
  <2>3. QED BY <1>1, <1>2, <1>4, <2>1, <2>2 DEF LoginsSpent
<1>5. QED BY <1>3, <1>4 DEF LoginsSpent

\* Every step keeps a spent sign-in spent.
LEMMA LoginNext == LoginInv /\ [Next]_authVars => LoginInv'
<1> SUFFICES ASSUME LoginInv, [Next]_authVars PROVE LoginsSpent'
  BY CoreNext DEF LoginInv
<1>1. CASE UNCHANGED authVars
  BY <1>1 DEF authVars, LoginInv, LoginsSpent, Spent
<1>2. CASE Step
  <2>1. /\ RowsStay /\ request \in [Requests -> Handlers] /\ Idle.login = None
        /\ sessions \in [Sessions -> SessionRows \cup {None}]
    BY <1>2, CoreStep DEF LoginInv, CoreInv, StoredOK, Idle
  <2>2. ASSUME UNCHANGED sessions,
               \A r \in Requests : request'[r].login \in {request[r].login, None}
        PROVE  LoginsSpent'
    BY <2>1, <2>2, QuietLogins
  <2>3. ASSUME NEW s \in Sessions, sessions[s] # None,
               sessions' = [sessions EXCEPT ![s].status = "gone"],
               \A r \in Requests : request'[r].login \in {request[r].login, None}
        PROVE  LoginsSpent'
    <3>1. sessions[s] \in SessionRows
      BY <2>1, <2>3
    <3>2. \A x \in Sessions : sessions'[x] # None =>
             sessions[x] # None /\ sessions'[x].login = sessions[x].login
      BY <2>1, <2>3, <3>1 DEF SessionRows
    <3>3. QED BY <2>1, <2>3, <3>2, QuietLogins
  <2>4. CASE Start \/ \E u \in AtProvider, l \in Logins : SsoLogin(u, l)
    <3>1. UNCHANGED sessions /\ (UNCHANGED request \/ \A r \in Requests : request'[r] = Idle)
      BY <2>4 DEF Start, CountUsers, CreateInitialAdmin, BootstrapFails, Restart, SsoLogin, rows
    <3>2. QED BY <2>1, <2>2, <3>1
  <2>5. CASE Surroundings
    <3>1. UNCHANGED request
      BY <2>5 DEF Surroundings, ByHand, Expires
    <3>2. \/ UNCHANGED sessions
          \/ \E s \in Sessions : sessions[s] # None /\ sessions' = [sessions EXCEPT ![s].status = "gone"]
      BY <2>5, AuthAssumption DEF Surroundings, ByHand, Expires, Live
    <3>3. QED BY <2>2, <2>3, <3>1, <3>2
  <2>6. ASSUME NEW r \in Requests, Resolve(r)
        PROVE  LoginsSpent'
    <3>1. UNCHANGED sessions
      BY <2>6 DEF Resolve, Arrive, FindToken, FindOwner, ReadSession, ReadUser, rows
    <3>2. \A x \in Requests : request'[x].login \in {request[x].login, None}
      <4>1. CASE Ends(r) \/ (\E at : Goes(r, at)) \/ (\E i : Admits(r, i))
        BY <2>1, <4>1 DEF Goes, Ends, Admits, Handlers
      <4>2. CASE \E c \in Sessions \cup Tokens : Arrive(r, c)
        BY <2>1, <4>2 DEF Arrive, Handlers
      <4>3. QED
        BY <2>6, <4>1, <4>2 DEF Resolve, FindToken, FindOwner, ReadSession, ReadUser
    <3>3. QED BY <2>2, <3>1, <3>2
  <2>7. ASSUME NEW r \in Requests, Act(r)
        PROVE  LoginsSpent'
    <3>1. \A x \in Requests : request'[x].login \in {request[x].login, None}
      BY <2>1, <2>7 DEF Act, OtherRoute, AuditToken, MintToken, RevokeToken, Logout, Ends,
         Audits, Handlers
    <3>2. CASE UNCHANGED sessions
      BY <2>2, <3>1, <3>2
    <3>3. CASE \E s \in Sessions : Logout(r, s)
      BY <2>3, <3>1, <3>3 DEF Logout
    <3>4. QED
      BY <2>7, <3>2, <3>3 DEF Act, OtherRoute, AuditToken, MintToken, RevokeToken, rows
  <2>8. ASSUME NEW r \in Requests, SignIn(r)
        PROVE  LoginsSpent'
    <3>1. CASE \E s \in Sessions : CreateSession(r, s)
      BY <3>1, CreateLogins
    <3>2. CASE \E l \in Logins, state \in Logins \cup {None} : SsoCallback(r, l, state)
      BY <3>2, CallbackLogins
    <3>3. CASE \/ \E u \in Users, p \in Passwords : Authenticate(r, u, p)
               \/ RestoreHash(r) \/ LoginFails(r) \/ Exchange(r) \/ Claims(r) \/ Mirror(r)
      <4>1. UNCHANGED sessions
        BY <3>3 DEF Authenticate, RestoreHash, LoginFails, Exchange, Claims, Mirror, rows
      <4>2. \A x \in Requests : request'[x].login \in {request[x].login, None}
        <5>1. CASE Ends(r) \/ (\E at : Goes(r, at)) \/ Exchange(r)
          BY <2>1, <5>1 DEF Goes, Ends, Exchange, Handlers
        <5>2. CASE \E u \in Users, p \in Passwords : Authenticate(r, u, p)
          BY <2>1, <5>2 DEF Authenticate, Handlers
        <5>3. QED BY <3>3, <5>1, <5>2 DEF RestoreHash, LoginFails, Claims, Mirror
      <4>3. QED BY <2>2, <4>1, <4>2
    <3>4. QED BY <2>8, <3>1, <3>2, <3>3 DEF SignIn
  <2>9. QED BY <1>2, <2>4, <2>5, <2>6, <2>7, <2>8 DEF Step
<1>3. QED BY <1>1, <1>2 DEF Next

\* Two sets of which at most one has an element, and at most one, count to one.
LEMMA AtMostOne ==
    ASSUME NEW S, NEW T,
           \A a, b \in S : a = b, \A a, b \in T : a = b, S = {} \/ T = {}
    PROVE  Cardinality(S) + Cardinality(T) <= 1
<1>1. ASSUME NEW X, \A a, b \in X : a = b
      PROVE  Cardinality(X) \in {0, 1} /\ (X = {} => Cardinality(X) = 0)
  <2>1. CASE X = {}
    BY <2>1, FS_EmptySet
  <2>2. CASE X # {}
    <3>1. PICK a : X = {a}
      BY <1>1, <2>2
    <3>2. QED BY <2>2, <3>1, FS_Singleton
  <2>3. QED BY <2>1, <2>2
<1>2. /\ Cardinality(S) \in {0, 1} /\ (S = {} => Cardinality(S) = 0)
      /\ Cardinality(T) \in {0, 1} /\ (T = {} => Cardinality(T) = 0)
  BY <1>1
<1>3. QED BY <1>2

\* One attempt at the provider makes at most one session, or is on its way to
\* one, from however many tabs and however often the callback comes.
THEOREM OneSession == Spec => []OneSessionPerLogin
<1>1. Init => LoginInv
  <2>1. ASSUME Init PROVE LoginsSpent
    BY <2>1 DEF Init, LoginsSpent, Idle
  <2>2. QED BY <2>1, CoreInit DEF LoginInv
<1>2. LoginInv => OneSessionPerLogin
  <2> SUFFICES ASSUME LoginsSpent, NEW l \in Logins
               PROVE  Cardinality({s \in Sessions : sessions[s] # None /\ sessions[s].login = l})
                      + Cardinality({r \in Requests : request[r].login = l}) <= 1
    BY DEF LoginInv, OneSessionPerLogin
  <2> DEFINE S == {s \in Sessions : sessions[s] # None /\ sessions[s].login = l}
             T == {r \in Requests : request[r].login = l}
  <2>1. l # None
    BY NoneIsNothing
  <2>2. \A a, b \in S : a = b
    BY <2>1 DEF LoginsSpent
  <2>3. \A a, b \in T : a = b
    BY <2>1 DEF LoginsSpent
  <2>4. S = {} \/ T = {}
    BY <2>1 DEF LoginsSpent
  <2> HIDE DEF S, T
  <2>5. Cardinality(S) + Cardinality(T) <= 1
    BY <2>2, <2>3, <2>4, AtMostOne
  <2>6. QED BY <2>5 DEF S, T
<1>3. QED BY <1>1, <1>2, LoginNext, PTL DEF Spec

-----------------------------------------------------------------------------
(* What was decided by hand. *)

HandLeft ==
    \A u \in Users :
        /\ users[u] # None /\ hand' = hand =>
            /\ users'[u] # None /\ users'[u].disabled = users[u].disabled
            /\ users'[u].hash # users[u].hash =>
                  \E r \in Requests : /\ request[r].at = "rehash" /\ request[r].user = u
                                       /\ users'[u].hash.of = request[r].typed
        /\ users[u] = None /\ hand' = hand /\ users'[u] # None =>
            \/ u = Initial /\ process = "empty"
            \/ \E r \in Requests : request[r].at = "mirror" /\ request[r].user = u

\* No sign-in and no restart enables a disabled account, a stored password only gives
\* way to the one a sign-in had verified, and no rehash brings a deleted row back: the
\* three writes to a user's row are the initial Admin's, where there was none, the
\* rehash, where there is one, and the mirror.
THEOREM HandsWork == Spec => HandStands
<1>1. CoreInv /\ [Next]_authVars => [HandLeft]_authVars
  <2> SUFFICES ASSUME CoreInv, Step PROVE HandLeft
    BY DEF Next
  <2>1. StoredOK /\ users \in [Users -> Rows \cup {None}] /\ hand \in 0..MaxHand
    BY DEF CoreInv, StoredOK
  <2>2. CASE UNCHANGED users
    BY <2>2 DEF HandLeft
  <2>3. CASE ByHand
    BY <2>1, <2>3, AuthAssumption DEF ByHand, HandLeft
  <2>4. CASE CreateInitialAdmin
    BY <2>1, <2>4 DEF CreateInitialAdmin, HandLeft
  <2>5. ASSUME NEW r \in Requests, RestoreHash(r) PROVE HandLeft
    <3>1. request[r].user \in Users /\ request[r].at = "rehash"
      BY <2>5 DEF CoreInv, HandlerOK, RestoreHash, SigningIn
    <3>2. CASE users[request[r].user] = None
      BY <2>5, <3>2 DEF RestoreHash, HandLeft
    <3>3. CASE users[request[r].user] # None
      <4>1. users[request[r].user] \in Rows
        BY <2>1, <3>1, <3>3
      <4>2. users' = [users EXCEPT ![request[r].user] =
               [users[request[r].user] EXCEPT !.hash = [of |-> request[r].typed, weak |-> FALSE]]]
        BY <2>1, <2>5, <3>1, <3>3 DEF RestoreHash
      <4>3. users'[request[r].user] \in Rows
        <5>1. [of |-> request[r].typed, weak |-> FALSE] \in Hashes
          BY <2>5, <3>1 DEF CoreInv, HandlerOK, Hashes
        <5>2. QED BY <2>1, <3>1, <4>1, <4>2, <5>1 DEF Rows
      <4>4. /\ users'[request[r].user].disabled = users[request[r].user].disabled
            /\ users'[request[r].user].hash.of = request[r].typed
            /\ \A x \in Users \ {request[r].user} : users'[x] = users[x]
        BY <2>1, <3>1, <4>1, <4>2 DEF Rows
      <4>5. QED BY <3>1, <3>3, <4>3, <4>4, NoneIsNothing DEF HandLeft
    <3>4. QED BY <3>2, <3>3
  <2>6. ASSUME NEW r \in Requests, Mirror(r) PROVE HandLeft
    <3>1. /\ request[r].user \in Users /\ request[r].claim \in Roles
          /\ request[r].at = "mirror"
      BY <2>6 DEF CoreInv, HandlerOK, Mirror, SigningIn
    <3>2. /\ users'[request[r].user] = Mirrored(users[request[r].user], request[r].claim)
          /\ \A x \in Users \ {request[r].user} : users'[x] = users[x]
      BY <2>1, <2>6, <3>1 DEF Mirror
    <3>3. users'[request[r].user] # None
      BY <2>1, <3>1, <3>2, MirroredRow, NoneIsNothing
    <3>4. users[request[r].user] # None =>
             /\ users'[request[r].user].disabled = users[request[r].user].disabled
             /\ users'[request[r].user].hash = users[request[r].user].hash
      BY <2>1, <3>1, <3>2, MirroredRow
    <3>5. QED BY <3>1, <3>2, <3>3, <3>4 DEF HandLeft
  <2>7. UNCHANGED users \/ ByHand \/ CreateInitialAdmin
        \/ \E r \in Requests : RestoreHash(r) \/ Mirror(r)
    <3>1. CASE Start
      BY <3>1 DEF Start, CountUsers, BootstrapFails, Restart, rows
    <3>2. CASE Surroundings
      BY <3>2 DEF Surroundings, Expires
    <3>3. CASE \E r \in Requests : Resolve(r)
      BY <3>3 DEF Resolve, Arrive, FindToken, FindOwner, ReadSession, ReadUser, rows
    <3>4. CASE \E r \in Requests : Act(r)
      BY <3>4 DEF Act, OtherRoute, AuditToken, MintToken, RevokeToken, Logout, rows
    <3>5. CASE \E r \in Requests : SignIn(r)
      BY <3>5 DEF SignIn, Authenticate, CreateSession, SsoCallback, LoginFails, Exchange,
         Claims, rows
    <3>6. CASE \E u \in AtProvider, l \in Logins : SsoLogin(u, l)
      BY <3>6 DEF SsoLogin
    <3>7. QED BY <3>1, <3>2, <3>3, <3>4, <3>5, <3>6 DEF Step
  <2>8. QED BY <2>2, <2>3, <2>4, <2>5, <2>6, <2>7
<1>2. QED BY <1>1, AuthCore, PTL DEF Spec, HandStands, HandLeft
=============================================================================
