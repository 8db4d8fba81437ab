------------------------------ MODULE Sessions ------------------------------
(***************************************************************************)
(* Server-side sessions: the Redis records and per-user index               *)
(* (app/core/sessions/store.py) and the middleware around every request     *)
(* (app/core/sessions/middleware.py).  Every await of a store operation is  *)
(* a step; other requests and the revocation script run in between.         *)
(***************************************************************************)
EXTENDS Naturals, FiniteSets

CONSTANTS Ids,              \* session identifiers that can be drawn
          Users, NoUser,
          Requests,         \* requests that can be in flight together
          IdleTimeout, AbsoluteTimeout,     \* in ticks of the model's clock
          MaxTime           \* bound on the clock

ASSUME SessionAssumption ==
    /\ NoUser \notin Users
    /\ IdleTimeout \in Nat /\ AbsoluteTimeout \in Nat /\ MaxTime \in Nat
    /\ 0 < IdleTimeout /\ IdleTimeout < AbsoluteTimeout

VARIABLES now,
          session,      \* id -> the record under rfp:session:<id>
          index,        \* user -> the set under rfp:user_sessions:<user>
          request,      \* request -> where it is and what it holds
          drawn,        \* identifiers handed out so far
          revoking,     \* the revocation script: its user and the ids left
          logins,       \* history: user -> times a login took effect
          anonymous,    \* history: ids that have carried a session without user
          ended,        \* history: ids ended while no other request held them
          loggedOut,    \* history: ids whose record a logout deleted
          registered    \* history: ids that have been in an index

stores == <<session, index>>
history == <<logins, anonymous, ended, loggedOut, registered>>
sessionVars == <<now, session, index, request, drawn, revoking, history>>

\* anchor is authenticated_at, or created_at before a login; until is the end
\* of the key's TTL.
NoRecord == [live |-> FALSE, user |-> NoUser, anchor |-> 0, last |-> 0, until |-> 0]
Fresh == [NoRecord EXCEPT !.live = TRUE, !.anchor = now, !.last = now]
EmptyIndex == [ids |-> {}, until |-> 0]

Times == 0..MaxTime
Instants == 0..(MaxTime + AbsoluteTimeout)
Records == [live : BOOLEAN, user : Users \cup {NoUser}, anchor : Times, last : Times,
            until : Instants]

\* id is the session_id the middleware keeps (a set of at most one), was the
\* user at the start, rec the record the handler works on.
Resting == [at |-> "idle", id |-> {}, was |-> NoUser, rec |-> NoRecord,
            goal |-> "page", ttl |-> 1]

At(r, s) == request[r].at = s
Goto(r, s) == request' = [request EXCEPT ![r].at = s]
Holds(r, i) == request[r].at # "idle" /\ i \in request[r].id
Min2(a, b) == IF a < b THEN a ELSE b

-----------------------------------------------------------------------------
(* dispatch, up to the handler.                                             *)

IdleExpired(rec) == now - rec.last > IdleTimeout
AbsoluteExpired(rec) == now - rec.anchor > AbsoluteTimeout

\* Mutant: an id whose record is gone is kept for the new session.
ArrivesAnonymousKeepsId(r, i) ==
    /\ At(r, "idle") /\ \A c \in i : ~session[c].live
    /\ request' = [request EXCEPT ![r] =
                     [Resting EXCEPT !.at = "handler", !.id = i, !.rec = Fresh]]
    /\ UNCHANGED <<now, stores, drawn, revoking, history>>

\* No cookie, an id no record answers for, or one whose record is gone.
ArrivesAnonymous(r, i) ==
    /\ At(r, "idle") /\ \A c \in i : ~session[c].live
    /\ request' = [request EXCEPT ![r] =
                     [Resting EXCEPT !.at = "handler", !.rec = Fresh]]
    /\ UNCHANGED <<now, stores, drawn, revoking, history>>

ArrivesWithSession(r, i) ==
    LET rec == session[i] IN
    /\ At(r, "idle") /\ rec.live
    /\ ~IdleExpired(rec) /\ ~AbsoluteExpired(rec)
    /\ request' = [request EXCEPT ![r] =
                     [Resting EXCEPT !.at = "handler", !.id = {i}, !.was = rec.user,
                                     !.rec = [rec EXCEPT !.last = now, !.until = 0]]]
    /\ UNCHANGED <<now, stores, drawn, revoking, history>>

\* An expired record is deleted and its id unregistered before the handler runs
\* with a fresh record.
ArrivesExpired(r, i) ==
    LET rec == session[i] IN
    /\ At(r, "idle") /\ rec.live
    /\ IdleExpired(rec) \/ AbsoluteExpired(rec)
    /\ request' = [request EXCEPT ![r] =
                     [Resting EXCEPT !.at = "delete", !.id = {i}, !.was = rec.user,
                                     !.rec = Fresh, !.goal = "expire"]]
    /\ UNCHANGED <<now, stores, drawn, revoking, history>>

-----------------------------------------------------------------------------
(* The handlers, by what they leave in request.session.                     *)

Handled(r) == UNCHANGED <<now, stores, drawn, revoking, history>>

\* Any other page, a refused login, a login form without CSRF token.
PageHandled(r) ==
    /\ At(r, "handler") /\ Goto(r, "return")
    /\ Handled(r)

\* login_action with the right password.  Its CSRF token comes from an earlier
\* page of the session, so there is one; a user may already be logged in.
LoginHandled(r, u) ==
    /\ At(r, "handler") /\ request[r].id # {}
    /\ request' = [request EXCEPT ![r].at = "return", ![r].rec.user = u]
    /\ Handled(r)

\* logout_action, with a CSRF token as well.
LogoutHandled(r) ==
    /\ At(r, "handler") /\ request[r].id # {}
    /\ request' = [request EXCEPT ![r].at = "return", ![r].rec.user = NoUser]
    /\ Handled(r)

-----------------------------------------------------------------------------
(* dispatch, after the handler: what the handler left in the record decides *)
(* between ending the session, starting one under a new id, and refreshing  *)
(* the one there is.                                                        *)

BecameUnauthenticated(r) == request[r].was # NoUser /\ request[r].rec.user = NoUser
BecameAuthenticated(r) == request[r].was = NoUser /\ request[r].rec.user # NoUser

\* Mutant: activity moves the start of the absolute timeout.
AnchorSlides(r) == now

\* _absolute_anchor once the handler is done: a login starts the clock anew.
Anchor(r) == IF BecameAuthenticated(r) THEN now ELSE request[r].rec.anchor

\* Mutant: no lower bound once the absolute timeout is used up.
TtlZero(anchor) ==
    IF now - anchor >= AbsoluteTimeout THEN 0
    ELSE Min2(IdleTimeout, AbsoluteTimeout - (now - anchor))

\* min(idle, what is left of the absolute timeout), at least one.
Ttl(anchor) ==
    IF now - anchor >= AbsoluteTimeout THEN 1
    ELSE Min2(IdleTimeout, AbsoluteTimeout - (now - anchor))

HandlerReturns(r) ==
    LET u == request[r].rec.user IN
    /\ At(r, "return")
    /\ request' = [request EXCEPT ![r].rec.anchor = Anchor(r), ![r].ttl = Ttl(Anchor(r)),
                     ![r].at = IF BecameUnauthenticated(r)
                                  \/ (BecameAuthenticated(r) /\ request[r].id # {})
                               THEN "delete" ELSE "save"]
    /\ logins' = IF u # NoUser /\ u # request[r].was
                 THEN [logins EXCEPT ![u] = @ \cup {now}] ELSE logins
    /\ UNCHANGED <<now, stores, drawn, revoking, anonymous, ended, loggedOut, registered>>

\* Ids another request or the script is not using count as ended.
EndedBy(r, i) ==
    IF \E q \in Requests \ {r} : Holds(q, i) THEN ended ELSE ended \cup {i}

\* store.delete: of an expired or logged out session, or of the id a login
\* leaves behind.
DeletesRecord(r) ==
    \E i \in request[r].id :
        /\ At(r, "delete")
        /\ session' = [session EXCEPT ![i] = NoRecord]
        /\ ended' = EndedBy(r, i)
        /\ loggedOut' = IF BecameUnauthenticated(r) /\ request[r].goal = "page"
                        THEN loggedOut \cup {i} ELSE loggedOut
        /\ Goto(r, IF BecameAuthenticated(r) THEN "save" ELSE "unregister")
        /\ UNCHANGED <<now, index, drawn, revoking, logins, anonymous, registered>>

\* store.unregister_for_user
Unregisters(r) ==
    \E i \in request[r].id :
        /\ At(r, "unregister")
        /\ index' = IF request[r].was = NoUser THEN index
                    ELSE [index EXCEPT ![request[r].was].ids = index[request[r].was].ids \ {i}]
        /\ request' = [request EXCEPT ![r] =
                         IF request[r].goal # "expire" THEN Resting
                         ELSE [@ EXCEPT !.at = "handler", !.id = {}, !.was = NoUser,
                                        !.goal = "page"]]
        /\ UNCHANGED <<now, session, drawn, revoking, history>>

\* Mutant: a login keeps the id the browser already has.
SaveIdsKept(r) == IF request[r].id = {} THEN Ids \ drawn ELSE request[r].id

\* The id the record is saved under: a login draws a new one, and so does a
\* request that had none.
SaveIds(r) ==
    IF request[r].id = {} \/ BecameAuthenticated(r) THEN Ids \ drawn ELSE request[r].id

\* store.save: unconditional, so it also brings back a record that was deleted
\* while the handler ran.
SavesRecord(r, i) ==
    LET rec == [request[r].rec EXCEPT !.until = now + request[r].ttl] IN
    /\ At(r, "save") /\ i \in SaveIds(r)
    /\ session' = [session EXCEPT ![i] = rec]
    /\ drawn' = drawn \cup {i}
    /\ anonymous' = IF rec.user = NoUser THEN anonymous \cup {i} ELSE anonymous
    /\ request' = [request EXCEPT ![r] =
                     IF rec.user = NoUser THEN Resting
                     ELSE [@ EXCEPT !.at = "register", !.id = {i}, !.rec = rec]]
    /\ UNCHANGED <<now, index, revoking, logins, ended, loggedOut, registered>>

\* store.register_for_user: SADD and EXPIRE in one transaction; the TTL of the
\* whole index becomes that of this session.
Registers(r) ==
    \E i \in request[r].id :
        LET u == request[r].rec.user IN
        /\ At(r, "register")
        /\ index' = [index EXCEPT ![u] = [ids |-> index[u].ids \cup {i},
                                          until |-> now + request[r].ttl]]
        /\ registered' = registered \cup {i}
        /\ request' = [request EXCEPT ![r] = Resting]
        /\ UNCHANGED <<now, session, drawn, revoking, logins, anonymous, ended, loggedOut>>

\* SessionStoreUnavailableError: 503 while the cookie is resolved; while an
\* expired session is cleaned up it is logged and the handler runs; afterwards
\* it is logged and the response goes out as it is.
StoreUnavailable(r) ==
    /\ request[r].at \in {"delete", "unregister", "save", "register"}
    /\ request' = [request EXCEPT ![r] =
                     IF request[r].goal # "expire" THEN Resting
                     ELSE [@ EXCEPT !.at = "handler", !.id = {}, !.was = NoUser,
                                    !.goal = "page"]]
    /\ UNCHANGED <<now, stores, drawn, revoking, history>>

-----------------------------------------------------------------------------
(* scripts/revoke_user_sessions.py through revoke_all_for_user: SMEMBERS,   *)
(* one DEL per member, then DEL of the index.                               *)

NoRevocation == [on |-> FALSE, user |-> NoUser, ids |-> {}]

RevokeReads(u) ==
    /\ ~revoking.on
    /\ revoking' = [on |-> TRUE, user |-> u, ids |-> index[u].ids]
    /\ UNCHANGED <<now, stores, request, drawn, history>>

RevokeDeletes(i) ==
    /\ i \in revoking.ids
    /\ session' = [session EXCEPT ![i] = NoRecord]
    /\ ended' = IF \E q \in Requests : Holds(q, i) THEN ended ELSE ended \cup {i}
    /\ revoking' = [revoking EXCEPT !.ids = @ \ {i}]
    /\ UNCHANGED <<now, index, request, drawn, logins, anonymous, loggedOut, registered>>

RevokeClears ==
    /\ revoking.on /\ revoking.ids = {}
    /\ index' = [index EXCEPT ![revoking.user] = EmptyIndex]
    /\ revoking' = NoRevocation
    /\ UNCHANGED <<now, session, request, drawn, history>>

\* The store fails, or the operator stops the script.
RevokeStops ==
    /\ revoking.on
    /\ revoking' = NoRevocation
    /\ UNCHANGED <<now, stores, request, drawn, history>>

\* Time passes; Redis drops the keys whose TTL has run out.
Tick ==
    /\ now < MaxTime
    /\ now' = now + 1
    /\ session' = [i \in Ids |-> IF session[i].until > now' THEN session[i] ELSE NoRecord]
    /\ index' = [u \in Users |-> IF index[u].until > now' THEN index[u] ELSE EmptyIndex]
    /\ UNCHANGED <<request, drawn, revoking, history>>

-----------------------------------------------------------------------------
SessionInit ==
    /\ now = 0
    /\ session = [i \in Ids |-> NoRecord]
    /\ index = [u \in Users |-> EmptyIndex]
    /\ request = [r \in Requests |-> Resting]
    /\ drawn = {} /\ revoking = NoRevocation
    /\ logins = [u \in Users |-> {}] /\ anonymous = {} /\ ended = {}
    /\ loggedOut = {} /\ registered = {}

MiddlewareStep(r) ==
    \/ ArrivesAnonymous(r, {})
    \/ \E i \in drawn : \/ ArrivesAnonymous(r, {i})
                        \/ ArrivesWithSession(r, i)
                        \/ ArrivesExpired(r, i)
    \/ PageHandled(r) \/ LogoutHandled(r) \/ \E u \in Users : LoginHandled(r, u)
    \/ HandlerReturns(r) \/ DeletesRecord(r) \/ Unregisters(r)
    \/ \E i \in Ids : SavesRecord(r, i)
    \/ Registers(r) \/ StoreUnavailable(r)

RevokeStep ==
    \/ \E u \in Users : RevokeReads(u)
    \/ \E i \in Ids : RevokeDeletes(i)
    \/ RevokeClears \/ RevokeStops

Stages == {"idle", "handler", "return", "delete", "unregister", "save", "register"}

SessionTypeOK ==
    /\ now \in Times
    /\ session \in [Ids -> Records]
    /\ index \in [Users -> [ids : SUBSET Ids, until : Instants]]
    /\ request \in [Requests -> [at : Stages, id : SUBSET Ids, was : Users \cup {NoUser},
                       rec : Records, goal : {"page", "expire"},
                       ttl : 1..AbsoluteTimeout]]
    /\ drawn \subseteq Ids
    /\ revoking \in [on : BOOLEAN, user : Users \cup {NoUser}, ids : SUBSET Ids]
    /\ logins \in [Users -> SUBSET Times]
    /\ anonymous \subseteq Ids /\ ended \subseteq Ids
    /\ loggedOut \subseteq Ids /\ registered \subseteq Ids

SessionNext ==
    \/ \E r \in Requests : MiddlewareStep(r)
    \/ RevokeStep
    \/ Tick

SessionSpec == SessionInit /\ [][SessionNext]_sessionVars

-----------------------------------------------------------------------------
\* A request that runs as a user arrived within the absolute timeout of a
\* login of that user, however often the session was refreshed, brought
\* back by a slow request, or taken over by another login in between.
AuthenticatedRecently ==
    \A r \in Requests :
        LET q == request[r] IN
        q.at = "handler" /\ q.was # NoUser =>
            \E t \in logins[q.was] : t <= q.rec.last /\ q.rec.last - t <= AbsoluteTimeout

\* A session id that has ever carried a session without user never carries one
\* with a user: the id from before a login is worthless after it.
FreshIdAtLogin ==
    \A i \in Ids : session[i].user # NoUser => i \notin anonymous

\* A session that was logged out, expired or revoked while no other request
\* held it stays gone: neither a later request with its cookie nor a login
\* brings the id back.  That a request already past the lookup can bring one
\* back is what LoggedOutStaysOut shows.
EndedStaysEnded == \A i \in ended : ~session[i].live

\* README.md: "A cookie copied before logout stops working immediately after
\* logout, because the server-side record it points to is gone."
LoggedOutStaysOut == \A i \in loggedOut : ~session[i].live

\* scripts/revoke_user_sessions.py: "immediately revoke every active session for
\* one existing user".  The script deletes what the index names, so a session
\* that has been registered, still has its record and is in no request's hands
\* must be in the index of its user.
ActiveIsRevocable ==
    \A i \in registered :
        /\ session[i].user # NoUser
        /\ \A r \in Requests : ~Holds(r, i)
        => i \in index[session[i].user].ids
=============================================================================
