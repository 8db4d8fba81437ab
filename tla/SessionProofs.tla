--------------------------- MODULE SessionProofs ---------------------------
(***************************************************************************)
(* Proofs about Sessions, for any identifiers, users, requests and          *)
(* timeouts.                                                                *)
(***************************************************************************)
EXTENDS Sessions, Integers, TLAPS

Carrier == [at : Stages, id : SUBSET Ids, was : Users \cup {NoUser}, rec : Records,
            goal : {"page", "expire"}, ttl : 1..AbsoluteTimeout]

\* The records there are to start from.
LEMMA RecordTypes ==
    /\ NoRecord \in Records /\ ~NoRecord.live /\ NoRecord.user = NoUser
    /\ NoRecord.anchor = 0 /\ NoRecord.last = 0 /\ NoRecord.until = 0
    /\ now \in Times => /\ Fresh \in Records /\ Fresh.live /\ Fresh.user = NoUser
                        /\ Fresh.anchor = now /\ Fresh.last = now
    /\ Resting \in Carrier /\ Resting.at = "idle" /\ Resting.id = {} /\ Resting.rec = NoRecord
<1>1. /\ NoRecord \in Records /\ ~NoRecord.live /\ NoRecord.user = NoUser
      /\ NoRecord.anchor = 0 /\ NoRecord.last = 0 /\ NoRecord.until = 0
  BY SessionAssumption DEF NoRecord, Records, Times, Instants
<1>2. ASSUME now \in Times
      PROVE  /\ Fresh \in Records /\ Fresh.live /\ Fresh.user = NoUser
             /\ Fresh.anchor = now /\ Fresh.last = now
  BY <1>1, <1>2 DEF Fresh, Records
<1>3. 1 \in 1..AbsoluteTimeout
  BY SessionAssumption
<1>4. Resting \in Carrier /\ Resting.at = "idle" /\ Resting.id = {} /\ Resting.rec = NoRecord
  BY <1>1, <1>3 DEF Resting, Carrier, Stages
<1>5. QED
  BY <1>1, <1>2, <1>4

\* The TTL is positive and no longer than the absolute timeout.
LEMMA TtlTypes ==
    ASSUME now \in Times, NEW anchor \in Times
    PROVE  Ttl(anchor) \in 1..AbsoluteTimeout
BY SessionAssumption DEF Ttl, Min2, Times

\* The time of an end of life, and what Redis keeps until then.
LEMMA UntilTypes ==
    ASSUME now \in Times, NEW ttl \in 1..AbsoluteTimeout
    PROVE  now + ttl \in Instants
BY SessionAssumption DEF Times, Instants

\* What the next step of r is, as a record.
Becomes(r, x) == request' = [request EXCEPT ![r] = x]

\* A step of r is no step of another request.
LEMMA BecomesOthers ==
    ASSUME SessionTypeOK, NEW r \in Requests, NEW x \in Carrier, Becomes(r, x)
    PROVE  /\ request' \in [Requests -> Carrier]
           /\ request'[r] = x /\ \A q \in Requests \ {r} : request'[q] = request[q]
BY DEF SessionTypeOK, Becomes, Carrier

\* The steps of a request as a record: arrivals.
LEMMA ArrivalWrites ==
    ASSUME SessionTypeOK, NEW r \in Requests, NEW i \in Ids,
           ArrivesAnonymous(r, {}) \/ ArrivesAnonymous(r, {i}) \/ ArrivesWithSession(r, i)
              \/ ArrivesExpired(r, i)
    PROVE  \E x \in Carrier :
            /\ Becomes(r, x) /\ x.rec.last = now
            /\ \/ /\ x.at = "handler" /\ x.id = {} /\ x.was = NoUser /\ x.goal = "page"
                  /\ x.rec = Fresh
               \/ /\ x.at = "handler" /\ x.id = {i} /\ x.was = session[i].user /\ x.goal = "page"
                  /\ session[i].live /\ ~AbsoluteExpired(session[i])
                  /\ x.rec.live /\ x.rec.user = session[i].user
                  /\ x.rec.anchor = session[i].anchor
               \/ /\ x.at = "delete" /\ x.id = {i} /\ x.was = session[i].user /\ x.goal = "expire"
                  /\ session[i].live /\ x.rec = Fresh
<1> USE RecordTypes
<1>0. now \in Times /\ session[i] \in Records
  BY DEF SessionTypeOK
<1>1. CASE ArrivesAnonymous(r, {}) \/ ArrivesAnonymous(r, {i})
  <2> DEFINE x == [Resting EXCEPT !.at = "handler", !.rec = Fresh]
  <2>1. /\ x \in Carrier /\ x.at = "handler" /\ x.id = {} /\ x.was = NoUser /\ x.goal = "page"
        /\ x.rec = Fresh
    BY <1>0 DEF Resting, Carrier, Stages
  <2>2. Becomes(r, x)
    BY <1>1 DEF ArrivesAnonymous, Becomes
  <2>3. QED
    BY <1>0, <2>1, <2>2
<1>2. CASE ArrivesWithSession(r, i)
  <2> DEFINE rec == [session[i] EXCEPT !.last = now, !.until = 0]
             x == [Resting EXCEPT !.at = "handler", !.id = {i}, !.was = session[i].user, !.rec = rec]
  <2>1. /\ rec \in Records /\ rec.last = now /\ rec.live = session[i].live
        /\ rec.user = session[i].user /\ rec.anchor = session[i].anchor
    BY <1>0, SessionAssumption DEF Records, Times, Instants
  <2>2. /\ x \in Carrier /\ x.at = "handler" /\ x.id = {i} /\ x.was = session[i].user
        /\ x.goal = "page" /\ x.rec = rec
    BY <1>0, <2>1 DEF Resting, Carrier, Stages, Records
  <2>3. Becomes(r, x) /\ session[i].live /\ ~AbsoluteExpired(session[i])
    BY <1>2 DEF ArrivesWithSession, Becomes
  <2>4. QED
    BY <2>1, <2>2, <2>3
<1>3. CASE ArrivesExpired(r, i)
  <2> DEFINE x == [Resting EXCEPT !.at = "delete", !.id = {i}, !.was = session[i].user,
                                  !.rec = Fresh, !.goal = "expire"]
  <2>1. /\ x \in Carrier /\ x.at = "delete" /\ x.id = {i} /\ x.was = session[i].user
        /\ x.goal = "expire" /\ x.rec = Fresh
    BY <1>0 DEF Resting, Carrier, Stages, Records
  <2>2. Becomes(r, x) /\ session[i].live
    BY <1>3 DEF ArrivesExpired, Becomes
  <2>3. QED
    BY <1>0, <2>1, <2>2
<1>4. QED
  BY <1>1, <1>2, <1>3

\* The handlers.
LEMMA HandlerWrites ==
    ASSUME SessionTypeOK, NEW r \in Requests,
           PageHandled(r) \/ LogoutHandled(r) \/ \E u \in Users : LoginHandled(r, u)
    PROVE  \E x \in Carrier :
            /\ Becomes(r, x) /\ request[r].at = "handler"
            /\ x.at = "return" /\ x.id = request[r].id /\ x.was = request[r].was
            /\ x.goal = request[r].goal /\ x.rec.live = request[r].rec.live
            /\ x.rec.anchor = request[r].rec.anchor /\ x.rec.last = request[r].rec.last
<1>0. request[r] \in Carrier /\ request \in [Requests -> Carrier] /\ request[r].rec \in Records
  BY DEF SessionTypeOK, Carrier
<1>1. CASE PageHandled(r)
  <2> DEFINE x == [request[r] EXCEPT !.at = "return"]
  <2>1. x \in Carrier /\ Becomes(r, x)
    BY <1>0, <1>1 DEF PageHandled, Goto, Becomes, Carrier, Stages
  <2>2. QED
    BY <1>0, <1>1, <2>1 DEF PageHandled, At, Carrier
<1>2. ASSUME NEW u \in Users \cup {NoUser}, At(r, "handler"),
             request' = [request EXCEPT ![r].at = "return", ![r].rec.user = u]
      PROVE  \E x \in Carrier :
            /\ Becomes(r, x) /\ request[r].at = "handler"
            /\ x.at = "return" /\ x.id = request[r].id /\ x.was = request[r].was
            /\ x.goal = request[r].goal /\ x.rec.live = request[r].rec.live
            /\ x.rec.anchor = request[r].rec.anchor /\ x.rec.last = request[r].rec.last
  <2> DEFINE rec == [request[r].rec EXCEPT !.user = u]
             x == [request[r] EXCEPT !.at = "return", !.rec = rec]
  <2>1. /\ rec \in Records /\ rec.live = request[r].rec.live
        /\ rec.anchor = request[r].rec.anchor /\ rec.last = request[r].rec.last
    BY <1>0 DEF Records
  <2>2. /\ x \in Carrier /\ x.at = "return" /\ x.id = request[r].id /\ x.was = request[r].was
        /\ x.goal = request[r].goal /\ x.rec = rec
    BY <1>0, <2>1 DEF Carrier, Stages
  <2>3. Becomes(r, x)
    BY <1>0, <1>2 DEF Becomes, Carrier
  <2>4. QED
    BY <1>2, <2>1, <2>2, <2>3 DEF At
<1>3. QED
  BY <1>1, <1>2 DEF LogoutHandled, LoginHandled

\* What the middleware decides once the handler is done.
LEMMA ReturnWrites ==
    ASSUME SessionTypeOK, NEW r \in Requests, HandlerReturns(r)
    PROVE  \E x \in Carrier :
            /\ Becomes(r, x) /\ request[r].at = "return"
            /\ x.id = request[r].id /\ x.was = request[r].was /\ x.goal = request[r].goal
            /\ x.rec.live = request[r].rec.live /\ x.rec.last = request[r].rec.last
            /\ x.rec.user = request[r].rec.user
            /\ x.rec.anchor = Anchor(r)
            /\ x.at \in {"delete", "save"}
            /\ x.at = "save" => ~BecameUnauthenticated(r)
<1>0. request[r] \in Carrier /\ request \in [Requests -> Carrier] /\ request[r].rec \in Records
      /\ now \in Times
  BY DEF SessionTypeOK, Carrier
<1>1. Anchor(r) \in Times
  BY <1>0 DEF Anchor, Records, Times
<1>2. Ttl(Anchor(r)) \in 1..AbsoluteTimeout
  BY <1>0, <1>1, TtlTypes
<1> DEFINE rec == [request[r].rec EXCEPT !.anchor = Anchor(r)]
           at == IF BecameUnauthenticated(r) \/ (BecameAuthenticated(r) /\ request[r].id # {})
                 THEN "delete" ELSE "save"
           x == [request[r] EXCEPT !.at = at, !.rec = rec, !.ttl = Ttl(Anchor(r))]
<1>3. /\ rec \in Records /\ rec.live = request[r].rec.live /\ rec.last = request[r].rec.last
      /\ rec.user = request[r].rec.user /\ rec.anchor = Anchor(r)
  BY <1>0, <1>1 DEF Records
<1>4. /\ x \in Carrier /\ x.at = at /\ x.id = request[r].id /\ x.was = request[r].was
      /\ x.goal = request[r].goal /\ x.rec = rec
  BY <1>0, <1>2, <1>3 DEF Carrier, Stages
<1>5. Becomes(r, x)
  BY <1>0 DEF HandlerReturns, Becomes, Carrier
<1>6. request[r].at = "return"
  BY DEF HandlerReturns, At
<1>7. at \in {"delete", "save"} /\ (at = "save" => ~BecameUnauthenticated(r))
  OBVIOUS
<1> HIDE DEF x, rec, at
<1>8. QED
  BY <1>3, <1>4, <1>5, <1>6, <1>7

\* A request that ends, or goes on to its handler after an expired session.
LEMMA EndWrites ==
    ASSUME SessionTypeOK, NEW r \in Requests, Unregisters(r) \/ StoreUnavailable(r)
    PROVE  \E x \in Carrier :
            /\ Becomes(r, x) /\ request[r].at \in {"delete", "unregister", "save", "register"}
            /\ \/ x = Resting
               \/ /\ request[r].goal = "expire"
                  /\ x.at = "handler" /\ x.id = {} /\ x.was = NoUser /\ x.goal = "page"
                  /\ x.rec = request[r].rec
<1>0. request[r] \in Carrier /\ request \in [Requests -> Carrier]
  BY DEF SessionTypeOK, Carrier
<1> DEFINE y == [request[r] EXCEPT !.at = "handler", !.id = {}, !.was = NoUser, !.goal = "page"]
<1>1. /\ y \in Carrier /\ y.at = "handler" /\ y.id = {} /\ y.was = NoUser /\ y.goal = "page"
      /\ y.rec = request[r].rec
  BY <1>0 DEF Carrier, Stages
<1>2. Becomes(r, IF request[r].goal # "expire" THEN Resting ELSE y)
  BY <1>0 DEF Unregisters, StoreUnavailable, Becomes
<1>3. request[r].at \in {"delete", "unregister", "save", "register"}
  BY DEF Unregisters, StoreUnavailable, At
<1> HIDE DEF y
<1>4. QED
  BY <1>1, <1>2, <1>3, RecordTypes

\* A deletion of a record.
LEMMA DeleteWrites ==
    ASSUME SessionTypeOK, NEW r \in Requests, DeletesRecord(r)
    PROVE  /\ request[r].at = "delete"
           /\ \E x \in Carrier :
                /\ Becomes(r, x)
                /\ x.at = IF BecameAuthenticated(r) THEN "save" ELSE "unregister"
                /\ x.id = request[r].id /\ x.was = request[r].was /\ x.goal = request[r].goal
                /\ x.rec = request[r].rec
           /\ \E i \in Ids \cap request[r].id :
                /\ session' = [session EXCEPT ![i] = NoRecord]
                /\ ended' = EndedBy(r, i)
<1>0. request[r] \in Carrier /\ request \in [Requests -> Carrier] /\ request[r].id \subseteq Ids
  BY DEF SessionTypeOK, Carrier
<1> DEFINE at == IF BecameAuthenticated(r) THEN "save" ELSE "unregister"
           x == [request[r] EXCEPT !.at = at]
<1>1. /\ x \in Carrier /\ x.at = at /\ x.id = request[r].id /\ x.was = request[r].was
      /\ x.goal = request[r].goal /\ x.rec = request[r].rec
  BY <1>0 DEF Carrier, Stages
<1>2. Becomes(r, x)
  BY <1>0 DEF DeletesRecord, Goto, Becomes
<1>3. request[r].at = "delete" /\ \E i \in Ids \cap request[r].id :
                /\ session' = [session EXCEPT ![i] = NoRecord]
                /\ ended' = EndedBy(r, i)
  BY <1>0 DEF DeletesRecord, At
<1> HIDE DEF x
<1>4. QED
  BY <1>1, <1>2, <1>3

\* A record that is saved.
LEMMA SaveWrites ==
    ASSUME SessionTypeOK, NEW r \in Requests, NEW i \in Ids, SavesRecord(r, i)
    PROVE  \E rec \in Records, x \in Carrier :
            /\ request[r].at = "save" /\ i \in SaveIds(r)
            /\ rec.live = request[r].rec.live /\ rec.user = request[r].rec.user
            /\ rec.anchor = request[r].rec.anchor /\ rec.last = request[r].rec.last
            /\ session' = [session EXCEPT ![i] = rec]
            /\ anonymous' = IF rec.user = NoUser THEN anonymous \cup {i} ELSE anonymous
            /\ Becomes(r, x)
            /\ \/ rec.user = NoUser /\ x = Resting
               \/ /\ rec.user # NoUser /\ x.at = "register" /\ x.id = {i} /\ x.rec = rec
                  /\ x.was = request[r].was /\ x.goal = request[r].goal
<1>0. /\ request[r] \in Carrier /\ request \in [Requests -> Carrier] /\ now \in Times
      /\ request[r].rec \in Records /\ request[r].ttl \in 1..AbsoluteTimeout
  BY DEF SessionTypeOK, Carrier
<1> DEFINE rec == [request[r].rec EXCEPT !.until = now + request[r].ttl]
           y == [request[r] EXCEPT !.at = "register", !.id = {i}, !.rec = rec]
           x == IF rec.user = NoUser THEN Resting ELSE y
<1>1. /\ rec \in Records /\ rec.live = request[r].rec.live /\ rec.user = request[r].rec.user
      /\ rec.anchor = request[r].rec.anchor /\ rec.last = request[r].rec.last
  BY <1>0, UntilTypes DEF Records
<1>2. /\ y \in Carrier /\ y.at = "register" /\ y.id = {i} /\ y.rec = rec
      /\ y.was = request[r].was /\ y.goal = request[r].goal
  BY <1>0, <1>1 DEF Carrier, Stages
<1>3. Becomes(r, x)
  BY <1>0 DEF SavesRecord, Becomes
<1>4. /\ request[r].at = "save" /\ i \in SaveIds(r)
      /\ session' = [session EXCEPT ![i] = rec]
      /\ anonymous' = IF rec.user = NoUser THEN anonymous \cup {i} ELSE anonymous
  BY DEF SavesRecord, At
<1> HIDE DEF rec, y
<1>5. QED
  BY <1>1, <1>2, <1>3, <1>4, RecordTypes

-----------------------------------------------------------------------------
\* The sessions begin well typed.
LEMMA TypesInit == SessionInit => SessionTypeOK
<1>1. EmptyIndex \in [ids : SUBSET Ids, until : Instants] /\ 0 \in Times
  BY SessionAssumption DEF EmptyIndex, Instants, Times
<1>2. QED
  BY <1>1, RecordTypes DEF SessionInit, SessionTypeOK, Carrier, NoRevocation

\* Every step keeps the types.
LEMMA TypesStep == SessionTypeOK /\ [SessionNext]_sessionVars => SessionTypeOK'
<1> SUFFICES ASSUME SessionTypeOK, [SessionNext]_sessionVars PROVE SessionTypeOK'
  OBVIOUS
<1> USE DEF stores, history
<1>a. /\ now \in Times /\ session \in [Ids -> Records]
      /\ index \in [Users -> [ids : SUBSET Ids, until : Instants]]
      /\ request \in [Requests -> Carrier]
      /\ drawn \subseteq Ids
      /\ revoking \in [on : BOOLEAN, user : Users \cup {NoUser}, ids : SUBSET Ids]
      /\ logins \in [Users -> SUBSET Times] /\ anonymous \subseteq Ids /\ ended \subseteq Ids
      /\ loggedOut \subseteq Ids /\ registered \subseteq Ids
  BY DEF SessionTypeOK, Carrier
<1>b. EmptyIndex \in [ids : SUBSET Ids, until : Instants]
  BY SessionAssumption DEF EmptyIndex, Instants
<1>1. ASSUME NEW r \in Requests, MiddlewareStep(r) PROVE SessionTypeOK'
  <2>0. request[r] \in Carrier
    BY <1>a
  <2>1. ASSUME NEW x \in Carrier, Becomes(r, x),
               UNCHANGED <<now, drawn, revoking, index, anonymous, registered>>,
               session' \in [Ids -> Records], logins' \in [Users -> SUBSET Times],
               ended' \subseteq Ids, loggedOut' \subseteq Ids
        PROVE  SessionTypeOK'
    BY <1>a, <2>1, BecomesOthers DEF SessionTypeOK, Carrier
  <2>2. CASE \/ ArrivesAnonymous(r, {})
             \/ \E i \in drawn : \/ ArrivesAnonymous(r, {i}) \/ ArrivesWithSession(r, i)
                                 \/ ArrivesExpired(r, i)
    <3>1. UNCHANGED <<now, stores, drawn, revoking, history>>
      BY <2>2 DEF ArrivesAnonymous, ArrivesWithSession, ArrivesExpired
    <3>2. CASE ArrivesAnonymous(r, {})
      <4> DEFINE x == [Resting EXCEPT !.at = "handler", !.rec = Fresh]
      <4>1. x \in Carrier
        BY <1>a, RecordTypes DEF Carrier, Stages, Resting
      <4>2. Becomes(r, x)
        BY <3>2 DEF ArrivesAnonymous, Becomes
      <4>3. QED
        BY <1>a, <2>1, <3>1, <4>1, <4>2
    <3>3. CASE \E i \in drawn : \/ ArrivesAnonymous(r, {i}) \/ ArrivesWithSession(r, i)
                                \/ ArrivesExpired(r, i)
      <4>1. \E x \in Carrier : Becomes(r, x)
        BY <1>a, <3>3, ArrivalWrites
      <4>2. QED
        BY <1>a, <2>1, <3>1, <4>1
    <3>4. QED
      BY <2>2, <3>2, <3>3
  <2>3. CASE PageHandled(r) \/ LogoutHandled(r) \/ \E u \in Users : LoginHandled(r, u)
    <3>1. UNCHANGED <<now, stores, drawn, revoking, history>>
      BY <2>3 DEF PageHandled, LogoutHandled, LoginHandled, Handled
    <3>2. \E x \in Carrier : Becomes(r, x)
      BY <2>3, HandlerWrites
    <3>3. QED
      BY <1>a, <2>1, <3>1, <3>2
  <2>4. CASE HandlerReturns(r)
    <3>1. \E x \in Carrier : Becomes(r, x)
      BY <2>4, ReturnWrites
    <3>2. logins' \in [Users -> SUBSET Times]
      BY <1>a, <2>4 DEF HandlerReturns
    <3>3. UNCHANGED <<now, stores, drawn, revoking, anonymous, ended, loggedOut, registered>>
      BY <2>4 DEF HandlerReturns
    <3>4. QED
      BY <1>a, <2>1, <3>1, <3>2, <3>3
  <2>5. CASE DeletesRecord(r)
    <3>1. /\ UNCHANGED <<now, index, drawn, revoking, logins, anonymous, registered>>
          /\ loggedOut' \subseteq Ids
      BY <1>a, <2>0, <2>5 DEF DeletesRecord, Carrier
    <3>2. session' \in [Ids -> Records] /\ ended' \subseteq Ids
      BY <1>a, <2>5, DeleteWrites, RecordTypes DEF EndedBy
    <3>3. \E x \in Carrier : Becomes(r, x)
      BY <2>5, DeleteWrites
    <3>4. QED
      BY <1>a, <2>1, <3>1, <3>2, <3>3
  <2>6. CASE Unregisters(r)
    <3>1. \E x \in Carrier : Becomes(r, x)
      BY <2>6, EndWrites
    <3>2. request' \in [Requests -> Carrier]
      BY <3>1, BecomesOthers
    <3>3. index' \in [Users -> [ids : SUBSET Ids, until : Instants]]
      BY <1>a, <2>0, <2>6 DEF Unregisters, Carrier
    <3>4. UNCHANGED <<now, session, drawn, revoking, history>>
      BY <2>6 DEF Unregisters
    <3>5. QED
      BY <1>a, <3>2, <3>3, <3>4 DEF SessionTypeOK, Carrier
  <2>7. CASE \E i \in Ids : SavesRecord(r, i)
    <3>1. PICK i \in Ids : SavesRecord(r, i)
      BY <2>7
    <3>2. PICK rec \in Records, x \in Carrier :
            /\ session' = [session EXCEPT ![i] = rec]
            /\ anonymous' = IF rec.user = NoUser THEN anonymous \cup {i} ELSE anonymous
            /\ Becomes(r, x)
      BY <3>1, SaveWrites
    <3>3. drawn' = drawn \cup {i} /\ UNCHANGED <<now, index, revoking, logins, ended, loggedOut, registered>>
      BY <3>1 DEF SavesRecord
    <3>4. request' \in [Requests -> Carrier] /\ session' \in [Ids -> Records]
      BY <1>a, <3>2, BecomesOthers
    <3>5. QED
      BY <1>a, <3>2, <3>3, <3>4 DEF SessionTypeOK, Carrier
  <2>8. CASE Registers(r)
    <3>1. request' \in [Requests -> Carrier]
      BY <2>8, BecomesOthers, RecordTypes DEF Registers, Becomes
    <3>2. /\ UNCHANGED <<now, session, drawn, revoking, logins, anonymous, ended, loggedOut>>
          /\ registered' \subseteq Ids
      BY <1>a, <2>0, <2>8 DEF Registers, Carrier
    <3>3. now + request[r].ttl \in Instants
      BY <1>a, <2>0, UntilTypes DEF Carrier
    <3>4. index' \in [Users -> [ids : SUBSET Ids, until : Instants]]
      <4>1. PICK i \in request[r].id :
                index' = [index EXCEPT ![request[r].rec.user] =
                            [ids |-> index[request[r].rec.user].ids \cup {i},
                             until |-> now + request[r].ttl]]
        BY <2>8 DEF Registers
      <4>2. i \in Ids
        BY <2>0 DEF Carrier
      <4>3. CASE request[r].rec.user \in Users
        BY <1>a, <3>3, <4>1, <4>2, <4>3
      <4>4. CASE request[r].rec.user \notin Users
        BY <1>a, <4>1, <4>4
      <4>5. QED
        BY <4>3, <4>4
    <3>5. QED
      BY <1>a, <3>1, <3>2, <3>4 DEF SessionTypeOK, Carrier
  <2>9. CASE StoreUnavailable(r)
    <3>1. UNCHANGED <<now, stores, drawn, revoking, history>>
      BY <2>9 DEF StoreUnavailable
    <3>2. \E x \in Carrier : Becomes(r, x)
      BY <2>9, EndWrites
    <3>3. QED
      BY <1>a, <2>1, <3>1, <3>2
  <2>10. QED
    BY <1>1, <2>2, <2>3, <2>4, <2>5, <2>6, <2>7, <2>8, <2>9 DEF MiddlewareStep
<1>2. CASE RevokeStep
  <2>1. CASE \E u \in Users : RevokeReads(u)
    BY <1>a, <2>1 DEF RevokeReads, SessionTypeOK
  <2>2. CASE \E i \in Ids : RevokeDeletes(i)
    <3>1. session' \in [Ids -> Records]
      BY <1>a, <2>2, RecordTypes DEF RevokeDeletes
    <3>2. QED
      BY <1>a, <2>2, <3>1 DEF RevokeDeletes, SessionTypeOK
  <2>3. CASE RevokeClears \/ RevokeStops
    <3>1. NoRevocation \in [on : BOOLEAN, user : Users \cup {NoUser}, ids : SUBSET Ids]
      BY DEF NoRevocation
    <3>2. revoking' = NoRevocation /\ UNCHANGED <<now, session, request, drawn, history>>
      BY <2>3 DEF RevokeClears, RevokeStops
    <3>3. index' \in [Users -> [ids : SUBSET Ids, until : Instants]]
      BY <1>a, <1>b, <2>3 DEF RevokeClears, RevokeStops
    <3>4. QED
      BY <1>a, <3>1, <3>2, <3>3 DEF SessionTypeOK, Carrier
  <2>4. QED
    BY <1>2, <2>1, <2>2, <2>3 DEF RevokeStep
<1>3. CASE Tick
  <2>1. now' \in Times
    BY <1>a, <1>3, SessionAssumption DEF Tick, Times
  <2>2. session' \in [Ids -> Records] /\ index' \in [Users -> [ids : SUBSET Ids, until : Instants]]
    BY <1>a, <1>b, <1>3, RecordTypes DEF Tick
  <2>3. QED
    BY <1>a, <1>3, <2>1, <2>2 DEF Tick, SessionTypeOK
<1>4. CASE UNCHANGED sessionVars
  BY <1>4 DEF sessionVars, SessionTypeOK
<1>5. QED
  BY <1>1, <1>2, <1>3, <1>4 DEF SessionNext

\* Records, index, requests and clock have their types in every state.
THEOREM SessionTypesCorrect == SessionSpec => []SessionTypeOK
BY TypesInit, TypesStep, PTL DEF SessionSpec

-----------------------------------------------------------------------------
(* Identifiers                                                              *)

\* What a request carries: a live record; an id that was drawn and that carries
\* a user exactly if the request found one under it (a saved login has a new
\* id, which registering alone uses); and a request saves no logout.
Carries(x) ==
    x.at # "idle" =>
        /\ x.rec.live /\ x.id \subseteq drawn
        /\ x.at # "register" => \A i \in x.id : i \in anonymous <=> x.was = NoUser
        /\ x.at = "save" => x.was = NoUser \/ x.rec.user # NoUser
        /\ x.goal = "expire" => x.at \in {"delete", "unregister"} /\ x.rec.user = NoUser

\* An id that a request leaves behind: it will not save under it.
LeavesBehind(x) ==
    \/ x.at \in {"idle", "unregister"}
    \/ x.at = "save" /\ x.was = NoUser /\ x.rec.user # NoUser

\* Every id the store knows was drawn, and carries either users or none.
StoreInv ==
    /\ anonymous \subseteq drawn /\ ended \subseteq drawn
    /\ revoking.ids \subseteq drawn
    /\ \A u \in Users : index[u].ids \subseteq drawn
    /\ \A i \in Ids : session[i].live =>
            i \in drawn /\ (i \in anonymous <=> session[i].user = NoUser)
    /\ \A i \in Ids : ~session[i].live => session[i].user = NoUser

EndedInv ==
    \A i \in ended :
        /\ ~session[i].live
        /\ \A r \in Requests : i \in request[r].id => LeavesBehind(request[r])

IdInv ==
    /\ StoreInv
    /\ \A r \in Requests : Carries(request[r])
    /\ EndedInv

\* The start of the absolute timeout is never after the login it counts from.
LoggedIn(u, anchor, last) ==
    \E t \in logins[u] : anchor <= t /\ t <= last

Timed(x) ==
    /\ x.rec.last <= now /\ x.rec.anchor <= now
    /\ x.at \in {"handler", "return"} /\ x.was # NoUser =>
            LoggedIn(x.was, x.rec.anchor, x.rec.last)
    /\ x.at \in {"delete", "save", "register"} /\ x.rec.user # NoUser =>
            LoggedIn(x.rec.user, x.rec.anchor, now)
    /\ x.at = "handler" /\ x.was # NoUser => x.rec.last - x.rec.anchor <= AbsoluteTimeout

LoginInv ==
    /\ \A i \in Ids : /\ session[i].anchor <= now
                      /\ session[i].user # NoUser =>
                            LoggedIn(session[i].user, session[i].anchor, now)
    /\ \A r \in Requests : Timed(request[r])

SessionInv == SessionTypeOK /\ IdInv /\ LoginInv

\* Arrivals, handlers, the return of a handler and an unreachable store change
\* the request only.
LEMMA RequestOnly ==
    ASSUME SessionTypeOK, IdInv, NEW r \in Requests, NEW x \in Carrier, Becomes(r, x),
           UNCHANGED <<session, index, drawn, revoking, anonymous, ended>>,
           Carries(x), \A i \in ended : i \in x.id => LeavesBehind(x)
    PROVE  IdInv'
<1>1. request'[r] = x /\ \A q \in Requests \ {r} : request'[q] = request[q]
  BY BecomesOthers
<1>2. StoreInv'
  BY DEF IdInv, StoreInv
<1>3. \A q \in Requests : Carries(request[q])'
  <2>1. Carries(x)'
    BY DEF Carries
  <2>2. \A q \in Requests : Carries(request[q])
    BY DEF IdInv
  <2>3. QED
    BY <1>1, <2>1, <2>2 DEF Carries
<1>4. EndedInv'
  BY <1>1 DEF IdInv, EndedInv, LeavesBehind
<1>5. QED
  BY <1>2, <1>3, <1>4 DEF IdInv

\* Deleting the record of an ended or rotated session keeps the identifiers apart.
LEMMA DeleteKeepsIds ==
    ASSUME SessionTypeOK, IdInv, NEW r \in Requests, DeletesRecord(r)
    PROVE  IdInv'
<1>a. /\ UNCHANGED <<index, drawn, revoking, anonymous>>
      /\ StoreInv /\ EndedInv /\ \A q \in Requests : Carries(request[q])
  BY DEF DeletesRecord, IdInv
<1>b. PICK x \in Carrier :
        /\ Becomes(r, x)
        /\ x.at = IF BecameAuthenticated(r) THEN "save" ELSE "unregister"
        /\ x.id = request[r].id /\ x.was = request[r].was /\ x.goal = request[r].goal
        /\ x.rec = request[r].rec
  BY DeleteWrites
<1>c. PICK i \in Ids \cap request[r].id :
        session' = [session EXCEPT ![i] = NoRecord] /\ ended' = EndedBy(r, i)
  BY DeleteWrites
<1>d. request'[r] = x /\ \A q \in Requests \ {r} : request'[q] = request[q]
  BY <1>b, BecomesOthers
<1>e. request[r].at = "delete"
  BY DeleteWrites
<1>1. session'[i] = NoRecord /\ \A k \in Ids \ {i} : session'[k] = session[k]
  BY <1>c DEF SessionTypeOK
<1>2. ended' \subseteq ended \cup {i} /\ i \in drawn
  BY <1>a, <1>c, <1>e DEF EndedBy, Carries
<1>3. StoreInv'
  BY <1>a, <1>1, <1>2, RecordTypes DEF StoreInv
<1>4. \A q \in Requests : Carries(request[q])'
  <2>1. Carries(x)'
    BY <1>a, <1>b, <1>e DEF Carries, BecameAuthenticated
  <2>2. QED
    BY <1>a, <1>d, <2>1 DEF Carries
<1>5. EndedInv'
  <2>1. LeavesBehind(x)
    BY <1>b DEF LeavesBehind, BecameAuthenticated
  <2>2. ASSUME NEW k \in ended' PROVE ~session'[k].live
    BY <1>a, <1>1, <1>2, RecordTypes DEF EndedInv, StoreInv, SessionTypeOK
  <2>3. ASSUME NEW k \in ended', NEW q \in Requests, k \in request'[q].id
        PROVE  LeavesBehind(request'[q])
    <3>1. CASE q = r
      BY <1>d, <2>1, <3>1
    <3>2. CASE q # r /\ k \in ended
      BY <1>a, <1>d, <2>3, <3>2 DEF EndedInv
    <3>3. CASE q # r /\ k \notin ended
      BY <1>c, <1>d, <1>2, <2>3, <3>3 DEF EndedBy, Holds, LeavesBehind
    <3>4. QED
      BY <3>1, <3>2, <3>3
  <2>4. QED
    BY <2>2, <2>3 DEF EndedInv, LeavesBehind
<1>6. QED
  BY <1>3, <1>4, <1>5 DEF IdInv

\* Unconditional as it is, a save never gives a user an id that went without
\* one, and never brings back a session that ended while nobody held it.
LEMMA SaveKeepsIds ==
    ASSUME SessionTypeOK, IdInv, NEW r \in Requests, NEW i \in Ids, SavesRecord(r, i)
    PROVE  IdInv'
<1>a. /\ drawn' = drawn \cup {i} /\ UNCHANGED <<index, revoking, ended>>
      /\ StoreInv /\ EndedInv /\ \A q \in Requests : Carries(request[q])
  BY DEF SavesRecord, IdInv
<1>b. PICK rec \in Records, x \in Carrier :
        /\ request[r].at = "save" /\ i \in SaveIds(r)
        /\ rec.live = request[r].rec.live /\ rec.user = request[r].rec.user
        /\ session' = [session EXCEPT ![i] = rec]
        /\ anonymous' = IF rec.user = NoUser THEN anonymous \cup {i} ELSE anonymous
        /\ Becomes(r, x)
        /\ \/ rec.user = NoUser /\ x = Resting
           \/ /\ rec.user # NoUser /\ x.at = "register" /\ x.id = {i} /\ x.rec = rec
              /\ x.was = request[r].was /\ x.goal = request[r].goal
  BY SaveWrites
<1>c. request'[r] = x /\ \A q \in Requests \ {r} : request'[q] = request[q]
  BY <1>b, BecomesOthers
<1>d. session'[i] = rec /\ rec.live /\ \A k \in Ids \ {i} : session'[k] = session[k]
  BY <1>a, <1>b DEF SessionTypeOK, Carries
<1>1. /\ i \in drawn => i \in request[r].id /\ ~LeavesBehind(request[r])
      /\ i \in drawn => (i \in anonymous <=> rec.user = NoUser)
  <2>1. ASSUME i \in drawn
        PROVE i \in request[r].id /\ ~BecameAuthenticated(r)
    BY <1>b, <2>1 DEF SaveIds
  <2>2. request[r].was = NoUser \/ request[r].rec.user # NoUser
    BY <1>a, <1>b DEF Carries
  <2>3. ASSUME i \in drawn
        PROVE i \in anonymous <=> request[r].was = NoUser
    BY <1>a, <1>b, <2>1, <2>3 DEF Carries
  <2>4. QED
    BY <1>b, <2>1, <2>2, <2>3 DEF BecameAuthenticated, LeavesBehind
<1>2. /\ i \notin ended /\ anonymous' \subseteq drawn'
      /\ i \in anonymous' <=> rec.user = NoUser
      /\ \A k \in drawn : k \in anonymous' <=> k \in anonymous
  BY <1>a, <1>b, <1>1 DEF EndedInv, StoreInv
<1>3. StoreInv'
  <2>1. \A k \in Ids : session'[k].live =>
            k \in drawn' /\ (k \in anonymous' <=> session'[k].user = NoUser)
    BY <1>a, <1>d, <1>2 DEF StoreInv
  <2>2. \A k \in Ids : ~session'[k].live => session'[k].user = NoUser
    BY <1>a, <1>d DEF StoreInv
  <2>3. QED
    BY <1>a, <1>2, <2>1, <2>2 DEF StoreInv
<1>4. \A q \in Requests : Carries(request[q])'
  <2>1. Carries(x)'
    BY <1>a, <1>b, <1>d, RecordTypes DEF Carries
  <2>2. ASSUME NEW q \in Requests \ {r} PROVE Carries(request[q])'
    <3>1. Carries(request[q]) /\ request'[q] = request[q]
      BY <1>a, <1>c
    <3>2. QED
      BY <1>a, <1>2, <3>1 DEF Carries
  <2>3. QED
    BY <1>c, <2>1, <2>2 DEF Carries
<1>5. EndedInv'
  <2>1. ASSUME NEW k \in ended PROVE ~session'[k].live /\ k \notin x.id
    BY <1>a, <1>b, <1>d, <1>2, RecordTypes DEF EndedInv, SessionTypeOK
  <2>2. QED
    BY <1>a, <1>c, <2>1 DEF EndedInv, LeavesBehind
<1>6. QED
  BY <1>3, <1>4, <1>5 DEF IdInv

\* The index, the revocation and the clock.
LEMMA StoreKeepsIds ==
    ASSUME SessionTypeOK, IdInv,
           UNCHANGED <<request, drawn, anonymous>>,
           \A i \in Ids : session'[i] \in {session[i], NoRecord},
           revoking'.ids \subseteq drawn,
           \A u \in Users : index'[u].ids \subseteq drawn,
           ended' \subseteq drawn,
           \A i \in ended' \ ended : /\ session'[i] = NoRecord
                                     /\ \A q \in Requests : ~Holds(q, i)
    PROVE  IdInv'
<1>1. StoreInv'
  BY RecordTypes DEF IdInv, StoreInv
<1>2. \A q \in Requests : Carries(request[q])'
  BY DEF IdInv, Carries
<1>3. EndedInv'
  <2>1. ASSUME NEW i \in ended' PROVE ~session'[i].live
    BY RecordTypes DEF IdInv, EndedInv, SessionTypeOK
  <2>2. ASSUME NEW i \in ended', NEW q \in Requests, i \in request[q].id
        PROVE  LeavesBehind(request[q])
    BY <2>2 DEF IdInv, EndedInv, Holds, LeavesBehind
  <2>3. QED
    BY <2>1, <2>2 DEF EndedInv, LeavesBehind
<1>4. QED
  BY <1>1, <1>2, <1>3 DEF IdInv

\* So do the writes of the user index.
LEMMA RegisterKeepsIds ==
    ASSUME SessionTypeOK, IdInv, NEW r \in Requests, Unregisters(r) \/ Registers(r)
    PROVE  IdInv'
<1>a. /\ UNCHANGED <<session, drawn, revoking, anonymous, ended>>
      /\ StoreInv /\ EndedInv /\ \A q \in Requests : Carries(request[q])
  BY DEF Unregisters, Registers, history, IdInv
<1>b. PICK x \in Carrier : /\ Becomes(r, x)
                          /\ \/ x = Resting
                             \/ /\ x.at = "handler" /\ x.id = {} /\ x.was = NoUser
                                /\ x.goal = "page" /\ x.rec = request[r].rec
                                /\ request[r].at # "idle"
  BY EndWrites, RecordTypes DEF Registers, Becomes
<1>c. request'[r] = x /\ \A q \in Requests \ {r} : request'[q] = request[q]
  BY <1>b, BecomesOthers
<1>1. \A u \in Users : index'[u].ids \subseteq drawn
  <2>1. \A u \in Users : index[u].ids \subseteq drawn
    BY <1>a DEF StoreInv
  <2>2. CASE Unregisters(r)
    BY <2>1, <2>2 DEF Unregisters, SessionTypeOK
  <2>3. CASE Registers(r)
    <3>1. request[r].id \subseteq drawn
      BY <1>a, <2>3 DEF Registers, At, Carries
    <3>2. PICK i \in request[r].id :
             index' = [index EXCEPT ![request[r].rec.user] =
                          [ids |-> index[request[r].rec.user].ids \cup {i},
                           until |-> now + request[r].ttl]]
      BY <2>3 DEF Registers
    <3>3. index \in [Users -> [ids : SUBSET Ids, until : Instants]]
      BY DEF SessionTypeOK
    <3>4. \A u \in Users : index'[u].ids \subseteq index[u].ids \cup {i}
      BY ONLY <3>2, <3>3
    <3>5. QED
      BY ONLY <2>1, <3>1, <3>4
  <2>4. QED
    BY <2>2, <2>3
<1>2. StoreInv'
  BY <1>a, <1>1 DEF StoreInv
<1>3. \A q \in Requests : Carries(request[q])'
  <2>1. Carries(x)'
    BY <1>a, <1>b, RecordTypes DEF Carries
  <2>2. QED
    BY <1>a, <1>c, <2>1 DEF Carries
<1>4. EndedInv'
  <2>1. x.id = {}
    BY <1>b, RecordTypes
  <2>2. QED
    BY <1>a, <1>c, <2>1 DEF EndedInv, LeavesBehind
<1>5. QED
  BY <1>2, <1>3, <1>4 DEF IdInv

\* Every step keeps what is said of the identifiers.
LEMMA IdStep ==
    ASSUME SessionTypeOK, IdInv, [SessionNext]_sessionVars
    PROVE  IdInv'
<1> USE DEF stores, history
<1>a. StoreInv /\ EndedInv /\ drawn \subseteq Ids /\ \A q \in Requests : Carries(request[q])
  BY DEF IdInv, SessionTypeOK
<1>1. ASSUME NEW r \in Requests, MiddlewareStep(r) PROVE IdInv'
  <2>1. ASSUME NEW i \in drawn,
               ArrivesAnonymous(r, {i}) \/ ArrivesWithSession(r, i) \/ ArrivesExpired(r, i)
        PROVE  IdInv'
    <3>1. i \in Ids
      BY <1>a
    <3>2. UNCHANGED <<session, index, drawn, revoking, anonymous, ended>>
      BY <2>1 DEF ArrivesAnonymous, ArrivesWithSession, ArrivesExpired
    <3>3. PICK x \in Carrier :
            /\ Becomes(r, x)
            /\ \/ /\ x.at = "handler" /\ x.id = {} /\ x.was = NoUser /\ x.goal = "page"
                  /\ x.rec = Fresh
               \/ /\ x.at = "handler" /\ x.id = {i} /\ x.was = session[i].user /\ x.goal = "page"
                  /\ session[i].live /\ x.rec.live
               \/ /\ x.at = "delete" /\ x.id = {i} /\ x.was = session[i].user /\ x.goal = "expire"
                  /\ session[i].live /\ x.rec = Fresh
      BY <2>1, <3>1, ArrivalWrites
    <3>4. Fresh.live /\ Fresh.user = NoUser
      BY RecordTypes DEF SessionTypeOK
    <3>5. Carries(x)
      BY <1>a, <3>3, <3>4 DEF Carries, StoreInv
    <3>6. \A k \in ended : k \notin x.id
      BY <1>a, <3>3 DEF EndedInv
    <3>7. QED
      BY <3>2, <3>3, <3>5, <3>6, RequestOnly
  <2>2. CASE PageHandled(r) \/ LogoutHandled(r) \/ \E u \in Users : LoginHandled(r, u)
    <3>1. UNCHANGED <<session, index, drawn, revoking, anonymous, ended>>
      BY <2>2 DEF PageHandled, LogoutHandled, LoginHandled, Handled
    <3>2. PICK x \in Carrier :
            /\ Becomes(r, x) /\ request[r].at = "handler"
            /\ x.at = "return" /\ x.id = request[r].id /\ x.was = request[r].was
            /\ x.goal = request[r].goal /\ x.rec.live = request[r].rec.live
      BY <2>2, HandlerWrites
    <3>3. Carries(x) /\ \A k \in ended : k \notin x.id
      BY <1>a, <3>2 DEF Carries, EndedInv, LeavesBehind
    <3>4. QED
      BY <3>1, <3>2, <3>3, RequestOnly
  <2>3. CASE HandlerReturns(r)
    <3>1. UNCHANGED <<session, index, drawn, revoking, anonymous, ended>>
      BY <2>3 DEF HandlerReturns
    <3>2. PICK x \in Carrier :
            /\ Becomes(r, x) /\ request[r].at = "return"
            /\ x.id = request[r].id /\ x.was = request[r].was /\ x.goal = request[r].goal
            /\ x.rec.live = request[r].rec.live
            /\ x.rec.user = request[r].rec.user
            /\ x.at \in {"delete", "save"}
            /\ x.at = "save" => ~BecameUnauthenticated(r)
      BY <2>3, ReturnWrites
    <3>3. Carries(x) /\ \A k \in ended : k \notin x.id
      BY <1>a, <3>2 DEF Carries, EndedInv, LeavesBehind, BecameUnauthenticated
    <3>4. QED
      BY <3>1, <3>2, <3>3, RequestOnly
  <2>4. CASE StoreUnavailable(r)
    <3>1. UNCHANGED <<session, index, drawn, revoking, anonymous, ended>>
      BY <2>4 DEF StoreUnavailable
    <3>2. PICK x \in Carrier :
            /\ Becomes(r, x) /\ request[r].at \in {"delete", "unregister", "save", "register"}
            /\ \/ x = Resting
               \/ /\ x.at = "handler" /\ x.id = {} /\ x.was = NoUser /\ x.goal = "page"
                  /\ x.rec = request[r].rec
      BY <2>4, EndWrites
    <3>3. Carries(x) /\ \A k \in ended : k \notin x.id
      BY <1>a, <3>2, RecordTypes DEF Carries
    <3>4. QED
      BY <3>1, <3>2, <3>3, RequestOnly
  <2>5. CASE DeletesRecord(r) \/ Unregisters(r) \/ Registers(r)
              \/ \E i \in Ids : SavesRecord(r, i)
    BY <2>5, DeleteKeepsIds, RegisterKeepsIds, SaveKeepsIds
  <2>6. CASE ArrivesAnonymous(r, {})
    <3> DEFINE x == [Resting EXCEPT !.at = "handler", !.rec = Fresh]
    <3>1. Becomes(r, x) /\ UNCHANGED <<session, index, drawn, revoking, anonymous, ended>>
      BY <2>6 DEF ArrivesAnonymous, Becomes
    <3>2. Fresh \in Records /\ Fresh.live
      BY RecordTypes DEF SessionTypeOK
    <3>3. x \in Carrier /\ x.at = "handler" /\ x.id = {} /\ x.goal = "page" /\ x.rec = Fresh
      BY <3>2, RecordTypes DEF Resting, Carrier, Stages
    <3> HIDE DEF x
    <3>4. PICK y \in Carrier : /\ y = x /\ Becomes(r, y) /\ y.at = "handler" /\ y.id = {}
                              /\ y.goal = "page" /\ y.rec = Fresh
      BY <3>1, <3>3
    <3>5. Carries(y)
      BY <3>2, <3>4 DEF Carries
    <3>6. QED
      BY <3>1, <3>4, <3>5, RequestOnly
  <2>7. QED
    BY <1>1, <2>1, <2>2, <2>3, <2>4, <2>5, <2>6 DEF MiddlewareStep
<1>2. CASE RevokeStep
  <2>1. CASE \E u \in Users : RevokeReads(u)
    BY <1>a, <2>1, StoreKeepsIds DEF RevokeReads, StoreInv
  <2>2. CASE \E i \in Ids : RevokeDeletes(i)
    <3>1. PICK i \in Ids : RevokeDeletes(i)
      BY <2>2
    <3>2. i \in drawn /\ revoking'.ids \subseteq drawn
      BY <1>a, <3>1 DEF RevokeDeletes, StoreInv, SessionTypeOK
    <3>3. session'[i] = NoRecord /\ \A k \in Ids \ {i} : session'[k] = session[k]
      BY <3>1 DEF RevokeDeletes, SessionTypeOK
    <3>4. ended' \subseteq drawn /\ \A k \in ended' \ ended : k = i /\ \A q \in Requests : ~Holds(q, i)
      BY <1>a, <3>1, <3>2 DEF RevokeDeletes, StoreInv
    <3>5. UNCHANGED <<request, drawn, anonymous, index>>
      BY <3>1 DEF RevokeDeletes
    <3>6. QED
      BY <1>a, <3>2, <3>3, <3>4, <3>5, StoreKeepsIds DEF StoreInv
  <2>3. CASE RevokeClears \/ RevokeStops
    <3>1. revoking'.ids = {} /\ UNCHANGED <<request, drawn, anonymous, session, ended>>
      BY <2>3 DEF RevokeClears, RevokeStops, NoRevocation
    <3>2. \A u \in Users : index'[u].ids \subseteq drawn
      BY <1>a, <2>3 DEF RevokeClears, RevokeStops, EmptyIndex, StoreInv, SessionTypeOK
    <3>3. QED
      BY <1>a, <3>1, <3>2, StoreKeepsIds DEF StoreInv
  <2>4. QED
    BY <1>2, <2>1, <2>2, <2>3 DEF RevokeStep
<1>3. CASE Tick
  <2>1. \A u \in Users : index'[u].ids \subseteq drawn
    BY <1>a, <1>3 DEF Tick, EmptyIndex, StoreInv
  <2>2. QED
    BY <1>a, <1>3, <2>1, StoreKeepsIds DEF Tick, StoreInv
<1>4. CASE UNCHANGED sessionVars
  BY <1>a, <1>4, StoreKeepsIds DEF sessionVars, StoreInv
<1>5. QED
  BY <1>1, <1>2, <1>3, <1>4 DEF SessionNext

-----------------------------------------------------------------------------
(* Logins                                                                   *)

\* The clock and the logins only grow.
LEMMA TimeGrows ==
    ASSUME SessionTypeOK, [SessionNext]_sessionVars
    PROVE  /\ now \in Int /\ now' \in Int /\ now <= now'
           /\ \A u \in Users : logins[u] \subseteq logins'[u] /\ logins[u] \subseteq Int
<1>0. now \in Int /\ logins \in [Users -> SUBSET Times] /\ Times \subseteq Int
  BY DEF SessionTypeOK, Times
<1>1. now' = now \/ now' = now + 1
  BY DEF SessionNext, sessionVars, Tick, RevokeStep, RevokeReads, RevokeDeletes, RevokeClears,
     RevokeStops, MiddlewareStep, ArrivesAnonymous, ArrivesWithSession, ArrivesExpired,
     PageHandled, LogoutHandled, LoginHandled, Handled, HandlerReturns, DeletesRecord,
     Unregisters, SavesRecord, Registers, StoreUnavailable
<1>2. \/ logins' = logins
      \/ \E u : logins' = [logins EXCEPT ![u] = @ \cup {now}]
  <2>1. ASSUME NEW r \in Requests, HandlerReturns(r)
        PROVE  \/ logins' = logins
               \/ \E u : logins' = [logins EXCEPT ![u] = @ \cup {now}]
    BY <2>1 DEF HandlerReturns
  <2>2. ASSUME NEW r \in Requests, MiddlewareStep(r), ~HandlerReturns(r)
        PROVE  logins' = logins
    BY <2>2 DEF MiddlewareStep, ArrivesAnonymous, ArrivesWithSession, ArrivesExpired,
       PageHandled, LogoutHandled, LoginHandled, Handled, DeletesRecord, Unregisters,
       SavesRecord, Registers, StoreUnavailable, history
  <2>3. CASE RevokeStep \/ Tick \/ UNCHANGED sessionVars
    BY <2>3 DEF RevokeStep, RevokeReads, RevokeDeletes, RevokeClears, RevokeStops, Tick,
       sessionVars, history
  <2>4. QED
    BY <2>1, <2>2, <2>3 DEF SessionNext
<1>3. now' \in Int /\ now <= now'
  BY <1>0, <1>1
<1>4. ASSUME NEW u \in Users PROVE logins[u] \subseteq logins'[u] /\ logins[u] \subseteq Int
  <2>1. logins[u] \subseteq Int
    BY <1>0
  <2>2. ASSUME NEW v, logins' = [logins EXCEPT ![v] = @ \cup {now}]
        PROVE  logins[u] \subseteq logins'[u]
    BY <1>0, <2>2
  <2>3. QED
    BY <1>2, <2>1, <2>2
<1>5. QED
  BY <1>0, <1>3, <1>4

\* What was timed stays timed.
LEMMA TimedGrows ==
    ASSUME SessionTypeOK, [SessionNext]_sessionVars, NEW x \in Carrier, Timed(x)
    PROVE  Timed(x)'
<1>1. x.rec.last \in Int /\ x.rec.anchor \in Int
      /\ x.was \in Users \cup {NoUser} /\ x.rec.user \in Users \cup {NoUser}
  BY DEF Carrier, Records, Times
<1>2. QED
  BY <1>1, TimeGrows DEF Timed, LoggedIn

\* Requests that stay, and one that becomes x; records that stay or go, and
\* one that is saved.
LEMMA LoginKept ==
    ASSUME SessionTypeOK, SessionTypeOK', LoginInv, [SessionNext]_sessionVars,
           \A q \in Requests : request'[q] = request[q] \/ Timed(request[q])',
           \A i \in Ids : \/ session'[i] \in {session[i], NoRecord}
                         \/ \E q \in Requests :
                                /\ request[q].at = "save"
                                /\ session'[i].user = request[q].rec.user
                                /\ session'[i].anchor = request[q].rec.anchor
    PROVE  LoginInv'
<1>1. \A q \in Requests : Timed(request[q])'
  <2> SUFFICES ASSUME NEW q \in Requests, request'[q] = request[q] PROVE Timed(request[q])'
    BY DEF Timed
  <2>1. PICK x \in Carrier : x = request[q]
    BY DEF SessionTypeOK, Carrier
  <2>2. Timed(x)
    BY <2>1 DEF LoginInv
  <2>3. Timed(x)'
    BY <2>2, TimedGrows
  <2>4. QED
    BY <2>1, <2>3 DEF Timed
<1>2. ASSUME NEW i \in Ids
      PROVE  /\ session'[i].anchor <= now'
             /\ session'[i].user # NoUser =>
                    LoggedIn(session[i].user, session[i].anchor, now)'
  <2>0. /\ session[i].anchor \in Int /\ session[i].user \in Users \cup {NoUser}
        /\ now' \in Int /\ 0 <= now'
    BY DEF SessionTypeOK, Records, Times
  <2>1. CASE session'[i] = session[i]
    <3>1. /\ session[i].anchor <= now
          /\ session[i].user # NoUser => LoggedIn(session[i].user, session[i].anchor, now)
      BY DEF LoginInv
    <3>2. QED
      BY <2>0, <2>1, <3>1, TimeGrows DEF LoggedIn
  <2>2. CASE session'[i] = NoRecord
    BY <2>0, <2>2, RecordTypes
  <2>3. CASE \E q \in Requests : /\ request[q].at = "save"
                                 /\ session'[i].user = request[q].rec.user
                                 /\ session'[i].anchor = request[q].rec.anchor
    <3>1. PICK q \in Requests : /\ request[q].at = "save"
                               /\ session'[i].user = request[q].rec.user
                               /\ session'[i].anchor = request[q].rec.anchor
      BY <2>3
    <3>2. /\ request[q].rec.anchor <= now
          /\ request[q].rec.user # NoUser =>
                LoggedIn(request[q].rec.user, request[q].rec.anchor, now)
      BY <3>1 DEF LoginInv, Timed
    <3>3. request[q].rec.anchor \in Int /\ request[q].rec.user \in Users \cup {NoUser}
      BY DEF SessionTypeOK, Records, Times
    <3>4. QED
      BY <3>1, <3>2, <3>3, TimeGrows DEF LoggedIn
  <2>4. QED
    BY <2>1, <2>2, <2>3
<1>3. QED
  BY <1>1, <1>2 DEF LoginInv

\* A handler that returns with a user that was not there before is a login, now;
\* otherwise the session's own login still counts.
LEMMA ReturnTimed ==
    ASSUME SessionTypeOK, LoginInv, NEW r \in Requests, HandlerReturns(r)
    PROVE  \E x \in Carrier : Becomes(r, x) /\ Timed(x)'
<1>1. PICK x \in Carrier :
        /\ Becomes(r, x) /\ request[r].at = "return"
        /\ x.rec.last = request[r].rec.last
        /\ x.rec.user = request[r].rec.user /\ x.rec.anchor = Anchor(r)
        /\ x.at \in {"delete", "save"}
  BY ReturnWrites
<1> DEFINE u == request[r].rec.user
           was == request[r].was
<1>2. /\ now' = now /\ now \in Int
      /\ logins' = IF u # NoUser /\ u # was THEN [logins EXCEPT ![u] = @ \cup {now}] ELSE logins
  BY DEF HandlerReturns, SessionTypeOK, Times
<1>3. /\ u \in Users \cup {NoUser} /\ was \in Users \cup {NoUser}
      /\ logins \in [Users -> SUBSET Times] /\ Times \subseteq Int
      /\ request[r].rec.anchor \in Int /\ request[r].rec.last \in Int
  BY DEF SessionTypeOK, Records, Times
<1>4. /\ request[r].rec.last <= now /\ request[r].rec.anchor <= now
      /\ was # NoUser => LoggedIn(was, request[r].rec.anchor, request[r].rec.last)
  BY <1>1 DEF LoginInv, Timed
<1>5. Anchor(r) <= now /\ Anchor(r) \in Int
  BY <1>2, <1>3, <1>4 DEF Anchor
<1>6. ASSUME u # NoUser PROVE \E t \in logins'[u] : Anchor(r) <= t /\ t <= now
  <2>1. CASE u # was
    <3>1. now \in logins'[u]
      BY <1>2, <1>3, <1>6, <2>1
    <3>2. QED
      BY <1>2, <1>5, <3>1
  <2>2. CASE u = was
    <3>1. Anchor(r) = request[r].rec.anchor /\ logins' = logins
      BY <1>2, <1>6, <2>2 DEF Anchor, BecameAuthenticated
    <3>2. PICK t \in logins[u] : request[r].rec.anchor <= t /\ t <= request[r].rec.last
      BY <1>4, <1>6, <2>2 DEF LoggedIn
    <3>3. t \in Int
      BY <1>3, <1>6
    <3>4. QED
      BY <1>2, <1>3, <1>4, <3>1, <3>2, <3>3
  <2>3. QED
    BY <2>1, <2>2
<1>7. Timed(x)'
  BY <1>1, <1>2, <1>4, <1>5, <1>6 DEF Timed, LoggedIn
<1>8. QED
  BY <1>1, <1>7

\* Every other step of a request leaves it timed.
LEMMA MiddlewareTimed ==
    ASSUME SessionTypeOK, IdInv, LoginInv, NEW r \in Requests, MiddlewareStep(r)
    PROVE  \E x \in Carrier : Becomes(r, x) /\ (Timed(x) \/ Timed(x)')
<1>0. request[r] \in Carrier /\ Timed(request[r]) /\ now \in Times /\ now \in Int /\ 0 <= now
      /\ request[r].rec.anchor \in Int /\ request[r].rec.last \in Int
  BY DEF SessionTypeOK, Carrier, LoginInv, Times, Records
<1>a. Timed(Resting)
  BY <1>0, RecordTypes DEF Timed
<1>b. Fresh.anchor = now /\ Fresh.last = now /\ Fresh.user = NoUser /\ Fresh \in Records
  BY <1>0, RecordTypes
<1>1. CASE ArrivesAnonymous(r, {})
  <2> DEFINE x == [Resting EXCEPT !.at = "handler", !.rec = Fresh]
  <2>1. x \in Carrier /\ x.was = NoUser /\ x.at = "handler" /\ x.rec = Fresh
    BY <1>b, RecordTypes DEF Resting, Carrier, Stages
  <2>2. Becomes(r, x)
    BY <1>1 DEF ArrivesAnonymous, Becomes
  <2> HIDE DEF x
  <2>3. Timed(x)
    BY <1>0, <1>b, <2>1 DEF Timed
  <2>4. QED
    BY <2>1, <2>2, <2>3
<1>2. ASSUME NEW i \in drawn,
             ArrivesAnonymous(r, {i}) \/ ArrivesWithSession(r, i) \/ ArrivesExpired(r, i)
      PROVE  \E x \in Carrier : Becomes(r, x) /\ Timed(x)
  <2>1. i \in Ids
    BY DEF SessionTypeOK
  <2>2. PICK x \in Carrier :
          /\ Becomes(r, x) /\ x.rec.last = now
          /\ \/ x.at = "handler" /\ x.was = NoUser /\ x.rec = Fresh
             \/ /\ x.at = "handler" /\ x.was = session[i].user
                /\ ~AbsoluteExpired(session[i])
                /\ x.rec.user = session[i].user /\ x.rec.anchor = session[i].anchor
             \/ x.at = "delete" /\ x.rec = Fresh
    BY <1>2, <2>1, ArrivalWrites
  <2>3. /\ session[i].anchor <= now /\ session[i].anchor \in Int
        /\ session[i].user # NoUser => LoggedIn(session[i].user, session[i].anchor, now)
    BY <2>1 DEF LoginInv, SessionTypeOK, Records, Times
  <2>4. Timed(x)
    BY <1>0, <1>b, <2>2, <2>3, SessionAssumption DEF Timed, AbsoluteExpired
  <2>5. QED
    BY <2>2, <2>4
<1>3. CASE PageHandled(r) \/ LogoutHandled(r) \/ \E u \in Users : LoginHandled(r, u)
  <2>1. PICK x \in Carrier :
          /\ Becomes(r, x) /\ request[r].at = "handler"
          /\ x.at = "return" /\ x.was = request[r].was
          /\ x.rec.anchor = request[r].rec.anchor /\ x.rec.last = request[r].rec.last
    BY <1>3, HandlerWrites
  <2>2. Timed(x)
    BY <1>0, <2>1 DEF Timed
  <2>3. QED
    BY <2>1, <2>2
<1>4. CASE HandlerReturns(r)
  BY <1>4, ReturnTimed
<1>5. CASE DeletesRecord(r)
  <2>1. PICK x \in Carrier :
          /\ Becomes(r, x) /\ x.at \in {"save", "unregister"} /\ x.rec = request[r].rec
    BY <1>5, DeleteWrites
  <2>2. request[r].at = "delete"
    BY <1>5, DeleteWrites
  <2>3. Timed(x)
    BY <1>0, <2>1, <2>2 DEF Timed
  <2>4. QED
    BY <2>1, <2>3
<1>6. CASE Unregisters(r) \/ StoreUnavailable(r)
  <2>1. PICK x \in Carrier :
          /\ Becomes(r, x)
          /\ \/ x = Resting
             \/ x.at = "handler" /\ x.was = NoUser /\ x.rec = request[r].rec
    BY <1>6, EndWrites
  <2>2. Timed(x)
    BY <1>0, <1>a, <2>1 DEF Timed
  <2>3. QED
    BY <2>1, <2>2
<1>7. ASSUME NEW i \in Ids, SavesRecord(r, i) PROVE \E x \in Carrier : Becomes(r, x) /\ Timed(x)
  <2>1. PICK rec \in Records, x \in Carrier :
          /\ request[r].at = "save" /\ rec.user = request[r].rec.user
          /\ rec.anchor = request[r].rec.anchor /\ rec.last = request[r].rec.last
          /\ Becomes(r, x)
          /\ x = Resting \/ (x.at = "register" /\ x.rec = rec)
    BY <1>7, SaveWrites
  <2>2. Timed(x)
    BY <1>0, <1>a, <2>1 DEF Timed
  <2>3. QED
    BY <2>1, <2>2
<1>8. CASE Registers(r)
  <2>1. Becomes(r, Resting)
    BY <1>8 DEF Registers, Becomes
  <2>2. QED
    BY <1>a, <2>1, RecordTypes
<1>9. QED
  BY <1>1, <1>2, <1>3, <1>4, <1>5, <1>6, <1>7, <1>8 DEF MiddlewareStep

\* Every step keeps what is said of the login times.
LEMMA LoginStep ==
    ASSUME SessionTypeOK, SessionTypeOK', IdInv, LoginInv, [SessionNext]_sessionVars
    PROVE  LoginInv'
<1> USE DEF stores, history
<1>1. ASSUME NEW r \in Requests, MiddlewareStep(r) PROVE LoginInv'
  <2>1. PICK x \in Carrier : Becomes(r, x) /\ (Timed(x) \/ Timed(x)')
    BY <1>1, MiddlewareTimed
  <2>2. Timed(x)'
    BY <2>1, TimedGrows
  <2>3. request'[r] = x /\ \A q \in Requests \ {r} : request'[q] = request[q]
    BY <2>1, BecomesOthers
  <2>4. \A q \in Requests : request'[q] = request[q] \/ Timed(request[q])'
    BY <2>2, <2>3 DEF Timed
  <2>5. \A i \in Ids : \/ session'[i] \in {session[i], NoRecord}
                       \/ \E q \in Requests :
                            /\ request[q].at = "save"
                            /\ session'[i].user = request[q].rec.user
                            /\ session'[i].anchor = request[q].rec.anchor
    <3>1. CASE session' = session
      BY <3>1
    <3>2. CASE DeletesRecord(r)
      BY <3>2, DeleteWrites DEF SessionTypeOK
    <3>3. ASSUME NEW k \in Ids, SavesRecord(r, k), NEW i \in Ids
          PROVE  \/ session'[i] \in {session[i], NoRecord}
                 \/ \E q \in Requests :
                            /\ request[q].at = "save"
                            /\ session'[i].user = request[q].rec.user
                            /\ session'[i].anchor = request[q].rec.anchor
      <4>1. PICK rec \in Records : /\ request[r].at = "save" /\ rec.user = request[r].rec.user
                                  /\ rec.anchor = request[r].rec.anchor
                                  /\ session' = [session EXCEPT ![k] = rec]
        BY <3>3, SaveWrites
      <4>2. QED
        BY <3>3, <4>1 DEF SessionTypeOK
    <3>4. session' = session \/ DeletesRecord(r) \/ \E i \in Ids : SavesRecord(r, i)
      BY <1>1 DEF MiddlewareStep, ArrivesAnonymous, ArrivesWithSession, ArrivesExpired,
         PageHandled, LogoutHandled, LoginHandled, Handled, HandlerReturns,
         Unregisters, Registers, StoreUnavailable
    <3>5. QED
      BY <3>1, <3>2, <3>3, <3>4
  <2>6. QED
    BY <2>4, <2>5, LoginKept
<1>2. CASE RevokeStep \/ Tick \/ UNCHANGED sessionVars
  <2>1. request' = request
    BY <1>2 DEF RevokeStep, RevokeReads, RevokeDeletes, RevokeClears, RevokeStops, Tick, sessionVars
  <2>2. \A i \in Ids : session'[i] \in {session[i], NoRecord}
    BY <1>2 DEF RevokeStep, RevokeReads, RevokeDeletes, RevokeClears, RevokeStops, Tick,
       sessionVars, SessionTypeOK
  <2>3. QED
    BY <2>1, <2>2, LoginKept
<1>3. QED
  BY <1>1, <1>2 DEF SessionNext

-----------------------------------------------------------------------------
\* The sessions begin in the invariant.
LEMMA SessionInvInit == SessionInit => SessionInv
<1> SUFFICES ASSUME SessionInit PROVE SessionInv
  OBVIOUS
<1>1. SessionTypeOK
  BY TypesInit
<1>2. StoreInv /\ EndedInv
  BY RecordTypes DEF SessionInit, StoreInv, EndedInv, EmptyIndex, NoRevocation
<1>3. \A r \in Requests : Carries(request[r]) /\ Timed(request[r])
  BY RecordTypes DEF SessionInit, Carries, Timed
<1>4. LoginInv
  BY <1>3, RecordTypes DEF SessionInit, LoginInv
<1>5. QED
  BY <1>1, <1>2, <1>3, <1>4 DEF SessionInv, IdInv

\* The inductive invariant of sessions: who carries which identifier, what ended,
\* and from which login each record counts its absolute timeout.
THEOREM SessionInvariant == SessionSpec => []SessionInv
<1>1. SessionInv /\ [SessionNext]_sessionVars => SessionInv'
  BY TypesStep, IdStep, LoginStep DEF SessionInv
<1>2. QED
  BY <1>1, SessionInvInit, PTL DEF SessionSpec

\* An identifier from before a login never carries a user.
THEOREM IdsChangeAtLogin == SessionSpec => []FreshIdAtLogin
<1>1. SessionInv => FreshIdAtLogin
  BY DEF SessionInv, IdInv, StoreInv, FreshIdAtLogin
<1>2. QED
  BY <1>1, SessionInvariant, PTL

\* A session that ended while no other request held it stays gone.
THEOREM EndedSessionsStayEnded == SessionSpec => []EndedStaysEnded
<1>1. SessionInv => EndedStaysEnded
  BY DEF SessionInv, IdInv, EndedInv, EndedStaysEnded
<1>2. QED
  BY <1>1, SessionInvariant, PTL

\* Whoever runs as a user logged in within the absolute timeout.
THEOREM LoginsAreRecent == SessionSpec => []AuthenticatedRecently
<1>1. SessionInv => AuthenticatedRecently
  <2> SUFFICES ASSUME SessionInv, NEW r \in Requests,
                      request[r].at = "handler", request[r].was # NoUser
               PROVE  \E t \in logins[request[r].was] :
                        t <= request[r].rec.last /\ request[r].rec.last - t <= AbsoluteTimeout
    BY DEF AuthenticatedRecently
  <2>1. PICK t \in logins[request[r].was] :
            request[r].rec.anchor <= t /\ t <= request[r].rec.last
    BY DEF SessionInv, LoginInv, Timed, LoggedIn
  <2>2. request[r].rec.last - request[r].rec.anchor <= AbsoluteTimeout
    BY DEF SessionInv, LoginInv, Timed
  <2>3. /\ t \in Int /\ request[r].rec.anchor \in Int /\ request[r].rec.last \in Int
        /\ AbsoluteTimeout \in Int
    BY SessionAssumption DEF SessionInv, SessionTypeOK, Records, Times
  <2>4. QED
    BY <2>1, <2>2, <2>3
<1>2. QED
  BY <1>1, SessionInvariant, PTL
=============================================================================
