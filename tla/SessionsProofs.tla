--------------------------- MODULE SessionsProofs ---------------------------
(***************************************************************************)
(* Proofs about Sessions for every number of tokens and requests, every    *)
(* life a session is given and every fault.                                *)
(***************************************************************************)
EXTENDS Sessions, DeviceTrustProofs

\* A request that goes on is told from one that has ended by its stage.
LEMMA IdleTag == Idle.pc = "idle"
  BY DEF Idle

\* A waiting request has a token and a reading of the clock.
LEMMA WaitingFields ==
    ASSUME NEW q \in Request, q.pc = "resolve"
    PROVE  q # Idle /\ q.token \in Tokens /\ q.at \in Nat
  BY IdleTag DEF Request, Waiting, Resolved

\* A resolved one has a peer too.
LEMMA ResolvedFields ==
    ASSUME NEW q \in Request, q.pc \in {"trust", "body"}
    PROVE  /\ q # Idle /\ q \in Resolved
           /\ q.token \in Tokens /\ q.at \in Nat
           /\ q.device \in Devices /\ q.key \in Keys
  BY IdleTag DEF Request, Waiting, Resolved

\* Approvals and grants are never taken back, and the clock never goes back.
LEMMA TrustGrows ==
    ASSUME TrustInv, TrustNext
    PROVE  /\ granted \subseteq granted' /\ approved \subseteq approved'
           /\ now \in Nat /\ now' \in Nat /\ now <= now'
  <1>1. granted \subseteq granted' /\ approved \subseteq approved'
    BY DEF TrustNext, TrustChange, Issue, VerifyAndConsumePairing, Authorize,
           Revoke, Tick, Restart
  <1>2. now' = now \/ now' = now + 1
    BY DEF TrustNext, TrustChange, Issue, VerifyAndConsumePairing, Authorize,
           Revoke, Tick, Restart
  <1>3. now \in Nat
    BY DEF TrustInv, TrustTypeOK
  <1>4. QED
    BY <1>1, <1>2, <1>3

\* What the trust stores say does not change in the steps of sessions.
LEMMA TrustRests ==
    ASSUME TrustInv, UNCHANGED trustVars
    PROVE  /\ TrustInv' /\ TrustTypeOK'
           /\ TrustedPeers' = TrustedPeers
           /\ UNCHANGED <<now, registry, granted, approved>>
  <1>1. TrustInv'
    BY TrustInvStep
  <1>2. QED
    BY <1>1 DEF trustVars, TrustInv, TrustedPeers, IsTrusted, Active

\* A node that has just started has no sessions and no requests.
LEMMA SessionsInit == Init => SessionsInv
  <1> SUFFICES ASSUME Init PROVE SessionsInv
    OBVIOUS
  <1>1. TrustInv /\ TrustTypeOK
    BY TrustInvInit DEF Init, TrustInv
  <1>2. TypeOK
    BY <1>1 DEF Init, TypeOK, NoSessions, Request
  <1>3. QED
    BY <1>1, <1>2 DEF Init, SessionsInv, FileInv, NoSessions, RequestFits,
                      AcceptedIsEntitled

\* What a request has stays while approvals, grants and logins are added and
\* the clock goes on, if the peers trusted meanwhile are noted.
LEMMA FitsStays ==
    ASSUME NEW q \in Request, NEW s, NEW s2, RequestFits(q, s),
           s \subseteq s2, TrustedPeers' \subseteq s2,
           now \in Nat, now' \in Nat, now <= now',
           puts \subseteq puts', granted \subseteq granted',
           approved \subseteq approved'
    PROVE  RequestFits(q, s2)'
  <1> SUFFICES ASSUME q # Idle PROVE RequestFits(q, s2)'
    BY DEF RequestFits
  <1>1. q.at \in Nat
    BY DEF Request, Waiting, Resolved
  <1>2. q.at <= now'
    BY <1>1 DEF RequestFits
  <1>3. q.pc \in {"trust", "body"} =>
           \E u \in puts' : /\ u.token = q.token
                            /\ u.session.device = q.device
                            /\ u.session.key = q.key
                            /\ q.at < u.session.expires
    BY DEF RequestFits
  <1>4. q.pc = "body" =>
           /\ [device |-> q.device, key |-> q.key] \in s2
           /\ [account |-> Account, device |-> q.device, key |-> q.key]
                 \in approved'
           /\ \E g \in granted' : g.device = q.device /\ g.key = q.key
    BY DEF RequestFits
  <1>5. QED
    BY <1>2, <1>3, <1>4 DEF RequestFits

\* What was accepted stays entitled while the histories grow.
LEMMA EntitledStays ==
    ASSUME AcceptedIsEntitled, UNCHANGED accepted, puts \subseteq puts',
           granted \subseteq granted', approved \subseteq approved'
    PROVE  AcceptedIsEntitled'
  BY DEF AcceptedIsEntitled

\* Changes of trust, which the requests in progress note.
LEMMA ChangeTrustStep ==
    ASSUME SessionsInv, ChangeTrust
    PROVE  SessionsInv'
  <1>1. TrustNext /\ UNCHANGED <<sessions, request, puts, accepted>>
    BY DEF ChangeTrust, TrustNext
  <1>2. TrustInv' /\ TrustTypeOK'
    BY <1>1, TrustInvStep DEF SessionsInv, TrustInv
  <1>3. /\ granted \subseteq granted' /\ approved \subseteq approved'
        /\ now \in Nat /\ now' \in Nat /\ now <= now'
    BY <1>1, TrustGrows DEF SessionsInv
  <1>4. seen' = [r \in Requests |-> IF request[r] = Idle THEN seen[r]
                                    ELSE seen[r] \cup TrustedPeers']
    BY DEF ChangeTrust
  <1>5. seen' \in [Requests -> SUBSET Pairing]
    BY <1>4 DEF SessionsInv, TypeOK, TrustedPeers
  <1>6. TypeOK'
    BY <1>1, <1>2, <1>5 DEF SessionsInv, TypeOK
  <1>7. ASSUME NEW r \in Requests
        PROVE  RequestFits(request[r], seen[r])'
    <2>1. CASE request[r] = Idle
      BY <1>1, <2>1 DEF RequestFits
    <2>2. CASE request[r] # Idle
      <3>1. PICK q, s, s2 :
              /\ q \in Request /\ q = request[r]
              /\ s = seen[r] /\ s2 = seen'[r]
        BY DEF SessionsInv, TypeOK
      <3>2. /\ q \in Request /\ RequestFits(q, s)
            /\ s \subseteq s2 /\ TrustedPeers' \subseteq s2
        BY <1>4, <2>2, <3>1 DEF SessionsInv
      <3>3. RequestFits(q, s2)'
        BY <1>1, <1>3, <3>2, FitsStays
      <3>4. QED
        BY <1>1, <3>1, <3>3
    <2>3. QED
      BY <2>1, <2>2
  <1>8. FileInv'
    BY <1>1 DEF SessionsInv, FileInv
  <1>9. AcceptedIsEntitled'
    BY <1>1, <1>3, EntitledStays DEF SessionsInv
  <1>10. QED
    BY <1>2, <1>6, <1>7, <1>8, <1>9 DEF SessionsInv

\* A login puts one session into the file, or fails.
LEMMA PutStep ==
    ASSUME SessionsInv, NEW t \in Tokens, NEW p \in Pairing,
           NEW life \in 0 .. MaxLife, Put(t, p, life)
    PROVE  SessionsInv'
  <1> DEFINE s == [device |-> p.device, key |-> p.key, expires |-> now + life]
             u == [token |-> t, session |-> s]
  <1>1. /\ sessions' \in {sessions, [sessions EXCEPT ![t] = s]}
        /\ puts' = puts \cup {u}
        /\ UNCHANGED <<trustVars, request, seen, accepted>>
    BY DEF Put, SaveSessions, WithSession
  <1>2. /\ TrustInv' /\ TrustTypeOK' /\ TrustedPeers' = TrustedPeers
        /\ UNCHANGED <<now, registry, granted, approved>>
    BY <1>1, TrustRests DEF SessionsInv
  <1>3. s \in Session /\ u \in [token: Tokens, session: Session]
    <2>1. now \in Nat /\ life \in Nat
      BY SessionsAssumption DEF SessionsInv, TrustInv, TrustTypeOK,
                                SessionsAssumption
    <2>2. s \in Session
      BY <2>1 DEF Session, Pairing
    <2>3. QED
      BY <2>2
  <1>4. TypeOK'
    BY <1>1, <1>2, <1>3 DEF SessionsInv, TypeOK
  <1>5. FileInv'
    BY <1>1 DEF SessionsInv, FileInv, TypeOK
  <1>6. ASSUME NEW r \in Requests
        PROVE  RequestFits(request[r], seen[r])'
    <2>1. PICK q, e : q \in Request /\ q = request[r] /\ e = seen[r]
      BY DEF SessionsInv, TypeOK
    <2>2. /\ q \in Request /\ RequestFits(q, e)
          /\ q # Idle => TrustedPeers \subseteq e
      BY <2>1 DEF SessionsInv, RequestFits
    <2>3. RequestFits(q, e)'
      <3>1. CASE q = Idle
        BY <3>1 DEF RequestFits
      <3>2. CASE q # Idle
        BY <3>2, <1>1, <1>2, <2>2, FitsStays DEF TrustTypeOK, SessionsInv,
           TrustInv
      <3>3. QED
        BY <3>1, <3>2
    <2>4. QED
      BY <1>1, <2>1, <2>3
  <1>7. AcceptedIsEntitled'
    BY <1>1, <1>2, EntitledStays DEF SessionsInv
  <1>8. QED
    BY <1>2, <1>4, <1>5, <1>6, <1>7 DEF SessionsInv

\* A step of one request, which may remove sessions, note peers and take in a
\* record that is entitled.
LEMMA RequestStep ==
    ASSUME SessionsInv, UNCHANGED <<trustVars, puts>>,
           NEW r \in Requests, NEW new \in Request, NEW e \in SUBSET Pairing,
           request' = [request EXCEPT ![r] = new],
           seen' = [seen EXCEPT ![r] = e],
           RequestFits(new, e),
           sessions' \in [Tokens -> Session \cup {NoSession}],
           \A t \in Tokens : sessions'[t] \in {sessions[t], NoSession},
           accepted' \subseteq Pairing, AcceptedIsEntitled'
    PROVE  SessionsInv'
  <1>1. /\ TrustInv' /\ TrustTypeOK' /\ TrustedPeers' = TrustedPeers
        /\ UNCHANGED <<now, registry, granted, approved>>
    BY TrustRests DEF SessionsInv
  <1>2. TypeOK'
    BY <1>1 DEF SessionsInv, TypeOK
  <1>3. FileInv'
    BY DEF SessionsInv, FileInv
  <1>4. ASSUME NEW x \in Requests
        PROVE  RequestFits(request[x], seen[x])'
    <2>1. PICK q, s : q \in Request /\ q = request'[x] /\ s = seen'[x]
      BY <1>2 DEF TypeOK
    <2>2. q \in Request /\ RequestFits(q, s)
      BY <2>1 DEF SessionsInv, TypeOK
    <2>3. RequestFits(q, s)'
      <3>1. CASE q = Idle
        BY <3>1 DEF RequestFits
      <3>2. CASE q # Idle
        <4>1. TrustedPeers' \subseteq s
          BY <1>1, <2>2, <3>2 DEF RequestFits
        <4>2. QED
          BY <4>1, <1>1, <2>2, FitsStays DEF TrustTypeOK, SessionsInv, TrustInv
      <3>3. QED
        BY <3>1, <3>2
    <2>4. QED
      BY <2>1, <2>3
  <1>5. QED
    BY <1>1, <1>2, <1>3, <1>4 DEF SessionsInv

\* A request begins: it has the peers trusted now.
LEMMA StartStep ==
    ASSUME SessionsInv, NEW r \in Requests, StartRequest(r)
    PROVE  SessionsInv'
  <1>1. PICK t \in Tokens :
          request' = [request EXCEPT ![r] =
             [pc |-> "resolve", token |-> t, at |-> now]]
    BY DEF StartRequest
  <1>2. /\ seen' = [seen EXCEPT ![r] = TrustedPeers]
        /\ UNCHANGED <<trustVars, sessions, puts, accepted>>
    BY DEF StartRequest
  <1>3. now \in Nat
    BY DEF SessionsInv, TrustInv, TrustTypeOK
  <1>4. PICK new : new = [pc |-> "resolve", token |-> t, at |-> now]
    OBVIOUS
  <1>5. new \in Request /\ new.pc = "resolve" /\ new.at = now
    BY <1>3, <1>4 DEF Request, Waiting
  <1>6. PICK e \in SUBSET Pairing : e = TrustedPeers
    BY DEF TrustedPeers
  <1>7. RequestFits(new, e)
    BY <1>3, <1>5, <1>6 DEF RequestFits
  <1>8. AcceptedIsEntitled'
    BY <1>2, EntitledStays DEF SessionsInv, trustVars
  <1>9. QED
    BY <1>1, <1>2, <1>4, <1>5, <1>6, <1>7, <1>8, RequestStep
       DEF SessionsInv, TypeOK

\* A token is looked up: the entry found was put for it.
LEMMA ResolveStep ==
    ASSUME SessionsInv, NEW r \in Requests, Resolve(r)
    PROVE  SessionsInv'
  <1>1. /\ request[r].pc = "resolve"
        /\ UNCHANGED <<trustVars, puts, seen, accepted>>
    BY DEF Resolve
  <1>2. PICK q \in Request, e \in SUBSET Pairing : q = request[r] /\ e = seen[r]
    BY DEF SessionsInv, TypeOK
  <1>3. /\ q # Idle /\ q.pc = "resolve" /\ q.token \in Tokens /\ q.at \in Nat
        /\ RequestFits(q, e)
    BY <1>1, <1>2, WaitingFields DEF SessionsInv
  <1>4. seen' = [seen EXCEPT ![r] = e]
    BY <1>1, <1>2 DEF SessionsInv, TypeOK
  <1>5. AcceptedIsEntitled' /\ accepted' \subseteq Pairing
    BY <1>1, EntitledStays DEF SessionsInv, trustVars, TypeOK
  <1> DEFINE t == q.token
  <1>6. CASE /\ sessions[t] # NoSession
             /\ q.at < sessions[t].expires
             /\ request' = [request EXCEPT ![r] =
                   [pc |-> "trust", token |-> t, at |-> q.at,
                    device |-> sessions[t].device, key |-> sessions[t].key]]
             /\ UNCHANGED sessions
    <2>1. PICK s \in Session : s = sessions[t]
      BY <1>3, <1>6 DEF SessionsInv, TypeOK
    <2>2. PICK u \in puts : u.token = t /\ u.session = s
      <3>1. [token |-> t, session |-> s] \in puts
        BY <1>3, <1>6, <2>1 DEF SessionsInv, FileInv
      <3>2. QED
        BY <3>1
    <2>3. PICK new : new = [pc |-> "trust", token |-> t, at |-> q.at,
                            device |-> s.device, key |-> s.key]
      OBVIOUS
    <2>4. s.device \in Devices /\ s.key \in Keys
      BY DEF Session
    <2>5. /\ new \in Request /\ new.pc = "trust" /\ new.token = t
          /\ new.at = q.at /\ new.device = s.device /\ new.key = s.key
      <3>1. new \in Resolved
        BY <1>3, <2>3, <2>4 DEF Resolved
      <3>2. QED
        BY <3>1, <2>3 DEF Request
    <2>6. RequestFits(new, e)
      BY <1>3, <1>6, <2>1, <2>2, <2>5 DEF RequestFits
    <2>7. request' = [request EXCEPT ![r] = new]
      BY <1>6, <2>1, <2>3
    <2>8. QED
      BY <1>1, <1>4, <1>5, <1>6, <2>5, <2>6, <2>7, RequestStep
         DEF SessionsInv, TypeOK
  <1>7. CASE /\ request' = [request EXCEPT ![r] = Idle]
             /\ sessions' \in {sessions, [sessions EXCEPT ![t] = NoSession]}
    <2>1. Idle \in Request /\ RequestFits(Idle, e)
      BY DEF Request, RequestFits
    <2>2. /\ sessions' \in [Tokens -> Session \cup {NoSession}]
          /\ \A x \in Tokens : sessions'[x] \in {sessions[x], NoSession}
      BY <1>3, <1>7 DEF SessionsInv, TypeOK
    <2>3. PICK new : new = Idle
      OBVIOUS
    <2>4. QED
      BY <1>1, <1>4, <1>5, <1>7, <2>1, <2>2, <2>3, RequestStep
  <1>8. QED
    BY <1>2, <1>6, <1>7 DEF Resolve, Live, SaveSessions, Without, WithSession

\* The registry is asked: what is trusted now was noted, approved and granted.
LEMMA AskTrustStep ==
    ASSUME SessionsInv, NEW r \in Requests, AskTrust(r)
    PROVE  SessionsInv'
  <1>1. /\ request[r].pc = "trust"
        /\ UNCHANGED <<trustVars, sessions, puts, seen, accepted>>
    BY DEF AskTrust
  <1>2. PICK q \in Request, e \in SUBSET Pairing : q = request[r] /\ e = seen[r]
    BY DEF SessionsInv, TypeOK
  <1>3. /\ q # Idle /\ q.pc = "trust" /\ q \in Resolved
        /\ q.device \in Devices /\ q.key \in Keys
        /\ RequestFits(q, e)
    BY <1>1, <1>2, ResolvedFields DEF SessionsInv
  <1>4. seen' = [seen EXCEPT ![r] = e]
    BY <1>1, <1>2 DEF SessionsInv, TypeOK
  <1>5. AcceptedIsEntitled' /\ accepted' \subseteq Pairing
    BY <1>1, EntitledStays DEF SessionsInv, trustVars, TypeOK
  <1>6. CASE /\ IsTrusted(Account, q.device, q.key)
             /\ request' = [request EXCEPT ![r].pc = "body"]
    <2> DEFINE p == [device |-> q.device, key |-> q.key]
    <2>1. p \in e
      <3>1. p \in TrustedPeers
        BY <1>3, <1>6 DEF TrustedPeers, Pairing
      <3>2. QED
        BY <1>3, <3>1 DEF RequestFits
    <2>2. /\ [account |-> Account, device |-> q.device, key |-> q.key]
                \in approved
          /\ \E g \in granted : g.device = q.device /\ g.key = q.key
      BY <1>3, <1>6, SessionsAssumption
         DEF SessionsInv, TrustInv, TrustIsEarned, IsTrusted, Active,
             SessionsAssumption
    <2>3. PICK new : new = [q EXCEPT !.pc = "body"]
      OBVIOUS
    <2>4. /\ new \in Request /\ new.pc = "body" /\ new.token = q.token
          /\ new.at = q.at /\ new.device = q.device /\ new.key = q.key
      <3>1. new \in Resolved
        BY <1>3, <2>3 DEF Resolved
      <3>2. QED
        BY <1>3, <2>3, <3>1 DEF Request, Resolved
    <2>5. RequestFits(new, e)
      BY <1>3, <2>1, <2>2, <2>4 DEF RequestFits
    <2>6. request' = [request EXCEPT ![r] = new]
      BY <1>2, <1>6, <2>3
    <2>7. QED
      BY <1>1, <1>4, <1>5, <2>4, <2>5, <2>6, RequestStep DEF SessionsInv, TypeOK
  <1>7. CASE request' = [request EXCEPT ![r] = Idle]
    <2>1. Idle \in Request /\ RequestFits(Idle, e)
      BY DEF Request, RequestFits
    <2>2. QED
      BY <1>1, <1>4, <1>5, <1>7, <2>1, RequestStep DEF SessionsInv, TypeOK
  <1>8. QED
    BY <1>2, <1>6, <1>7 DEF AskTrust, PeerTrusted

\* A record is taken in: its signer is the peer of the request.
LEMMA IngestStep ==
    ASSUME SessionsInv, NEW r \in Requests, Ingest(r)
    PROVE  SessionsInv'
  <1>1. /\ request[r].pc = "body"
        /\ request' = [request EXCEPT ![r] = Idle]
        /\ UNCHANGED <<trustVars, sessions, puts, seen>>
    BY DEF Ingest
  <1>2. PICK q \in Request, e \in SUBSET Pairing : q = request[r] /\ e = seen[r]
    BY DEF SessionsInv, TypeOK
  <1>3. q # Idle /\ q.pc = "body" /\ RequestFits(q, e)
    BY <1>1, <1>2, ResolvedFields DEF SessionsInv
  <1>4. PICK proof \in Pairing :
          accepted' = IF SignedBy(q, proof) THEN accepted \cup {proof}
                      ELSE accepted
    BY <1>2 DEF Ingest
  <1>5. SignedBy(q, proof) =>
          /\ [account |-> Account, device |-> proof.device, key |-> proof.key]
                \in approved
          /\ \E g \in granted : g.device = proof.device /\ g.key = proof.key
          /\ \E u \in puts : /\ u.session.device = proof.device
                             /\ u.session.key = proof.key
    BY <1>3 DEF RequestFits, SignedBy
  <1>6. UNCHANGED <<puts, granted, approved>>
    BY <1>1 DEF trustVars
  <1>7. AcceptedIsEntitled'
    BY <1>4, <1>5, <1>6 DEF SessionsInv, AcceptedIsEntitled
  <1>8. accepted' \subseteq Pairing
    BY <1>4 DEF SessionsInv, TypeOK
  <1>9. Idle \in Request /\ RequestFits(Idle, e)
    BY DEF Request, RequestFits
  <1>10. seen' = [seen EXCEPT ![r] = e]
    BY <1>1, <1>2 DEF SessionsInv, TypeOK
  <1>11. QED
    BY <1>1, <1>7, <1>8, <1>9, <1>10, RequestStep DEF SessionsInv, TypeOK

\* A restart ends the requests and may lose the session file.
LEMMA RestartNodeStep ==
    ASSUME SessionsInv, RestartNode
    PROVE  SessionsInv'
  <1>1. /\ Restart
        /\ sessions' \in {sessions, NoSessions}
        /\ request' = [r \in Requests |-> Idle]
        /\ UNCHANGED <<puts, seen, accepted>>
    BY DEF RestartNode
  <1>2. TrustInv' /\ TrustTypeOK'
    BY <1>1, TrustInvStep DEF SessionsInv, TrustInv, TrustNext
  <1>3. UNCHANGED <<granted, approved>>
    BY <1>1 DEF Restart
  <1>4. TypeOK'
    BY <1>1, <1>2 DEF SessionsInv, TypeOK, NoSessions, Request
  <1>5. FileInv'
    BY <1>1 DEF SessionsInv, FileInv, NoSessions
  <1>6. AcceptedIsEntitled'
    BY <1>1, <1>3, EntitledStays DEF SessionsInv
  <1>7. QED
    BY <1>1, <1>2, <1>4, <1>5, <1>6 DEF SessionsInv, RequestFits

\* The invariant of sessions and requests is inductive.
LEMMA SessionsStep == SessionsInv /\ [Next]_vars => SessionsInv'
  <1> SUFFICES ASSUME SessionsInv, [Next]_vars
               PROVE  SessionsInv'
    OBVIOUS
  <1>1. CASE UNCHANGED vars
    <2>1. UNCHANGED <<trustVars, sessions, request, puts, seen, accepted>>
      BY <1>1 DEF vars, sessionVars
    <2>2. /\ TrustInv' /\ TrustTypeOK' /\ TrustedPeers' = TrustedPeers
          /\ UNCHANGED <<now, registry, granted, approved>>
      BY <2>1, TrustRests DEF SessionsInv
    <2>3. QED
      BY <2>1, <2>2 DEF SessionsInv, TypeOK, FileInv, RequestFits,
                        AcceptedIsEntitled
  <1>2. QED
    BY <1>1, ChangeTrustStep, PutStep, StartStep, ResolveStep, AskTrustStep,
       IngestStep, RestartNodeStep DEF Next

\* The invariant holds of every behaviour of a node that serves sessions.
THEOREM SessionsHold == Spec => []SessionsInv
  BY SessionsInit, SessionsStep, PTL DEF Spec

\* The session file, the requests and the trust stores keep their types.
THEOREM SessionsTyped == Spec => []TypeOK
  <1>1. SessionsInv => TypeOK
    BY DEF SessionsInv
  <1>2. QED
    BY <1>1, SessionsHold, PTL

\* A request resolves only to a peer that its token was given to, in time.
THEOREM TokensStandForTheirPeers == Spec => []ResolvedInTime
  <1>1. SessionsInv => ResolvedInTime
    BY IdleTag DEF SessionsInv, ResolvedInTime, RequestFits
  <1>2. QED
    BY <1>1, SessionsHold, PTL

\* No request that begins after a revocation reaches its body.
THEOREM RevokedSessionsStop == Spec => []NoRequestAfterRevocation
  <1>1. SessionsInv => NoRequestAfterRevocation
    BY IdleTag DEF SessionsInv, NoRequestAfterRevocation, RequestFits
  <1>2. QED
    BY <1>1, SessionsHold, PTL

\* Every record taken in is signed with a key that was paired, approved and
\* logged in.
THEOREM AcceptedRecordsAreEntitled == Spec => []AcceptedIsEntitled
  <1>1. SessionsInv => AcceptedIsEntitled
    BY DEF SessionsInv
  <1>2. QED
    BY <1>1, SessionsHold, PTL

\* No login, request or expiry ends a session that has not expired.
THEOREM SessionsAreKept == Spec => SessionsEndWhenExpired
  <1> DEFINE Kept == \A t \in Tokens :
                (sessions[t] # NoSession /\ sessions'[t] = NoSession) =>
                   now >= sessions[t].expires \/ RestartNode
  <1>1. ASSUME SessionsInv, Next
        PROVE  Kept
    <2>1. CASE UNCHANGED sessions
      BY <2>1
    <2>2. CASE RestartNode
      BY <2>2
    <2>3. ASSUME NEW t \in Tokens, NEW p \in Pairing, NEW life \in 0 .. MaxLife,
                 Put(t, p, life)
          PROVE  Kept
      <3> DEFINE s == [device |-> p.device, key |-> p.key,
                       expires |-> now + life]
      <3>1. s # NoSession
        <4>1. now \in Nat /\ life \in Nat
          BY <1>1, SessionsAssumption DEF SessionsInv, TrustInv, TrustTypeOK,
                                    SessionsAssumption
        <4>2. s \in Session
          BY <4>1 DEF Session, Pairing
        <4>3. QED
          BY <4>2, SessionsAssumption DEF SessionsAssumption
      <3>2. sessions' \in {sessions, [sessions EXCEPT ![t] = s]}
        BY <2>3 DEF Put, SaveSessions, WithSession
      <3>3. QED
        BY <1>1, <3>1, <3>2 DEF SessionsInv, TypeOK
    <2>4. ASSUME NEW r \in Requests, Resolve(r)
          PROVE  Kept
      <3>1. PICK q \in Request : q = request[r]
        BY <1>1 DEF SessionsInv, TypeOK
      <3>2. q # Idle /\ q.token \in Tokens /\ q.at \in Nat /\ q.at <= now
        BY <1>1, <2>4, <3>1, WaitingFields DEF Resolve, SessionsInv, RequestFits
      <3>3. CASE /\ sessions[q.token] # NoSession
                 /\ ~(q.at < sessions[q.token].expires)
                 /\ sessions' \in {sessions,
                                   [sessions EXCEPT ![q.token] = NoSession]}
        <4>1. sessions[q.token].expires \in Nat /\ now \in Nat
          BY <1>1, <3>2, <3>3 DEF SessionsInv, TypeOK, Session, TrustTypeOK
        <4>2. now >= sessions[q.token].expires
          BY <3>2, <3>3, <4>1
        <4>3. QED
          BY <1>1, <3>3, <4>2 DEF SessionsInv, TypeOK
      <3>4. QED
        BY <2>1, <2>4, <3>1, <3>3 DEF Resolve, Live, SaveSessions, Without,
                                      WithSession
    <2>5. QED
      BY <1>1, <2>1, <2>2, <2>3, <2>4
         DEF Next, ChangeTrust, StartRequest, AskTrust, Ingest
  <1>2. SessionsInv /\ [Next]_vars => [Kept]_vars
    BY <1>1
  <1>3. QED
    BY <1>2, SessionsHold, PTL DEF Spec, SessionsEndWhenExpired
=============================================================================
