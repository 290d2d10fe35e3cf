------------------------------ MODULE Sessions ------------------------------
(***************************************************************************)
(* HTTP requests that carry a session token, on top of the device trust:   *)
(* AuthenticatePeer and the session Store's Put give a peer a session,     *)
(* SessionPeerResolver finds it again by its token, TrustedPeerResolver    *)
(* asks the registry about it, and the handler ingests a record that the   *)
(* peer has signed (VerifySignedRecord).                                   *)
(*                                                                         *)
(* A request reads the clock, waits for the store's mutex, reads the       *)
(* registry and then its own body: pairing, revocation, renewal and other  *)
(* requests go on between any two of these.  What the ingestor does with   *)
(* an accepted record is the module Ingest.                                *)
(***************************************************************************)
EXTENDS DeviceTrust

CONSTANTS
    Account,   \* TrustedPeerResolver.AccountID
    Tokens,    \* session tokens; the file keeps their hashes
    Requests,  \* HTTP requests served at a time
    MaxLife,   \* longest life a session is given
    NoSession  \* no entry in the session file

Session == [device: Devices, key: Keys, expires: Nat]

ASSUME SessionsAssumption ==
    /\ Account \in Accounts
    /\ MaxLife \in Nat
    /\ NoSession \notin Session

VARIABLES
    sessions,  \* the session file
    request,   \* how far each request is
    puts,      \* history: the sessions that were put, with their tokens
    seen,      \* history: peers trusted at some time since the request began
    accepted   \* history: origins and keys of the records taken in

sessionVars == <<sessions, request, puts, seen, accepted>>
vars == <<trustVars, sessionVars>>

Idle == [pc |-> "idle"]
Waiting == [pc: {"resolve"}, token: Tokens, at: Nat]
Resolved == [pc: {"trust", "body"}, token: Tokens, at: Nat,
             device: Devices, key: Keys]
Request == {Idle} \cup Waiting \cup Resolved

NoSessions == [t \in Tokens |-> NoSession]

TrustedPeers == {p \in Pairing : IsTrusted(Account, p.device, p.key)}

Init ==
    /\ TrustInit
    /\ sessions = NoSessions
    /\ request = [r \in Requests |-> Idle]
    /\ puts = {}
    /\ seen = [r \in Requests |-> {}]
    /\ accepted = {}

-----------------------------------------------------------------------------

\* Variant: a file that cannot be read counts as an empty one.
WithOnlySession(t, s) == [NoSessions EXCEPT ![t] = s]

WithSession(t, s) == [sessions EXCEPT ![t] = s]

Without(t) == WithSession(t, NoSession)

\* Store.save, under the mutex since the load.
SaveSessions(new) ==
    \/ sessions' = new
    \/ "save" \in Faults /\ UNCHANGED sessions

\* A peer proves that it has its key (AuthenticatePeer takes a proof over any
\* challenge, a used one too), and its session is put under a token, also a
\* token that has a session.  The registry is not asked.
Put(t, p, life) ==
    LET s == [device |-> p.device, key |-> p.key, expires |-> now + life]
    IN  /\ SaveSessions(WithSession(t, s))
        /\ puts' = puts \cup {[token |-> t, session |-> s]}
    /\ UNCHANGED <<trustVars, request, seen, accepted>>

\* SessionPeerResolver: the token of the header and the clock.
StartRequest(r) ==
    /\ request[r] = Idle
    /\ \E t \in Tokens :
          request' = [request EXCEPT ![r] =
             [pc |-> "resolve", token |-> t, at |-> now]]
    /\ seen' = [seen EXCEPT ![r] = TrustedPeers]
    /\ UNCHANGED <<trustVars, sessions, puts, accepted>>

\* Not expired at that instant.
Live(s, at) == at < s.expires

\* Store.Resolve, under the mutex: an expired session is removed, and no
\* matter if that is saved.
Resolve(r) ==
    /\ request[r].pc = "resolve"
    /\ LET t == request[r].token
           at == request[r].at
       IN  \/ /\ sessions[t] # NoSession
              /\ Live(sessions[t], at)
              /\ request' = [request EXCEPT ![r] =
                    [pc |-> "trust", token |-> t, at |-> at,
                     device |-> sessions[t].device, key |-> sessions[t].key]]
              /\ UNCHANGED sessions
           \/ /\ sessions[t] # NoSession
              /\ ~Live(sessions[t], at)
              /\ request' = [request EXCEPT ![r] = Idle]
              /\ SaveSessions(Without(t))
           \/ /\ sessions[t] = NoSession \/ "load" \in Faults
              /\ request' = [request EXCEPT ![r] = Idle]
              /\ UNCHANGED sessions
    /\ UNCHANGED <<trustVars, puts, seen, accepted>>

\* Variant: an entry of the registry is enough, revoked or not.
EverTrusted(q) ==
    /\ registry[Account][q.device] # NoDevice
    /\ registry[Account][q.device].key = q.key

PeerTrusted(q) == IsTrusted(Account, q.device, q.key)

\* TrustedPeerResolver.  A registry that cannot be read counts as no.
AskTrust(r) ==
    /\ request[r].pc = "trust"
    /\ \/ /\ PeerTrusted(request[r])
          /\ request' = [request EXCEPT ![r].pc = "body"]
       \/ /\ ~PeerTrusted(request[r]) \/ "load" \in Faults
          /\ request' = [request EXCEPT ![r] = Idle]
    /\ UNCHANGED <<trustVars, sessions, puts, seen, accepted>>

\* Variant: the signature is verified, but by whom is not compared.
SignedByAnyone(q, proof) == TRUE

\* VerifySignedRecord: the record and its proof name the session's device, and
\* the proof is made with the session's key.
SignedBy(q, proof) == proof.device = q.device /\ proof.key = q.key

\* The body is read and its record is ingested, or is refused.
Ingest(r) ==
    /\ request[r].pc = "body"
    /\ request' = [request EXCEPT ![r] = Idle]
    /\ \E proof \in Pairing :
          accepted' = IF SignedBy(request[r], proof)
                      THEN accepted \cup {proof} ELSE accepted
    /\ UNCHANGED <<trustVars, sessions, puts, seen>>

-----------------------------------------------------------------------------

\* A step of the trust stores, as the histories of the requests see it.
ChangeTrust ==
    /\ TrustChange
    /\ seen' = [r \in Requests |-> IF request[r] = Idle THEN seen[r]
                                   ELSE seen[r] \cup TrustedPeers']
    /\ UNCHANGED <<sessions, request, puts, accepted>>

\* The process starts again with the files; the session file is not synced
\* before the rename, so after a power failure it may be empty, which counts
\* as no session.
RestartNode ==
    /\ Restart
    /\ sessions' \in {sessions, NoSessions}
    /\ request' = [r \in Requests |-> Idle]
    /\ UNCHANGED <<puts, seen, accepted>>

Next ==
    \/ ChangeTrust
    \/ \E t \in Tokens, p \in Pairing, life \in 0 .. MaxLife : Put(t, p, life)
    \/ \E r \in Requests : \/ StartRequest(r)
                           \/ Resolve(r)
                           \/ AskTrust(r)
                           \/ Ingest(r)
    \/ RestartNode

Spec == Init /\ [][Next]_vars

-----------------------------------------------------------------------------
(* Properties.                                                             *)

\* Every variable holds what the Go types can hold.
TypeOK ==
    /\ TrustTypeOK
    /\ sessions \in [Tokens -> Session \cup {NoSession}]
    /\ request \in [Requests -> Request]
    /\ puts \subseteq [token: Tokens, session: Session]
    /\ seen \in [Requests -> SUBSET Pairing]
    /\ accepted \subseteq Pairing

\* A token stands for the peer it was given to, until it expires: what a
\* request resolves to was put under the request's token, and had not expired
\* when the request began; a renewal or an expiry beside it does not matter.
ResolvedInTime ==
    \A r \in Requests : request[r].pc \in {"trust", "body"} =>
        \E u \in puts : /\ u.token = request[r].token
                        /\ u.session.device = request[r].device
                        /\ u.session.key = request[r].key
                        /\ request[r].at < u.session.expires

\* trusted_peer_resolver.go: "A valid bearer session is insufficient when the
\* durable trust registry does not authorize the exact device key."  A request
\* that begins after a revocation, and before any new approval, gets no further.
NoRequestAfterRevocation ==
    \A r \in Requests : request[r].pc = "body" =>
        [device |-> request[r].device, key |-> request[r].key] \in seen[r]

\* From pairing to record: every record taken in was signed with a key that the
\* account approved for its origin, that the origin proved to have by answering
\* a challenge, and that a session was put for.
AcceptedIsEntitled ==
    \A p \in accepted :
        /\ [account |-> Account, device |-> p.device, key |-> p.key] \in approved
        /\ \E g \in granted : g.device = p.device /\ g.key = p.key
        /\ \E u \in puts : u.session.device = p.device /\ u.session.key = p.key

\* A session is lost only when it has expired, or with the whole file in a
\* restart; another one's login, request or expiry does not end it.
SessionsEndWhenExpired ==
    [][\A t \in Tokens :
          (sessions[t] # NoSession /\ sessions'[t] = NoSession) =>
             now >= sessions[t].expires \/ RestartNode
      ]_vars

\* What a request q has, with s the peers that were trusted while it ran.
RequestFits(q, s) ==
    q # Idle =>
       /\ q.at <= now
       /\ TrustedPeers \subseteq s
       /\ q.pc \in {"trust", "body"} =>
             \E u \in puts : /\ u.token = q.token
                             /\ u.session.device = q.device
                             /\ u.session.key = q.key
                             /\ q.at < u.session.expires
       /\ q.pc = "body" =>
             /\ [device |-> q.device, key |-> q.key] \in s
             /\ [account |-> Account, device |-> q.device, key |-> q.key]
                   \in approved
             /\ \E g \in granted : g.device = q.device /\ g.key = q.key

\* The session file holds what was put.
FileInv ==
    \A t \in Tokens : sessions[t] # NoSession =>
        [token |-> t, session |-> sessions[t]] \in puts

\* The inductive invariant: clock readings are not in the future, the file
\* holds what was put, and what passed the registry was approved.
SessionsInv ==
    /\ TypeOK
    /\ TrustInv
    /\ FileInv
    /\ \A r \in Requests : RequestFits(request[r], seen[r])
    /\ AcceptedIsEntitled
=============================================================================
