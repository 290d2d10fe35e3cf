-------------------------- MODULE SecurePeersProofs --------------------------
(***************************************************************************)
(* Proofs about SecurePeers for every number of sessions and runners and   *)
(* every length of sequence the code allows.                               *)
(***************************************************************************)
EXTENDS SecurePeers, DeviceTrustProofs

\* The values that stand for "no session" and "no sequence" are told apart from
\* the others by their tag.
LEMMA Tags == NoSession.state = "none" /\ Idle.pc = "idle"
  BY DEF NoSession, Idle

\* A session with a peer has a device and a key.
LEMMA SessionFields ==
    ASSUME TypeOK, NEW s \in Sessions, session[s] # NoSession
    PROVE  /\ session[s] \in Peer
           /\ session[s].device \in Devices
           /\ session[s].key \in Keys
  BY DEF TypeOK, Session, Peer

\* A busy runner has a session and a place in its sequence.
LEMMA RunnerFields ==
    ASSUME TypeOK, NEW r \in Runners, runner[r] # Idle
    PROVE  /\ runner[r] \in Sequence
           /\ runner[r].session \in Sessions
           /\ runner[r].done \in 0 .. MaxOps - 1
           /\ runner[r].total \in 1 .. MaxOps
  BY DEF TypeOK, Runner, Sequence

\* Grants and approvals are never taken back.
LEMMA HistoriesGrow ==
    ASSUME TrustNext
    PROVE  granted \subseteq granted' /\ approved \subseteq approved'
  BY DEF TrustNext, TrustChange, Issue, VerifyAndConsumePairing, Authorize,
         Revoke, Tick, Restart

\* A runner that moves on within its sequence keeps its session.
LEMMA SequenceMoves ==
    ASSUME NEW old \in Sequence, NEW pc \in {"check", "begin", "running"}
    PROVE  /\ [old EXCEPT !.pc = pc] \in Runner
           /\ [old EXCEPT !.pc = pc].session = old.session
           /\ [old EXCEPT !.pc = pc].pc = pc
  <1>1. [old EXCEPT !.pc = pc] \in Sequence
    BY DEF Sequence
  <1>2. /\ [old EXCEPT !.pc = pc].session = old.session
        /\ [old EXCEPT !.pc = pc].pc = pc
    BY DEF Sequence
  <1>3. QED
    BY <1>1, <1>2 DEF Runner

\* So does one that goes to the checkpoint of its next operation.
LEMMA SequenceGoesOn ==
    ASSUME NEW old \in Sequence, NEW n \in 0 .. MaxOps - 1
    PROVE  LET new == [old EXCEPT !.pc = "check", !.done = n]
           IN  new \in Runner /\ new.session = old.session /\ new.pc = "check"
  <1> DEFINE new == [old EXCEPT !.pc = "check", !.done = n]
  <1>1. new \in Sequence
    BY DEF Sequence
  <1>2. new.session = old.session /\ new.pc = "check"
    BY DEF Sequence
  <1>3. QED
    BY <1>1, <1>2 DEF Runner

\* A session of the registry's past stays earned while the histories grow.
LEMMA EarnedPeersStay ==
    ASSUME PeersAreEarned, UNCHANGED session,
           granted \subseteq granted', approved \subseteq approved'
    PROVE  PeersAreEarned'
  BY DEF PeersAreEarned

\* A peer that keeps its device and key stays earned.
LEMMA EarnedPeersKept ==
    ASSUME PeersAreEarned, UNCHANGED <<granted, approved>>,
           \A s \in Sessions : session'[s] # NoSession =>
              /\ session[s] # NoSession
              /\ session'[s].device = session[s].device
              /\ session'[s].key = session[s].key
    PROVE  PeersAreEarned'
  <1>1. ASSUME NEW s \in Sessions, session'[s] # NoSession
        PROVE  /\ [account |-> Account, device |-> session'[s].device,
                   key |-> session'[s].key] \in approved'
               /\ \E g \in granted' : /\ g.device = session'[s].device
                                      /\ g.key = session'[s].key
    <2>1. /\ session[s] # NoSession
          /\ session'[s].device = session[s].device
          /\ session'[s].key = session[s].key
      BY <1>1
    <2>2. /\ [account |-> Account, device |-> session[s].device,
              key |-> session[s].key] \in approved
          /\ \E g \in granted : /\ g.device = session[s].device
                                /\ g.key = session[s].key
      BY <2>1 DEF PeersAreEarned
    <2>3. QED
      BY <2>1, <2>2
  <1>2. QED
    BY <1>1 DEF PeersAreEarned

\* A node that has just started has no peers and no sequences.
LEMMA PeersInit == Init => PeersInv
  <1> SUFFICES ASSUME Init PROVE PeersInv
    OBVIOUS
  <1>1. TrustInv /\ TrustTypeOK
    BY TrustInvInit DEF Init, TrustInv
  <1>2. TypeOK
    BY <1>1 DEF Init, TypeOK, Session, Runner
  <1>3. QED
    BY <1>1, <1>2 DEF Init, PeersInv, RunnersHavePeers, PeersAreEarned,
                      AtMostOneLateOperation

\* Changes of trust move no session and no runner, and forgive a late operation
\* only by making its key trusted.
LEMMA ChangeTrustStep ==
    ASSUME PeersInv, ChangeTrust
    PROVE  PeersInv'
  <1>1. TrustNext /\ UNCHANGED <<session, runner>>
    BY DEF ChangeTrust, TrustNext
  <1>2. TrustInv' /\ TrustTypeOK'
    BY <1>1, TrustInvStep DEF PeersInv, TrustInv
  <1>3. late' = [r \in Runners |->
           IF runner[r] # Idle /\ Current(r)' THEN 0 ELSE late[r]]
    BY DEF ChangeTrust
  <1>4. lapsed' \in [Runners -> BOOLEAN]
    BY DEF ChangeTrust, PeersInv, TypeOK
  <1>5. TypeOK'
    BY <1>1, <1>2, <1>3, <1>4 DEF PeersInv, TypeOK
  <1>6. PeersAreEarned'
    BY <1>1, HistoriesGrow, EarnedPeersStay DEF PeersInv
  <1>7. RunnersHavePeers'
    BY <1>1 DEF PeersInv, RunnersHavePeers
  <1>8. AtMostOneLateOperation'
    BY <1>3 DEF PeersInv, AtMostOneLateOperation
  <1>9. \A r \in Runners :
          (runner'[r] # Idle /\ (Current(r)' \/ runner'[r].pc = "begin"))
          => late'[r] = 0
    BY <1>1, <1>3 DEF PeersInv
  <1>10. QED
    BY <1>2, <1>5, <1>6, <1>7, <1>8, <1>9 DEF PeersInv

\* What the trust stores say does not change in the steps of sessions.
LEMMA TrustStays ==
    ASSUME PeersInv, UNCHANGED trustVars
    PROVE  /\ TrustInv' /\ TrustTypeOK'
           /\ \A a, d, k : IsTrusted(a, d, k)' <=> IsTrusted(a, d, k)
           /\ UNCHANGED <<granted, approved>>
  <1>1. TrustInv'
    BY TrustInvStep DEF PeersInv
  <1>2. QED
    BY <1>1 DEF trustVars, TrustInv, IsTrusted, Active

\* A step that changes one session, which no runner works on, and nothing else.
LEMMA SessionStep ==
    ASSUME PeersInv, UNCHANGED <<trustVars, runner, late, lapsed>>,
           NEW s \in Sessions, NEW new \in Session,
           session' = [session EXCEPT ![s] = new],
           \A r \in Runners : runner[r] # Idle => runner[r].session # s,
           new # NoSession =>
              /\ [account |-> Account, device |-> new.device, key |-> new.key]
                    \in approved
              /\ \E g \in granted : g.device = new.device /\ g.key = new.key
    PROVE  PeersInv'
  <1>1. /\ TrustInv' /\ TrustTypeOK'
        /\ \A a, d, k : IsTrusted(a, d, k)' <=> IsTrusted(a, d, k)
        /\ UNCHANGED <<granted, approved>>
    BY TrustStays
  <1>2. TypeOK'
    BY <1>1 DEF PeersInv, TypeOK
  <1>3. \A r \in Runners : runner[r] # Idle =>
          session'[runner[r].session] = session[runner[r].session]
    BY RunnerFields DEF PeersInv, TypeOK
  <1>4. RunnersHavePeers' /\ AtMostOneLateOperation'
    BY <1>3 DEF PeersInv, RunnersHavePeers, AtMostOneLateOperation
  <1>5. PeersAreEarned'
    BY <1>1 DEF PeersInv, PeersAreEarned, TypeOK
  <1>6. \A r \in Runners :
          (runner'[r] # Idle /\ (Current(r)' \/ runner'[r].pc = "begin"))
          => late'[r] = 0
    BY <1>1, <1>3 DEF PeersInv, Current, PeerOf
  <1>7. QED
    BY <1>1, <1>2, <1>4, <1>5, <1>6 DEF PeersInv

\* A peer is resolved from an entry the account has earned.
LEMMA ResolveStep ==
    ASSUME PeersInv, NEW s \in Sessions, ResolveIdentities(s)
    PROVE  PeersInv'
  <1>1. PICK d \in Devices, k \in Keys :
          /\ IsTrusted(Account, d, k)
          /\ session' = [session EXCEPT ![s] =
                [state |-> "resolved", device |-> d, key |-> k]]
    BY DEF ResolveIdentities, Resolvable
  <1>2. [state |-> "resolved", device |-> d, key |-> k] \in Session
    BY DEF Session, Peer
  <1>3. /\ [account |-> Account, device |-> d, key |-> k] \in approved
        /\ \E g \in granted : g.device = d /\ g.key = k
    BY <1>1, PeersAssumption
       DEF PeersInv, TrustInv, TrustIsEarned, IsTrusted, Active, PeersAssumption
  <1>4. \A r \in Runners : runner[r] # Idle => runner[r].session # s
    BY Tags DEF ResolveIdentities, PeersInv, RunnersHavePeers
  <1>5. UNCHANGED <<trustVars, runner, late, lapsed>>
    BY DEF ResolveIdentities
  <1>6. QED
    BY <1>1, <1>2, <1>3, <1>4, <1>5, SessionStep

\* Admission keeps the resolved device and key, or drops them.
LEMMA UpgradeStep ==
    ASSUME PeersInv, NEW s \in Sessions, UpgradeSecurePeer(s)
    PROVE  PeersInv'
  <1>1. session[s] # NoSession /\ session[s] \in Peer
    BY Tags, SessionFields DEF UpgradeSecurePeer, PeersInv
  <1>2. PICK new \in Session :
          /\ session' = [session EXCEPT ![s] = new]
          /\ new # NoSession => /\ new.device = session[s].device
                                /\ new.key = session[s].key
    <2>1. CASE session' = [session EXCEPT ![s] = NoSession]
      BY <2>1 DEF Session
    <2>2. CASE session' = [session EXCEPT ![s].state = "open"]
      <3>1. /\ [session[s] EXCEPT !.state = "open"] \in Session
            /\ [session[s] EXCEPT !.state = "open"].device = session[s].device
            /\ [session[s] EXCEPT !.state = "open"].key = session[s].key
        BY <1>1 DEF Session, Peer
      <3>2. QED
        BY <2>2, <3>1
    <2>3. QED
      BY <2>1, <2>2 DEF UpgradeSecurePeer
  <1>3. \A r \in Runners : runner[r] # Idle => runner[r].session # s
    BY DEF UpgradeSecurePeer, PeersInv, RunnersHavePeers
  <1>4. UNCHANGED <<trustVars, runner, late, lapsed>>
    BY DEF UpgradeSecurePeer
  <1>5. /\ [account |-> Account, device |-> session[s].device,
            key |-> session[s].key] \in approved
        /\ \E g \in granted : /\ g.device = session[s].device
                              /\ g.key = session[s].key
    BY <1>1 DEF PeersInv, PeersAreEarned
  <1>6. new # NoSession =>
          /\ [account |-> Account, device |-> new.device, key |-> new.key]
                \in approved
          /\ \E g \in granted : g.device = new.device /\ g.key = new.key
    BY <1>2, <1>5
  <1>7. QED
    BY <1>2, <1>3, <1>4, <1>6, SessionStep

\* A peer is released when no sequence works on it.
LEMMA ReleaseStep ==
    ASSUME PeersInv, NEW s \in Sessions, Release(s)
    PROVE  PeersInv'
  <1>1. NoSession \in Session
    BY DEF Session
  <1>2. QED
    BY <1>1, SessionStep DEF Release

\* A step of one runner, which may close the peer it works on.
LEMMA RunnerStep ==
    ASSUME PeersInv, UNCHANGED trustVars,
           NEW r \in Runners, NEW new \in Runner,
           runner' = [runner EXCEPT ![r] = new],
           session' \in {session,
              [session EXCEPT ![runner[r].session].state = "closed"]},
           session' # session => runner[r] # Idle,
           late' \in [Runners -> Nat], lapsed' \in [Runners -> BOOLEAN],
           \A p \in Runners : p # r => late'[p] = late[p],
           late'[r] <= 1,
           new # Idle =>
              /\ session[new.session].state \in {"open", "closed"}
              /\ (IsTrusted(Account, session[new.session].device,
                            session[new.session].key)
                  \/ new.pc = "begin") => late'[r] = 0
    PROVE  PeersInv'
  <1>1. /\ TrustInv' /\ TrustTypeOK'
        /\ \A a, d, k : IsTrusted(a, d, k)' <=> IsTrusted(a, d, k)
        /\ UNCHANGED <<granted, approved>>
    BY TrustStays
  <1>2. ASSUME session' # session
        PROVE  LET s == runner[r].session
               IN  /\ s \in Sessions
                   /\ session[s] \in Peer
                   /\ session' = [session EXCEPT ![s] =
                                     [session[s] EXCEPT !.state = "closed"]]
    <2>1. runner[r] # Idle
      BY <1>2
    <2>2. runner[r].session \in Sessions
      BY <2>1, RunnerFields DEF PeersInv
    <2>3. session[runner[r].session].state \in {"open", "closed"}
      BY <2>1 DEF PeersInv, RunnersHavePeers
    <2>4. session[runner[r].session] \in Peer
      BY <2>2, <2>3, Tags, SessionFields DEF PeersInv
    <2>5. QED
      BY <1>2, <2>2, <2>4
  <1>3. /\ session' \in [Sessions -> Session]
        /\ \A s \in Sessions :
             \/ session'[s] = session[s]
             \/ /\ session[s] \in Peer
                /\ session[s].state \in {"open", "closed"}
                /\ session'[s] = [session[s] EXCEPT !.state = "closed"]
    <2>1. CASE session' = session
      BY <2>1 DEF PeersInv, TypeOK
    <2>2. CASE session' # session
      <3> DEFINE s == runner[r].session
      <3>1. /\ s \in Sessions /\ session[s] \in Peer
            /\ session' = [session EXCEPT ![s] =
                              [session[s] EXCEPT !.state = "closed"]]
        BY <1>2, <2>2
      <3>2. session[s].state \in {"open", "closed"}
        BY <2>2 DEF PeersInv, RunnersHavePeers
      <3>3. [session[s] EXCEPT !.state = "closed"] \in Session
        BY <3>1 DEF Session, Peer
      <3>4. QED
        BY <3>1, <3>2, <3>3 DEF PeersInv, TypeOK
    <2>3. QED
      BY <2>1, <2>2
  <1>4. \A s \in Sessions :
          /\ session'[s] # NoSession => session[s] # NoSession
          /\ session'[s] # NoSession => /\ session'[s].device = session[s].device
                                        /\ session'[s].key = session[s].key
          /\ session[s].state \in {"open", "closed"} =>
                /\ session'[s].state \in {"open", "closed"}
                /\ session'[s].device = session[s].device
                /\ session'[s].key = session[s].key
    BY <1>3, Tags DEF Peer
  <1>5. TypeOK'
    BY <1>1, <1>3 DEF PeersInv, TypeOK
  <1>6. ASSUME NEW p \in Runners, runner'[p] # Idle
        PROVE  /\ runner'[p].session \in Sessions
               /\ session[runner'[p].session].state \in {"open", "closed"}
               /\ (IsTrusted(Account, session[runner'[p].session].device,
                             session[runner'[p].session].key)
                   \/ runner'[p].pc = "begin") => late'[p] = 0
    <2>1. runner'[p].session \in Sessions
      BY <1>5, <1>6 DEF TypeOK, Runner, Sequence
    <2>2. CASE p = r
      BY <1>6, <2>1, <2>2 DEF PeersInv, TypeOK
    <2>3. CASE p # r
      <3>1. runner'[p] = runner[p] /\ late'[p] = late[p]
        BY <2>3 DEF PeersInv, TypeOK
      <3>2. QED
        BY <1>6, <2>1, <3>1 DEF PeersInv, RunnersHavePeers, Current, PeerOf
    <2>4. QED
      BY <2>2, <2>3
  <1>7. RunnersHavePeers'
    BY <1>4, <1>6 DEF RunnersHavePeers
  <1>8. PeersAreEarned'
    <2>1. PeersAreEarned
      BY DEF PeersInv
    <2>2. QED
      BY <2>1, <1>1, <1>4, EarnedPeersKept
  <1>9. AtMostOneLateOperation'
    BY DEF PeersInv, AtMostOneLateOperation
  <1>10. \A p \in Runners :
           (runner'[p] # Idle /\ (Current(p)' \/ runner'[p].pc = "begin"))
           => late'[p] = 0
    BY <1>1, <1>4, <1>6 DEF Current, PeerOf
  <1>11. QED
    BY <1>1, <1>5, <1>7, <1>8, <1>9, <1>10 DEF PeersInv

\* Starting, checking, beginning and ending keep the invariant: a checkpoint
\* passes only while the key is trusted, and then no operation is late.
LEMMA RunStep ==
    ASSUME PeersInv, NEW r \in Runners, Run(r)
    PROVE  PeersInv'
  <1>1. TypeOK /\ late[r] \in Nat /\ late[r] <= 1
    BY DEF PeersInv, TypeOK, AtMostOneLateOperation
  <1>2. CASE StartSequence(r)
    <2>1. PICK s \in Sessions, n \in 1 .. MaxOps :
            /\ session[s].state \in {"open", "closed"}
            /\ runner' = [runner EXCEPT ![r] =
                  [pc |-> "check", session |-> s, done |-> 0, total |-> n]]
      BY <1>2 DEF StartSequence
    <2>2. [pc |-> "check", session |-> s, done |-> 0, total |-> n] \in Runner
      BY PeersAssumption DEF Runner, Sequence, PeersAssumption
    <2>3. /\ late' = [late EXCEPT ![r] = 0]
          /\ lapsed' = [lapsed EXCEPT ![r] = FALSE]
          /\ UNCHANGED <<trustVars, session>>
      BY <1>2 DEF StartSequence
    <2>4. /\ late' \in [Runners -> Nat] /\ late'[r] = 0
          /\ lapsed' \in [Runners -> BOOLEAN]
          /\ \A p \in Runners : p # r => late'[p] = late[p]
      BY <1>1, <2>3 DEF TypeOK
    <2>5. PICK new \in Runner :
            /\ new = [pc |-> "check", session |-> s, done |-> 0, total |-> n]
            /\ new.session = s
      BY <2>2
    <2>6. /\ runner' = [runner EXCEPT ![r] = new]
          /\ session' = session /\ UNCHANGED trustVars
      BY <2>1, <2>3, <2>5
    <2>7. /\ session[new.session].state \in {"open", "closed"}
          /\ late'[r] = 0 /\ late'[r] <= 1
      BY <2>1, <2>4, <2>5
    <2>8. QED
      BY <2>4, <2>6, <2>7, RunnerStep
  <1>3. CASE ~StartSequence(r)
    <2> DEFINE old == runner[r]
    <2>1. old # Idle
      BY <1>3, Tags
         DEF Run, RevalidatePeer, BeginOperation, EndOperation
    <2>2. /\ old \in Sequence /\ old.done \in 0 .. MaxOps - 1
          /\ old.total \in 1 .. MaxOps
      BY <1>1, <2>1, RunnerFields
    <2>3. session[old.session].state \in {"open", "closed"}
      BY <2>1 DEF PeersInv, RunnersHavePeers
    <2>4. Idle \in Runner
      BY DEF Runner
    <2>5. CASE RevalidatePeer(r)
      <3>1. UNCHANGED <<trustVars, late, lapsed>>
        BY <2>5 DEF RevalidatePeer
      <3>2. CASE Current(r) /\ runner' = [runner EXCEPT ![r].pc = "begin"]
                            /\ UNCHANGED session
        <4>1. PICK new \in Runner : /\ new = [old EXCEPT !.pc = "begin"]
                                    /\ new.session = old.session
          BY <2>2, SequenceMoves
        <4>2. late[r] = 0
          BY <2>1, <3>2 DEF PeersInv
        <4>3. QED
          BY <1>1, <2>1, <2>3, <3>1, <3>2, <4>1, <4>2, RunnerStep DEF TypeOK
      <3>3. CASE /\ runner' = [runner EXCEPT ![r] = Idle]
                 /\ session' = [session EXCEPT ![old.session].state = "closed"]
        BY <1>1, <2>1, <2>4, <3>1, <3>3, RunnerStep DEF TypeOK
      <3>4. QED
        BY <2>5, <3>2, <3>3 DEF RevalidatePeer, TrustConfirmed
    <2>6. CASE BeginOperation(r)
      <3>1. /\ old.pc = "begin"
            /\ runner' = [runner EXCEPT ![r].pc = "running"]
            /\ late' = [late EXCEPT ![r] = IF Current(r) THEN 0 ELSE @ + 1]
            /\ UNCHANGED <<trustVars, session, lapsed>>
        BY <2>6 DEF BeginOperation
      <3>2. late[r] = 0
        BY <2>1, <3>1 DEF PeersInv
      <3>3. /\ late' \in [Runners -> Nat]
            /\ late'[r] = IF Current(r) THEN 0 ELSE 1
            /\ \A p \in Runners : p # r => late'[p] = late[p]
        BY <1>1, <3>1, <3>2 DEF TypeOK
      <3>4. PICK new \in Runner : /\ new = [old EXCEPT !.pc = "running"]
                                  /\ new.session = old.session
                                  /\ new.pc = "running"
        BY <2>2, SequenceMoves
      <3>5. IsTrusted(Account, session[new.session].device, session[new.session].key)
              => late'[r] = 0
        BY <3>3, <3>4 DEF Current, PeerOf
      <3>6. late'[r] <= 1
        BY <3>3
      <3>7. QED
        BY <1>1, <2>1, <2>3, <3>1, <3>3, <3>4, <3>5, <3>6, RunnerStep DEF TypeOK
    <2>7. CASE EndOperation(r)
      <3>1. /\ UNCHANGED <<trustVars, late, lapsed>>
            /\ session' \in {session,
                  [session EXCEPT ![old.session].state = "closed"]}
        BY <2>7 DEF EndOperation
      <3>2. CASE runner' = [runner EXCEPT ![r] = Idle]
        BY <1>1, <2>1, <2>4, <3>1, <3>2, RunnerStep DEF TypeOK
      <3>3. CASE /\ old.done + 1 < old.total
                 /\ runner' = [runner EXCEPT ![r].pc = "check", ![r].done = @ + 1]
        <4>1. PICK n \in 0 .. MaxOps - 1 : n = old.done + 1
          BY <2>2, <3>3, PeersAssumption DEF PeersAssumption
        <4>2. PICK new \in Runner :
                /\ new = [old EXCEPT !.pc = "check", !.done = n]
                /\ new.session = old.session
                /\ new.pc = "check"
          BY <2>2, SequenceGoesOn
        <4>3. runner' = [runner EXCEPT ![r] = new]
          BY <3>3, <4>1, <4>2
        <4>4. Current(r) => late[r] = 0
          BY <2>1 DEF PeersInv
        <4>5. QED
          BY <1>1, <2>1, <2>3, <3>1, <4>2, <4>3, <4>4, RunnerStep
             DEF TypeOK, Current, PeerOf
      <3>4. QED
        BY <2>7, <3>2, <3>3 DEF EndOperation, MoreOperations
    <2>8. QED
      BY <1>3, <2>5, <2>6, <2>7 DEF Run
  <1>4. QED
    BY <1>2, <1>3

\* A restart leaves the registry and no peers.
LEMMA RestartNodeStep ==
    ASSUME PeersInv, RestartNode
    PROVE  PeersInv'
  <1>1. /\ Restart
        /\ session' = [s \in Sessions |-> NoSession]
        /\ runner' = [r \in Runners |-> Idle]
        /\ late' = [r \in Runners |-> 0]
        /\ lapsed' = [r \in Runners |-> FALSE]
    BY DEF RestartNode
  <1>2. TrustInv' /\ TrustTypeOK'
    BY <1>1, TrustInvStep DEF PeersInv, TrustInv, TrustNext
  <1>3. TypeOK'
    BY <1>1, <1>2 DEF TypeOK, Session, Runner
  <1>4. QED
    BY <1>1, <1>2, <1>3 DEF PeersInv, RunnersHavePeers, PeersAreEarned,
                            AtMostOneLateOperation

\* The invariant of peers and sequences is inductive.
LEMMA PeersStep == PeersInv /\ [Next]_vars => PeersInv'
  <1> SUFFICES ASSUME PeersInv, [Next]_vars
               PROVE  PeersInv'
    OBVIOUS
  <1>1. CASE UNCHANGED vars
    <2>1. UNCHANGED trustVars /\ UNCHANGED <<session, runner, late, lapsed>>
      BY <1>1 DEF vars, peerVars
    <2>2. /\ TrustInv' /\ TrustTypeOK'
          /\ \A a, d, k : IsTrusted(a, d, k)' <=> IsTrusted(a, d, k)
          /\ UNCHANGED <<granted, approved>>
      BY <2>1, TrustStays
    <2>3. QED
      BY <2>1, <2>2 DEF PeersInv, TypeOK, RunnersHavePeers, PeersAreEarned,
                        AtMostOneLateOperation, Current, PeerOf
  <1>2. QED
    BY <1>1, ChangeTrustStep, ResolveStep, UpgradeStep, ReleaseStep, RunStep,
       RestartNodeStep DEF Next

\* The invariant holds of every behaviour of a node.
THEOREM PeersHold == Spec => []PeersInv
  BY PeersInit, PeersStep, PTL DEF Spec

\* Peers, runners and trust stores keep their types.
THEOREM PeersTyped == Spec => []TypeOK
  <1>1. PeersInv => TypeOK
    BY DEF PeersInv
  <1>2. QED
    BY <1>1, PeersHold, PTL

\* After a revocation each running sequence begins at most one operation.
THEOREM OneLateOperation == Spec => []AtMostOneLateOperation
  <1>1. PeersInv => AtMostOneLateOperation
    BY DEF PeersInv
  <1>2. QED
    BY <1>1, PeersHold, PTL

\* Every admitted peer was paired, and approved by this node's account.
THEOREM AdmittedPeersAreEarned == Spec => []PeersAreEarned
  <1>1. PeersInv => PeersAreEarned
    BY DEF PeersInv
  <1>2. QED
    BY <1>1, PeersHold, PTL
=============================================================================
