-------------------------- MODULE DeviceTrustProofs --------------------------
(***************************************************************************)
(* Proofs about DeviceTrust for every set of accounts, devices, keys and   *)
(* challenges, any time to live, with failing saves and restarts.          *)
(***************************************************************************)
EXTENDS DeviceTrust, TLAPS

\* The clock starts after the value that stands for "never".
LEMMA TrustInvInit == TrustInit => TrustInv
  BY TrustAssumption
     DEF TrustAssumption, TrustInit, TrustInv, TrustTypeOK, ChallengesPairOnce,
         PairedInTime, TrustIsEarned

\* What a history of grants and approvals lets a registry hold stays earned
\* when the histories grow and the registry stays.
LEMMA EarnedGrows ==
    ASSUME TrustIsEarned, UNCHANGED registry,
           granted \subseteq granted', approved \subseteq approved'
    PROVE  TrustIsEarned'
  BY DEF TrustIsEarned

\* Issue puts in a nonce that nobody was ever given.
LEMMA IssueStep ==
    ASSUME TrustInv, Issue
    PROVE  TrustInv'
  <1>1. PICK n \in Nonces :
          /\ issuedAt[n] = 0
          /\ challenge' = [challenge EXCEPT ![n] = now + TTL]
          /\ issuedAt' = [issuedAt EXCEPT ![n] = now]
    BY DEF Issue
  <1>2. UNCHANGED <<now, pairings, registry, granted, approved>>
    BY DEF Issue
  <1>3. \A g \in granted : g.nonce \in Nonces /\ g.nonce # n
    BY <1>1 DEF TrustInv, TrustTypeOK, PairedInTime
  <1>4. TrustTypeOK'
    BY <1>1, <1>2, TrustAssumption DEF TrustInv, TrustTypeOK, TrustAssumption
  <1>5. \A m \in Nonces : issuedAt'[m] <= now'
    BY <1>1, <1>2 DEF TrustInv, TrustTypeOK
  <1>6. ASSUME NEW m \in Nonces, challenge'[m] # 0
        PROVE  /\ issuedAt'[m] # 0
               /\ challenge'[m] = issuedAt'[m] + TTL
               /\ \A g \in granted' : g.nonce # m
    <2>1. CASE m = n
      <3>1. challenge'[m] = now + TTL /\ issuedAt'[m] = now
        BY <1>1, <2>1 DEF TrustInv, TrustTypeOK
      <3>2. now # 0
        BY DEF TrustInv
      <3>3. QED
        BY <1>2, <1>3, <2>1, <3>1, <3>2
    <2>2. CASE m # n
      BY <1>1, <1>2, <1>6, <2>2 DEF TrustInv, TrustTypeOK
    <2>3. QED
      BY <2>1, <2>2
  <1>7. PairedInTime'
    BY <1>1, <1>2, <1>3 DEF TrustInv, TrustTypeOK, PairedInTime
  <1>8. ChallengesPairOnce' /\ TrustIsEarned'
    BY <1>2, EarnedGrows DEF TrustInv, ChallengesPairOnce
  <1>9. QED
    BY <1>2, <1>4, <1>5, <1>6, <1>7, <1>8 DEF TrustInv

\* A proof takes its challenge out of the map, so no later one finds it.
LEMMA VerifyStep ==
    ASSUME TrustInv, NEW n \in Nonces, NEW p \in Pairing,
           VerifyAndConsumePairing(n, p)
    PROVE  TrustInv'
  <1> DEFINE grant == [nonce |-> n, device |-> p.device, key |-> p.key, at |-> now]
  <1>1. /\ challenge[n] # 0
        /\ challenge' = [challenge EXCEPT ![n] = 0]
        /\ UNCHANGED <<now, registry, issuedAt, approved>>
    BY DEF VerifyAndConsumePairing, Consumed
  <1>2. \/ /\ now < challenge[n]
           /\ pairings' = pairings \cup {p}
           /\ granted' = granted \cup {grant}
        \/ UNCHANGED <<pairings, granted>>
    BY DEF VerifyAndConsumePairing, InTime
  <1>3. /\ p.device \in Devices /\ p.key \in Keys
        /\ issuedAt[n] # 0 /\ challenge[n] = issuedAt[n] + TTL
        /\ issuedAt[n] <= now
        /\ \A g \in granted : g.nonce # n
    BY <1>1 DEF TrustInv, Pairing
  <1>4. TrustTypeOK'
    BY <1>1, <1>2, <1>3 DEF TrustInv, TrustTypeOK
  <1>5. ASSUME NEW m \in Nonces, challenge'[m] # 0
        PROVE  /\ issuedAt'[m] # 0
               /\ challenge'[m] = issuedAt'[m] + TTL
               /\ \A g \in granted' : g.nonce # m
    <2>1. m # n /\ challenge'[m] = challenge[m]
      BY <1>1, <1>5 DEF TrustInv, TrustTypeOK
    <2>2. QED
      BY <1>1, <1>2, <1>5, <2>1 DEF TrustInv
  <1>6. \A x \in pairings' : \E g \in granted' : g.device = x.device /\ g.key = x.key
    <2>1. CASE UNCHANGED <<pairings, granted>>
      BY <2>1 DEF TrustInv
    <2>2. CASE pairings' = pairings \cup {p} /\ granted' = granted \cup {grant}
      <3>1. grant \in granted' /\ grant.device = p.device /\ grant.key = p.key
        BY <2>2
      <3>2. \A x \in pairings : \E g \in granted : g.device = x.device /\ g.key = x.key
        BY DEF TrustInv
      <3>3. QED
        BY <2>2, <3>1, <3>2
    <2>3. QED
      BY <1>2, <2>1, <2>2
  <1>7. ChallengesPairOnce'
    BY <1>2, <1>3 DEF TrustInv, ChallengesPairOnce
  <1>8. PairedInTime'
    BY <1>1, <1>2, <1>3 DEF TrustInv, PairedInTime
  <1>9. TrustIsEarned'
    BY <1>1, <1>2, EarnedGrows DEF TrustInv
  <1>10. QED
    BY <1>1, <1>4, <1>5, <1>6, <1>7, <1>8, <1>9 DEF TrustInv

\* Authorize writes what the account approved of a pairing that was granted.
LEMMA AuthorizeStep ==
    ASSUME TrustInv, NEW a \in Accounts, NEW p \in Pairing, Authorize(a, p)
    PROVE  TrustInv'
  <1> DEFINE approval == [account |-> a, device |-> p.device, key |-> p.key]
             entry == [key |-> p.key, revoked |-> FALSE]
  <1>1. /\ p \in pairings
        /\ \/ registry' = [registry EXCEPT ![a][p.device] = entry]
           \/ registry' = registry
        /\ approved' = approved \cup {approval}
        /\ UNCHANGED <<now, challenge, pairings, issuedAt, granted>>
    BY DEF Authorize, Save, WithEntry
  <1>2. p.device \in Devices /\ p.key \in Keys /\ entry \in TrustedDevice
    BY DEF Pairing, TrustedDevice
  <1>3. TrustTypeOK'
    BY <1>1, <1>2 DEF TrustInv, TrustTypeOK
  <1>4. ASSUME NEW b \in Accounts, NEW d \in Devices, registry'[b][d] # NoDevice
        PROVE  /\ [account |-> b, device |-> d, key |-> registry'[b][d].key]
                    \in approved'
               /\ \E g \in granted' : g.device = d /\ g.key = registry'[b][d].key
    <2>1. CASE registry'[b][d] = registry[b][d]
      BY <1>1, <1>4, <2>1 DEF TrustInv, TrustIsEarned
    <2>2. CASE registry'[b][d] # registry[b][d]
      <3>1. b = a /\ d = p.device /\ registry'[b][d] = entry
        BY <1>1, <1>2, <2>2 DEF TrustInv, TrustTypeOK
      <3>2. QED
        BY <1>1, <3>1 DEF TrustInv
    <2>3. QED
      BY <2>1, <2>2
  <1>5. TrustIsEarned'
    BY <1>4 DEF TrustIsEarned
  <1>6. ChallengesPairOnce' /\ PairedInTime'
    BY <1>1 DEF TrustInv, ChallengesPairOnce, PairedInTime
  <1>7. QED
    BY <1>1, <1>3, <1>5, <1>6 DEF TrustInv

\* Revoke leaves device and key of an entry.
LEMMA RevokeStep ==
    ASSUME TrustInv, NEW a \in Accounts, NEW d \in Devices, Revoke(a, d)
    PROVE  TrustInv'
  <1>1. /\ registry[a][d] # NoDevice
        /\ \/ registry' = [registry EXCEPT ![a][d] = [@ EXCEPT !.revoked = TRUE]]
           \/ registry' = registry
        /\ UNCHANGED <<now, challenge, pairings, issuedAt, granted, approved>>
    BY DEF Revoke, Save, Active
  <1>2. registry[a][d] \in TrustedDevice
    BY <1>1 DEF TrustInv, TrustTypeOK
  <1>3. PICK entry \in TrustedDevice :
          /\ entry.key = registry[a][d].key
          /\ entry = [registry[a][d] EXCEPT !.revoked = TRUE]
    BY <1>2 DEF TrustedDevice
  <1>4. \/ registry' = [registry EXCEPT ![a][d] = entry]
        \/ registry' = registry
    BY <1>1, <1>3
  <1>5. TrustTypeOK'
    BY <1>1, <1>4 DEF TrustInv, TrustTypeOK
  <1>6. ASSUME NEW b \in Accounts, NEW x \in Devices, registry'[b][x] # NoDevice
        PROVE  /\ registry[b][x] # NoDevice
               /\ registry'[b][x].key = registry[b][x].key
    <2>1. CASE b = a /\ x = d
      <3>1. registry'[a][d] = entry \/ registry'[a][d] = registry[a][d]
        BY <1>4 DEF TrustInv, TrustTypeOK
      <3>2. registry'[a][d].key = registry[a][d].key
        BY <1>3, <3>1
      <3>3. QED
        BY <1>1, <2>1, <3>2
    <2>2. CASE ~(b = a /\ x = d)
      <3>1. registry'[b][x] = registry[b][x]
        BY <1>4, <2>2 DEF TrustInv, TrustTypeOK
      <3>2. QED
        BY <1>6, <3>1
    <2>3. QED
      BY <2>1, <2>2
  <1>7. TrustIsEarned'
    BY <1>1, <1>6 DEF TrustInv, TrustIsEarned
  <1>8. ChallengesPairOnce' /\ PairedInTime'
    BY <1>1 DEF TrustInv, ChallengesPairOnce, PairedInTime
  <1>9. QED
    BY <1>1, <1>5, <1>7, <1>8 DEF TrustInv

\* A restart drops challenges and pairings, and no memory of a nonce is needed.
LEMMA RestartStep ==
    ASSUME TrustInv, Restart
    PROVE  TrustInv'
  <1>1. /\ challenge' = [n \in Nonces |-> 0]
        /\ pairings' = {}
        /\ UNCHANGED <<now, registry, issuedAt, granted, approved>>
    BY DEF Restart
  <1>2. QED
    BY <1>1 DEF TrustInv, TrustTypeOK, ChallengesPairOnce, PairedInTime,
                TrustIsEarned

\* Time passes for everything at once.
LEMMA TickStep ==
    ASSUME TrustInv, Tick
    PROVE  TrustInv'
  <1>1. /\ now' = now + 1
        /\ UNCHANGED <<challenge, pairings, registry, issuedAt, granted, approved>>
    BY DEF Tick
  <1>2. QED
    BY <1>1 DEF TrustInv, TrustTypeOK, ChallengesPairOnce, PairedInTime,
                TrustIsEarned

\* The invariant is inductive.
LEMMA TrustInvStep == TrustInv /\ [TrustNext]_trustVars => TrustInv'
  <1> SUFFICES ASSUME TrustInv, [TrustNext]_trustVars
               PROVE  TrustInv'
    OBVIOUS
  <1>1. CASE UNCHANGED trustVars
    BY <1>1 DEF trustVars, TrustInv, TrustTypeOK, ChallengesPairOnce,
                PairedInTime, TrustIsEarned
  <1>2. QED
    BY <1>1, IssueStep, VerifyStep, AuthorizeStep, RevokeStep, TickStep,
       RestartStep DEF TrustNext, TrustChange

\* The pairing and trust invariant holds of every behaviour.
THEOREM TrustHolds == TrustSpec => []TrustInv
  BY TrustInvInit, TrustInvStep, PTL DEF TrustSpec

\* Pairing and the registry stay well-formed, through failed saves and restarts.
THEOREM TrustTyped == TrustSpec => []TrustTypeOK
  <1>1. TrustInv => TrustTypeOK
    BY DEF TrustInv
  <1>2. QED
    BY <1>1, TrustHolds, PTL

\* No challenge pairs twice, across expiry and restarts.
THEOREM OneTimeChallenges == TrustSpec => []ChallengesPairOnce
  <1>1. TrustInv => ChallengesPairOnce
    BY DEF TrustInv
  <1>2. QED
    BY <1>1, TrustHolds, PTL

\* No challenge pairs before it was issued or after its time to live.
THEOREM ChallengesExpire == TrustSpec => []PairedInTime
  <1>1. TrustInv => PairedInTime
    BY DEF TrustInv
  <1>2. QED
    BY <1>1, TrustHolds, PTL

\* Whatever the registry holds, its account approved and the device proved.
THEOREM TrustWasEarned == TrustSpec => []TrustIsEarned
  <1>1. TrustInv => TrustIsEarned
    BY DEF TrustInv
  <1>2. QED
    BY <1>1, TrustHolds, PTL

\* No step replaces the key of an active device.
THEOREM ActiveKeysAreKept == TrustSpec => ActiveKeyIsKept
  <1> DEFINE Kept == \A a \in Accounts, d \in Devices :
                (Active(a, d) /\ Active(a, d)') => registry'[a][d] = registry[a][d]
  <1>1. ASSUME TrustInv, TrustNext
        PROVE  Kept
    <2>1. CASE UNCHANGED registry
      BY <2>1
    <2>2. ASSUME NEW a \in Accounts, NEW p \in Pairing, Authorize(a, p)
          PROVE  Kept
      <3>1. ~Active(a, p.device) /\ p.device \in Devices
        BY <2>2 DEF Authorize, Writable, Pairing
      <3>2. \/ registry' = [registry EXCEPT ![a][p.device] =
                              [key |-> p.key, revoked |-> FALSE]]
            \/ registry' = registry
        BY <2>2 DEF Authorize, Save, WithEntry
      <3>3. QED
        BY <1>1, <3>1, <3>2 DEF TrustInv, TrustTypeOK
    <2>3. ASSUME NEW a \in Accounts, NEW d \in Devices, Revoke(a, d)
          PROVE  Kept
      <3>1. \/ registry' = [registry EXCEPT ![a][d].revoked = TRUE]
            \/ registry' = registry
        BY <2>3 DEF Revoke, Save
      <3>2. registry[a][d] \in TrustedDevice
        BY <1>1, <2>3 DEF Revoke, Active, TrustInv, TrustTypeOK
      <3>3. registry' # registry => registry'[a][d].revoked
        BY <1>1, <3>1, <3>2 DEF TrustInv, TrustTypeOK, TrustedDevice
      <3>4. registry' # registry => ~(registry'[a][d] # NoDevice /\ ~registry'[a][d].revoked)
        BY <3>3
      <3>5. \A b \in Accounts, x \in Devices :
              ~(b = a /\ x = d) => registry'[b][x] = registry[b][x]
        BY <1>1, <3>1 DEF TrustInv, TrustTypeOK
      <3>6. QED
        BY <3>4, <3>5 DEF Active
    <2>4. QED
      BY <1>1, <2>1, <2>2, <2>3
         DEF TrustNext, TrustChange, Issue, VerifyAndConsumePairing, Tick, Restart
  <1>2. TrustInv /\ [TrustNext]_trustVars => [Kept]_trustVars
    BY <1>1
  <1>3. QED
    BY <1>2, TrustHolds, PTL DEF TrustSpec, ActiveKeyIsKept
=============================================================================
