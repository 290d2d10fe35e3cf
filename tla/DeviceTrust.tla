----------------------------- MODULE DeviceTrust -----------------------------
(***************************************************************************)
(* How a device becomes trusted: the ChallengeStore hands out one-time     *)
(* pairing challenges, a proof that answers one yields a VerifiedPairing,  *)
(* and the TrustedDeviceStore turns verified pairings that an account      *)
(* approves into durable registry entries, or revokes them.                *)
(*                                                                         *)
(* Every operation runs under its store's mutex from its first read to its *)
(* save, so it is one action.  Challenges and verified pairings live in    *)
(* memory; the registry is a file, replaced by a synced rename.            *)
(*                                                                         *)
(* Proofs are taken to be verified: PairingProof.Verify has no effect when *)
(* it fails, and binds device, nonce and key when it succeeds.  A key      *)
(* stands for its encoding and its fingerprint, which are functions of it. *)
(***************************************************************************)
EXTENDS Naturals

CONSTANTS
    Accounts, Devices, Keys,
    Nonces,    \* challenges that may be drawn; a drawn one never recurs
    TTL,       \* ChallengeStore.ttl
    MaxTime,   \* the clock stops here
    NoDevice,  \* no registry entry
    Faults     \* what may go wrong: a subset of {"save", "load", "restart"}

Pairing == [device: Devices, key: Keys]
TrustedDevice == [key: Keys, revoked: BOOLEAN]

ASSUME TrustAssumption ==
    /\ TTL \in Nat \ {0}
    /\ MaxTime \in Nat
    /\ NoDevice \notin TrustedDevice
    /\ Faults \subseteq {"save", "load", "restart"}

VARIABLES
    now,         \* the clock of the node
    challenge,   \* ChallengeStore.challenges: expiry of a nonce; 0 is no entry
    pairings,    \* verified pairings that callers hold
    registry,    \* the trusted device file, per account and device
    issuedAt,    \* history: when a nonce was issued; 0 is never
    granted,     \* history: pairings granted, with the nonce and the instant
    approved     \* history: what each account called Authorize for

trustVars == <<now, challenge, pairings, registry, issuedAt, granted, approved>>

TrustInit ==
    /\ now = 1
    /\ challenge = [n \in Nonces |-> 0]
    /\ pairings = {}
    /\ registry = [a \in Accounts |-> [d \in Devices |-> NoDevice]]
    /\ issuedAt = [n \in Nonces |-> 0]
    /\ granted = {}
    /\ approved = {}

-----------------------------------------------------------------------------

\* Issue draws a nonce nobody has seen.
Issue ==
    /\ \E n \in Nonces :
          /\ issuedAt[n] = 0
          /\ challenge' = [challenge EXCEPT ![n] = now + TTL]
          /\ issuedAt' = [issuedAt EXCEPT ![n] = now]
    /\ UNCHANGED <<now, pairings, registry, granted, approved>>

\* Variant: the challenge is looked up but not deleted.
Unconsumed(n) == challenge

\* The challenges left after a proof has named one.
Consumed(n) == [challenge EXCEPT ![n] = 0]

InTime(n) == now < challenge[n]

\* A valid proof names a known challenge, which it uses up even when it has
\* expired.
VerifyAndConsumePairing(n, p) ==
    /\ challenge[n] # 0
    /\ challenge' = Consumed(n)
    /\ \/ /\ InTime(n)
          /\ pairings' = pairings \cup {p}
          /\ granted' = granted \cup
                {[nonce |-> n, device |-> p.device, key |-> p.key, at |-> now]}
       \/ /\ ~InTime(n)
          /\ UNCHANGED <<pairings, granted>>
    /\ UNCHANGED <<now, registry, issuedAt, approved>>

Active(a, d) == registry[a][d] # NoDevice /\ ~registry[a][d].revoked

IsTrusted(a, d, k) == Active(a, d) /\ registry[a][d].key = k

\* writeLocked: the file is replaced, or the call fails and it is not.
Save(new) ==
    \/ registry' = new
    \/ "save" \in Faults /\ UNCHANGED registry

\* Variant: an active entry is replaced like a revoked one.
Overwritable(a, d) == TRUE

\* An active entry is never written: Authorize returns it, or refuses when the
\* pairing has another key.  A revoked one is replaced.
Writable(a, d) == ~Active(a, d)

\* Variant: the loop does not compare the account of an entry.
EntryOfAnyAccount(a, p) ==
    [b \in Accounts |->
        IF b = a \/ registry[b][p.device] # NoDevice
        THEN [registry[b] EXCEPT ![p.device] = [key |-> p.key, revoked |-> FALSE]]
        ELSE registry[b]]

\* The registry with the pairing's entry replaced or appended.
WithEntry(a, p) ==
    [registry EXCEPT ![a][p.device] = [key |-> p.key, revoked |-> FALSE]]

\* A verified pairing may be presented at any time, by any account, again.
Authorize(a, p) ==
    /\ p \in pairings
    /\ Writable(a, p.device)
    /\ Save(WithEntry(a, p))
    /\ approved' = approved \cup {[account |-> a, device |-> p.device, key |-> p.key]}
    /\ UNCHANGED <<now, challenge, pairings, issuedAt, granted>>

Revoke(a, d) ==
    /\ Active(a, d)
    /\ Save([registry EXCEPT ![a][d].revoked = TRUE])
    /\ UNCHANGED <<now, challenge, pairings, issuedAt, granted, approved>>

Tick ==
    /\ now < MaxTime
    /\ now' = now + 1
    /\ UNCHANGED <<challenge, pairings, registry, issuedAt, granted, approved>>

\* The process starts again with the registry file and nothing else.
Restart ==
    /\ "restart" \in Faults
    /\ challenge' = [n \in Nonces |-> 0]
    /\ pairings' = {}
    /\ UNCHANGED <<now, registry, issuedAt, granted, approved>>

\* What happens while the process runs.
TrustChange ==
    \/ Issue
    \/ \E n \in Nonces, p \in Pairing : VerifyAndConsumePairing(n, p)
    \/ \E a \in Accounts, p \in Pairing : Authorize(a, p)
    \/ \E a \in Accounts, d \in Devices : Revoke(a, d)
    \/ Tick

TrustNext == TrustChange \/ Restart

TrustSpec == TrustInit /\ [][TrustNext]_trustVars

-----------------------------------------------------------------------------
(* Properties.                                                             *)

\* Every variable holds what the Go types and maps can hold.
TrustTypeOK ==
    /\ now \in Nat
    /\ challenge \in [Nonces -> Nat]
    /\ pairings \subseteq Pairing
    /\ registry \in [Accounts -> [Devices -> TrustedDevice \cup {NoDevice}]]
    /\ issuedAt \in [Nonces -> Nat]
    /\ granted \subseteq [nonce: Nonces, device: Devices, key: Keys, at: Nat]
    /\ approved \subseteq [account: Accounts, device: Devices, key: Keys]

\* A challenge pairs one device and one key, once: neither a second proof of
\* the same device nor one of another device, in time or late, before or after
\* a restart, gets a pairing out of it (VerifyAndConsumePairing).
ChallengesPairOnce ==
    \A g, h \in granted : g.nonce = h.nonce => g = h

\* No pairing is granted outside of the time to live of its challenge.
PairedInTime ==
    \A g \in granted :
        /\ issuedAt[g.nonce] # 0
        /\ issuedAt[g.nonce] <= g.at
        /\ g.at < issuedAt[g.nonce] + TTL

\* An account's registry names a device and key only if that account approved
\* exactly these, and if the device once proved it has the key by answering a
\* challenge; accounts do not share trust.
TrustIsEarned ==
    \A a \in Accounts, d \in Devices :
        registry[a][d] # NoDevice =>
            /\ [account |-> a, device |-> d, key |-> registry[a][d].key]
                  \in approved
            /\ \E g \in granted : g.device = d /\ g.key = registry[a][d].key

\* "Active-key replacement protection": while a device is active its key stays
\* what it is; another key takes over only after a revocation.
ActiveKeyIsKept ==
    [][\A a \in Accounts, d \in Devices :
          (Active(a, d) /\ Active(a, d)') => registry'[a][d] = registry[a][d]
      ]_trustVars

\* The inductive invariant behind them: a challenge still in the map has paired
\* nobody, and what callers hold was granted.
TrustInv ==
    /\ TrustTypeOK
    /\ now > 0
    /\ \A n \in Nonces : issuedAt[n] <= now
    /\ \A n \in Nonces : challenge[n] # 0 =>
          /\ issuedAt[n] # 0
          /\ challenge[n] = issuedAt[n] + TTL
          /\ \A g \in granted : g.nonce # n
    /\ \A p \in pairings : \E g \in granted : g.device = p.device /\ g.key = p.key
    /\ ChallengesPairOnce
    /\ PairedInTime
    /\ TrustIsEarned
=============================================================================
