----------------------------- MODULE SecurePeers -----------------------------
(***************************************************************************)
(* One node's SecurePeerFactory on top of its device trust: peers are      *)
(* resolved in the registry, admitted over TLS with the resolved key       *)
(* pinned, and used by sequences of operations, each behind a checkpoint   *)
(* that reads the registry again (RevalidatePeer).                         *)
(*                                                                         *)
(* Pairing, approval and revocation go on in other goroutines, between any *)
(* two of these steps: nothing is locked from the checkpoint to the        *)
(* operation, or from Resolve to the end of the TLS handshake.             *)
(***************************************************************************)
EXTENDS DeviceTrust

CONSTANTS
    Account,   \* SecurePeerFactory.AccountID
    Sessions,  \* peer connections the node may have at a time
    Runners,   \* goroutines that run operation sequences
    MaxOps     \* longest sequence used; the code allows 64

ASSUME PeersAssumption ==
    /\ Account \in Accounts
    /\ MaxOps \in 1 .. 64

VARIABLES
    session,   \* the PeerConn values: pinned device and key, how far they are
    runner,    \* the sequence each goroutine is in
    late,      \* history: operations begun since the key was last trusted
    lapsed     \* history: trust was withdrawn between two steps of the sequence

peerVars == <<session, runner, late, lapsed>>
vars == <<trustVars, peerVars>>

NoSession == [state |-> "none"]
Peer == [state: {"resolved", "open", "closed"}, device: Devices, key: Keys]
Session == {NoSession} \cup Peer

Idle == [pc |-> "idle"]
Sequence == [pc: {"check", "begin", "running"}, session: Sessions,
             done: 0 .. MaxOps - 1, total: 1 .. MaxOps]
Runner == {Idle} \cup Sequence

Init ==
    /\ TrustInit
    /\ session = [s \in Sessions |-> NoSession]
    /\ runner = [r \in Runners |-> Idle]
    /\ late = [r \in Runners |-> 0]
    /\ lapsed = [r \in Runners |-> FALSE]

\* The peer a runner works on.
PeerOf(r) == session[runner[r].session]

\* The exact device and key of the runner's peer are trusted now.
Current(r) == IsTrusted(Account, PeerOf(r).device, PeerOf(r).key)

-----------------------------------------------------------------------------

\* Variant: the registry is searched for the device in any account.
ResolvableAnywhere(d, k) == \E a \in Accounts : IsTrusted(a, d, k)

\* TrustedDeviceStore.Resolve returns the key of an active device.
Resolvable(d, k) == IsTrusted(Account, d, k)

\* ResolveIdentities, at the start of a dial or an accept.
ResolveIdentities(s) ==
    /\ session[s] = NoSession
    /\ \E d \in Devices, k \in Keys :
          /\ Resolvable(d, k)
          /\ session' = [session EXCEPT ![s] =
                [state |-> "resolved", device |-> d, key |-> k]]
    /\ UNCHANGED <<trustVars, runner, late, lapsed>>

\* The certificate that the other end shows names the resolved device and key.
Pinned(s, remote) ==
    remote.device = session[s].device /\ remote.key = session[s].key

\* The TLS handshake and the ready confirmation, then the pinned key's
\* fingerprint is bound.  Whoever answers has some device and key; unless they
\* are the pinned ones, or when time runs out, there is no peer.
UpgradeSecurePeer(s) ==
    /\ session[s].state = "resolved"
    /\ \/ \E remote \in Pairing :
             /\ Pinned(s, remote)
             /\ session' = [session EXCEPT ![s].state = "open"]
       \/ session' = [session EXCEPT ![s] = NoSession]
    /\ UNCHANGED <<trustVars, runner, late, lapsed>>

\* The application closes a peer it no longer uses, and forgets it.
Release(s) ==
    /\ session[s].state \in {"open", "closed"}
    /\ \A r \in Runners : runner[r] # Idle => runner[r].session # s
    /\ session' = [session EXCEPT ![s] = NoSession]
    /\ UNCHANGED <<trustVars, runner, late, lapsed>>

\* RunOperationSequenceWithCurrentTrust with a well-formed sequence; a peer
\* that is closed already is not refused here.
StartSequence(r) ==
    /\ runner[r] = Idle
    /\ \E s \in Sessions, n \in 1 .. MaxOps :
          /\ session[s].state \in {"open", "closed"}
          /\ runner' = [runner EXCEPT ![r] =
                [pc |-> "check", session |-> s, done |-> 0, total |-> n]]
    /\ late' = [late EXCEPT ![r] = 0]
    /\ lapsed' = [lapsed EXCEPT ![r] = FALSE]
    /\ UNCHANGED <<trustVars, session>>

\* Variant: the sequence is checked once, before its first operation.
CheckedOnce(r) == Current(r) \/ runner[r].done > 0

\* Variant: the fingerprint is not compared.
DeviceCurrent(r) == Active(Account, PeerOf(r).device)

\* IsTrusted for the bound fingerprint.
TrustConfirmed(r) == Current(r)

\* RevalidatePeer: go on to the operation, or close the peer and stop.  A
\* registry that cannot be read counts as no.
RevalidatePeer(r) ==
    /\ runner[r].pc = "check"
    /\ \/ /\ TrustConfirmed(r)
          /\ runner' = [runner EXCEPT ![r].pc = "begin"]
          /\ UNCHANGED session
       \/ /\ ~TrustConfirmed(r) \/ "load" \in Faults
          /\ runner' = [runner EXCEPT ![r] = Idle]
          /\ session' = [session EXCEPT ![runner[r].session].state = "closed"]
    /\ UNCHANGED <<trustVars, late, lapsed>>

\* The operation is called.
BeginOperation(r) ==
    /\ runner[r].pc = "begin"
    /\ runner' = [runner EXCEPT ![r].pc = "running"]
    /\ late' = [late EXCEPT ![r] = IF Current(r) THEN 0 ELSE @ + 1]
    /\ UNCHANGED <<trustVars, session, lapsed>>

MoreOperations(r) == runner[r].done + 1 < runner[r].total

\* It returns: with an error the sequence ends, otherwise the next step's
\* checkpoint follows, or the sequence was done.  It may have closed the peer.
EndOperation(r) ==
    /\ runner[r].pc = "running"
    /\ \/ runner' = [runner EXCEPT ![r] = Idle]
       \/ /\ MoreOperations(r)
          /\ runner' = [runner EXCEPT ![r].pc = "check", ![r].done = @ + 1]
    /\ session' \in {session,
                     [session EXCEPT ![runner[r].session].state = "closed"]}
    /\ UNCHANGED <<trustVars, late, lapsed>>

-----------------------------------------------------------------------------

\* A step of the trust stores, as the histories of the runners see it.
ChangeTrust ==
    /\ TrustChange
    /\ UNCHANGED <<session, runner>>
    /\ late' = [r \in Runners |->
          IF runner[r] # Idle /\ Current(r)' THEN 0 ELSE late[r]]
    /\ lapsed' = [r \in Runners |->
          \/ lapsed[r]
          \/ /\ runner[r] # Idle
             /\ runner[r].pc = "check"
             /\ runner[r].done > 0
             /\ ~Current(r)']

\* The process starts again: no connection and no sequence survives.
RestartNode ==
    /\ Restart
    /\ session' = [s \in Sessions |-> NoSession]
    /\ runner' = [r \in Runners |-> Idle]
    /\ late' = [r \in Runners |-> 0]
    /\ lapsed' = [r \in Runners |-> FALSE]

Run(r) ==
    \/ StartSequence(r)
    \/ RevalidatePeer(r)
    \/ BeginOperation(r)
    \/ EndOperation(r)

Next ==
    \/ ChangeTrust
    \/ \E s \in Sessions : \/ ResolveIdentities(s)
                           \/ UpgradeSecurePeer(s)
                           \/ Release(s)
    \/ \E r \in Runners : Run(r)
    \/ RestartNode

Spec == Init /\ [][Next]_vars

\* A sequence that has started is run; its operations return.
Fairness ==
    \A r \in Runners : /\ WF_vars(RevalidatePeer(r))
                       /\ WF_vars(BeginOperation(r))
                       /\ WF_vars(EndOperation(r))

FairSpec == Spec /\ Fairness

-----------------------------------------------------------------------------
(* Properties.                                                             *)

\* Every variable holds what the Go types can hold.
TypeOK ==
    /\ TrustTypeOK
    /\ session \in [Sessions -> Session]
    /\ runner \in [Runners -> Runner]
    /\ late \in [Runners -> Nat]
    /\ lapsed \in [Runners -> BOOLEAN]

\* A peer that was ever admitted had been approved by this node's account, with
\* this key, after a pairing: also when the registry has changed since Resolve.
PeersAreEarned ==
    \A s \in Sessions : session[s] # NoSession =>
        /\ [account |-> Account, device |-> session[s].device,
            key |-> session[s].key] \in approved
        /\ \E g \in granted : /\ g.device = session[s].device
                              /\ g.key = session[s].key

\* docs/OPERATION-TRUST.md: a sequence "does not execute later operations after
\* trust is revoked".  Once the key is not trusted any more, the one operation
\* whose checkpoint had passed may begin, and no other, whatever the other
\* goroutines do, until the key is trusted again.
AtMostOneLateOperation == \A r \in Runners : late[r] <= 1

\* A runner works on a peer that was admitted.
RunnersHavePeers ==
    \A r \in Runners : runner[r] # Idle =>
        session[runner[r].session].state \in {"open", "closed"}

\* A revocation that is not undone takes effect: in the end no operation runs
\* on a peer with that device and key.
RevocationTakesEffect ==
    \A d \in Devices, k \in Keys :
        <>[](~IsTrusted(Account, d, k)) =>
            <>[](\A r \in Runners : runner[r] # Idle =>
                    ~(/\ runner[r].pc = "running"
                      /\ PeerOf(r).device = d
                      /\ PeerOf(r).key = k))

\* secure_peer_factory.go: "If trust changes between steps, the next checkpoint
\* fails closed and the remaining operations are not run."  A checkpoint that
\* passes would mean that trust was not withdrawn since the step before.
LapseStopsSequence ==
    [][\A r \in Runners :
          (runner[r] # Idle /\ runner[r].pc = "check" /\ runner'[r] # Idle
             /\ runner'[r].pc = "begin")
          => ~lapsed[r]
      ]_vars

\* The inductive invariant behind AtMostOneLateOperation: a begun operation is
\* late only while the key is not trusted, and a late one is the last.
PeersInv ==
    /\ TypeOK
    /\ TrustInv
    /\ RunnersHavePeers
    /\ PeersAreEarned
    /\ AtMostOneLateOperation
    /\ \A r \in Runners :
          (runner[r] # Idle /\ (Current(r) \/ runner[r].pc = "begin"))
          => late[r] = 0
=============================================================================
