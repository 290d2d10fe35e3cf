--------------------------- MODULE SecureHandshake ---------------------------
(***************************************************************************)
(* Both ends of one secure peer connection, from the resolution of trust   *)
(* to the capability handshake: SecurePeerFactory.DialSecurePeer on the    *)
(* client, AcceptSecurePeer on the server, the TLS 1.3 handshake with      *)
(* pinned device keys between them, the ready confirmation, and            *)
(* SendHandshake and ReceiveHandshake over the connection.                 *)
(*                                                                         *)
(* Any node may answer at the address that is dialed, and either may       *)
(* expect another.  Local keys are rotated and trust is given, moved to    *)
(* another key and withdrawn between any two steps; the connection may be  *)
(* lost at any time, with what is on its way.                              *)
(***************************************************************************)
EXTENDS Naturals

CONSTANTS
    Devices,   \* device IDs, one for each node
    Keys,      \* device keys; a key belongs to the device that generated it
    NoKey      \* no key yet

ASSUME HandshakeAssumption == NoKey \notin Keys

Ends == {"client", "server"}

VARIABLES
    made,      \* the keys each device has generated
    key,       \* DeviceKeyStore of each node: its present key
    trusted,   \* TrustedDeviceStore of each node: the key trusted for a device
    end,       \* the two calls, as far as they are
    wire,      \* what can be read at each end of the connection
    up,        \* the connection works
    shut       \* the end has closed its side

nodeVars == <<made, key, trusted>>
connVars == <<wire, up, shut>>
vars == <<nodeVars, end, connVars>>

Connecting == {"resolved", "loaded", "tls", "confirm", "admitted"}

Endpoint ==
    [pc: {"start", "open", "failed", "closed"} \cup Connecting,
     device: Devices, remote: Devices,
     pinned: Keys \cup {NoKey},   \* TrustedPeerIdentity.PublicKey
     local: Keys \cup {NoKey},    \* SecurePeerIdentity.PrivateKey
     accepted: BOOLEAN,           \* VerifyConnection returned nil
     bound: Keys \cup {NoKey},    \* authenticatedKeyFingerprint
     heard: BOOLEAN]              \* ReceiveHandshake has returned one

Message ==
    [kind: {"hello"}]
      \cup [kind: {"certificate"}, device: Devices, key: Keys]
      \cup [kind: {"ready"}, device: Devices, accepted: Devices]
      \cup [kind: {"handshake"}, device: Devices]

Other(e) == IF e = "client" THEN "server" ELSE "client"

-----------------------------------------------------------------------------

Fresh(d, other) ==
    [pc |-> "start", device |-> d, remote |-> other, pinned |-> NoKey,
     local |-> NoKey, accepted |-> FALSE, bound |-> NoKey, heard |-> FALSE]

\* Each node has a key; what it trusts for a device is a key of that device.
Init ==
    /\ made \in [Devices -> SUBSET Keys]
    /\ \A d \in Devices : \E k \in Keys : made[d] = {k}
    /\ \A d, o \in Devices : d # o => made[d] \cap made[o] = {}
    /\ key \in [Devices -> Keys]
    /\ \A d \in Devices : key[d] \in made[d]
    /\ trusted \in [Devices -> [Devices -> Keys \cup {NoKey}]]
    /\ \A d, o \in Devices : trusted[d][o] \in made[o] \cup {NoKey}
    /\ \E c, s \in Devices : \E cr \in Devices \ {c}, sr \in Devices \ {s} :
          /\ c # s
          /\ end = [e \in Ends |->
                IF e = "client" THEN Fresh(c, cr) ELSE Fresh(s, sr)]
    /\ wire = [e \in Ends |-> {}]
    /\ up = TRUE
    /\ shut = [e \in Ends |-> FALSE]

-----------------------------------------------------------------------------
(* The nodes.                                                              *)

\* DeviceKeyStore.Rotate: a new key for the node.
Rotate(d) ==
    /\ \E k \in Keys :
          /\ \A o \in Devices : k \notin made[o]
          /\ made' = [made EXCEPT ![d] = @ \cup {k}]
          /\ key' = [key EXCEPT ![d] = k]
    /\ UNCHANGED <<trusted, end, connVars>>

\* The registry of a node: another key of the device is approved, or none is.
ChangeTrust(d) ==
    /\ \E o \in Devices : \E k \in made[o] \cup {NoKey} :
          trusted' = [trusted EXCEPT ![d][o] = k]
    /\ UNCHANGED <<made, key, end, connVars>>

\* The connection is lost, and what was on its way.
LoseConnection ==
    /\ up
    /\ up' = FALSE
    /\ wire' = [e \in Ends |-> {}]
    /\ UNCHANGED <<nodeVars, end, shut>>

-----------------------------------------------------------------------------
(* The two calls.                                                          *)

\* A write: what is written to a lost connection goes nowhere, without error.
Write(e, m) ==
    wire' = IF up THEN [wire EXCEPT ![Other(e)] = @ \cup {m}] ELSE wire

Certificate(e) ==
    [kind |-> "certificate", device |-> end[e].device, key |-> end[e].local]

\* ResolveIdentities, first half: the key that is trusted for the remote
\* device.  The server is called with a connection that was accepted.
ResolveTrust(e) ==
    /\ end[e].pc = "start"
    /\ e = "server" => [kind |-> "hello"] \in wire[e]
    /\ trusted[end[e].device][end[e].remote] # NoKey
    /\ end' = [end EXCEPT
          ![e].pc = "resolved",
          ![e].pinned = trusted[end[e].device][end[e].remote]]
    /\ UNCHANGED <<nodeVars, connVars>>

\* Second half: the key of this device is loaded.
LoadKey(e) ==
    /\ end[e].pc = "resolved"
    /\ end' = [end EXCEPT ![e].pc = "loaded",
                          ![e].local = key[end[e].device]]
    /\ UNCHANGED <<nodeVars, connVars>>

\* The client connects and begins the TLS handshake.
Dial ==
    /\ end["client"].pc = "loaded"
    /\ end' = [end EXCEPT !["client"].pc = "tls"]
    /\ Write("client", [kind |-> "hello"])
    /\ UNCHANGED <<nodeVars, up, shut>>

\* The server answers with its certificate and the proof of its key.
AnswerHello ==
    /\ end["server"].pc = "loaded"
    /\ [kind |-> "hello"] \in wire["server"]
    /\ end' = [end EXCEPT !["server"].pc = "tls"]
    /\ Write("server", Certificate("server"))
    /\ UNCHANGED <<nodeVars, up, shut>>

\* verifySecurePeer.
VerifySecurePeer(e, c) == c.device = end[e].remote /\ c.key = end[e].pinned

\* Variant: the dialer takes its own TLS handshake for the acceptance.
VerifyServerAndReturn ==
    /\ end["client"].pc = "tls"
    /\ \E c \in wire["client"] :
          c.kind = "certificate" /\ VerifySecurePeer("client", c)
    /\ end' = [end EXCEPT !["client"].pc = "admitted",
                          !["client"].accepted = TRUE]
    /\ Write("client", Certificate("client"))
    /\ UNCHANGED <<nodeVars, up, shut>>

\* The client's handshake is complete, before the server has seen who it is.
VerifyServer ==
    /\ end["client"].pc = "tls"
    /\ \E c \in wire["client"] :
          c.kind = "certificate" /\ VerifySecurePeer("client", c)
    /\ end' = [end EXCEPT !["client"].pc = "confirm",
                          !["client"].accepted = TRUE]
    /\ Write("client", Certificate("client"))
    /\ UNCHANGED <<nodeVars, up, shut>>

\* The server's handshake is complete.
VerifyClient ==
    /\ end["server"].pc = "tls"
    /\ \E c \in wire["server"] :
          c.kind = "certificate" /\ VerifySecurePeer("server", c)
    /\ end' = [end EXCEPT !["server"].pc = "confirm",
                          !["server"].accepted = TRUE]
    /\ UNCHANGED <<nodeVars, connVars>>

\* confirmSecurePeer on the server.  The deadline is removed after the write:
\* if that fails the server gives up, with the confirmation already sent.
SendReady ==
    /\ end["server"].pc = "confirm"
    /\ Write("server", [kind |-> "ready", device |-> end["server"].device,
                        accepted |-> end["server"].remote])
    /\ \/ /\ end' = [end EXCEPT !["server"].pc = "admitted"]
          /\ UNCHANGED shut
       \/ /\ end' = [end EXCEPT !["server"].pc = "failed"]
          /\ shut' = [shut EXCEPT !["server"] = TRUE]
    /\ UNCHANGED <<nodeVars, up>>

\* confirmSecurePeer on the client.
ReceiveReady ==
    /\ end["client"].pc = "confirm"
    /\ [kind |-> "ready", device |-> end["client"].remote,
        accepted |-> end["client"].device] \in wire["client"]
    /\ end' = [end EXCEPT !["client"].pc = "admitted"]
    /\ UNCHANGED <<nodeVars, connVars>>

\* Variant: the fingerprint is asked of the registry again.
BindTrustedKey(e) ==
    /\ end[e].pc = "admitted"
    /\ end' = [end EXCEPT ![e].pc = "open",
                          ![e].bound = trusted[end[e].device][end[e].remote]]
    /\ UNCHANGED <<nodeVars, connVars>>

\* BindAuthenticatedKeyFingerprint: the key that was pinned.
BindFingerprint(e) ==
    /\ end[e].pc = "admitted"
    /\ end' = [end EXCEPT ![e].pc = "open", ![e].bound = end[e].pinned]
    /\ UNCHANGED <<nodeVars, connVars>>

\* Variant: the connection of a failed handshake is left open.
GiveUpOpen(e) ==
    /\ end[e].pc \in Connecting \ {"admitted"}
    /\ end' = [end EXCEPT ![e].pc = "failed"]
    /\ UNCHANGED <<nodeVars, connVars>>

\* Variant: no deadline is set for the confirmation.
GiveUpInTLS(e) ==
    /\ end[e].pc \in Connecting \ {"admitted", "confirm"}
    /\ end' = [end EXCEPT ![e].pc = "failed"]
    /\ shut' = [shut EXCEPT ![e] = TRUE]
    /\ UNCHANGED <<nodeVars, wire, up>>

\* The call fails: the key store or the network does, what the other end shows
\* is not what was expected, its clock is off, the other end is gone, or the
\* deadline passes.  Our side is closed.
GiveUp(e) ==
    /\ end[e].pc \in Connecting \ {"admitted"}
    /\ end' = [end EXCEPT ![e].pc = "failed"]
    /\ shut' = [shut EXCEPT ![e] = TRUE]
    /\ UNCHANGED <<nodeVars, wire, up>>

\* The remote device is not trusted: no key is loaded, nothing is dialed, and
\* an accepted connection is closed.
RefuseUntrusted(e) ==
    /\ end[e].pc = "start"
    /\ e = "server" => [kind |-> "hello"] \in wire[e]
    /\ trusted[end[e].device][end[e].remote] = NoKey
    /\ end' = [end EXCEPT ![e].pc = "failed"]
    /\ shut' = [shut EXCEPT ![e] = TRUE]
    /\ UNCHANGED <<nodeVars, wire, up>>

-----------------------------------------------------------------------------
(* The peer connection in use.                                             *)

\* SendHandshake: only with the identity that was authenticated.
SendHandshake(e) ==
    /\ end[e].pc = "open"
    /\ Write(e, [kind |-> "handshake", device |-> end[e].device])
    /\ UNCHANGED <<nodeVars, end, up, shut>>

\* ReceiveHandshake: only of the device that was authenticated.
ReceiveHandshake(e) ==
    /\ end[e].pc = "open"
    /\ ~end[e].heard
    /\ [kind |-> "handshake", device |-> end[e].remote] \in wire[e]
    /\ end' = [end EXCEPT ![e].heard = TRUE]
    /\ UNCHANGED <<nodeVars, connVars>>

\* ReceiveHandshake has no deadline: it fails when the connection is lost or
\* the other end has closed it, and the application closes the peer.
HandshakeFails(e) ==
    /\ end[e].pc = "open"
    /\ ~end[e].heard
    /\ ~up \/ shut[Other(e)]
    /\ end' = [end EXCEPT ![e].pc = "closed"]
    /\ shut' = [shut EXCEPT ![e] = TRUE]
    /\ UNCHANGED <<nodeVars, wire, up>>

\* The application closes the peer.
Close(e) ==
    /\ end[e].pc = "open"
    /\ end' = [end EXCEPT ![e].pc = "closed"]
    /\ shut' = [shut EXCEPT ![e] = TRUE]
    /\ UNCHANGED <<nodeVars, wire, up>>

-----------------------------------------------------------------------------

Next ==
    \/ \E d \in Devices : Rotate(d) \/ ChangeTrust(d)
    \/ LoseConnection
    \/ Dial \/ AnswerHello \/ VerifyServer \/ VerifyClient
    \/ SendReady \/ ReceiveReady
    \/ \E e \in Ends :
          \/ ResolveTrust(e) \/ LoadKey(e) \/ BindFingerprint(e)
          \/ GiveUp(e) \/ RefuseUntrusted(e)
          \/ SendHandshake(e) \/ ReceiveHandshake(e) \/ HandshakeFails(e)
          \/ Close(e)

Spec == Init /\ [][Next]_vars

\* Deadlines pass and local steps return; a lost connection is noticed.  That
\* the other end does anything is not assumed.
Fairness ==
    \A e \in Ends : /\ WF_vars(LoadKey(e))
                    /\ WF_vars(BindFingerprint(e))
                    /\ WF_vars(GiveUp(e))
                    /\ WF_vars(HandshakeFails(e))

FairSpec == Spec /\ Fairness

-----------------------------------------------------------------------------
(* Properties.                                                             *)

\* Every variable holds what the Go types can hold.
TypeOK ==
    /\ made \in [Devices -> SUBSET Keys]
    /\ key \in [Devices -> Keys]
    /\ trusted \in [Devices -> [Devices -> Keys \cup {NoKey}]]
    /\ end \in [Ends -> Endpoint]
    /\ wire \in [Ends -> SUBSET Message]
    /\ up \in BOOLEAN
    /\ shut \in [Ends -> BOOLEAN]

\* A PeerConn was returned to the end's caller.
Admitted(e) == end[e].pc \in {"admitted", "open", "closed"}

\* The end expects the device and the key that the other end uses.
Expects(e) == /\ end[e].remote = end[Other(e)].device
              /\ end[e].pinned = end[Other(e)].local
              /\ end[e].pinned # NoKey

\* secure_peer.go: DialSecurePeer "returns only after both device identities
\* are mutually accepted and pinned".  When the dialer has its peer the server
\* too has verified, and what each pinned is what the other uses.
MutuallyAccepted ==
    Admitted("client") =>
        \A e \in Ends : end[e].accepted /\ Expects(e)

\* A server's peer is one that had verified the server in turn, whatever keys
\* were rotated and approved on the way.
ServerAdmitsItsClient ==
    Admitted("server") =>
        \A e \in Ends : end[e].accepted /\ Expects(e)

\* The fingerprint that later checkpoints ask the registry about is that of the
\* key that was authenticated, and no later one's.
BoundIsTheKeyInUse ==
    \A e \in Ends : end[e].bound # NoKey => end[e].bound = end[Other(e)].local

\* A dial or an accept that has begun returns, also when the other end is
\* silent from some point on.
ConnectingEnds ==
    \A e \in Ends : (end[e].pc \in Connecting) ~> (end[e].pc \notin Connecting)

\* An end that waits for the other's capability handshake, for which there is
\* no deadline, is not left waiting for one that has failed or has closed.
NoWaitForTheGone ==
    \A e \in Ends :
        (/\ end[e].pc = "open" /\ ~end[e].heard
         /\ end[Other(e)].pc \in {"failed", "closed"})
        ~> (end[e].heard \/ end[e].pc = "closed")

\* What an end holds at each stage of its call; once it has accepted the other
\* end it pins what that one uses.
EndInv(e) ==
    /\ end[e].pc = "start" => end[e].pinned = NoKey
    /\ end[e].pc \in {"start", "resolved"} => end[e].local = NoKey
    /\ end[e].pc \in Connecting \cup {"open", "closed"} => end[e].pinned # NoKey
    /\ end[e].pc \notin {"start", "resolved", "failed"} => end[e].local # NoKey
    /\ end[e].bound # NoKey => Admitted(e) /\ end[e].bound = end[e].pinned
    /\ end[e].accepted => Expects(e)
    /\ end[e].pc = "confirm" \/ Admitted(e) => end[e].accepted

\* What is on the wire was written by an end that had come that far.
WireInv ==
    /\ \A e \in Ends : \A m \in wire[e] :
          m.kind = "certificate" => m = Certificate(Other(e))
    /\ \A m \in wire["server"] :
          m.kind = "certificate" => end["client"].accepted
    /\ \A m \in wire["client"] : m.kind = "ready" => end["server"].accepted

\* The inductive invariant: the server accepts last, and the client has its
\* peer only after that.
HandshakeInv ==
    /\ TypeOK
    /\ \A e \in Ends : EndInv(e)
    /\ WireInv
    /\ end["server"].accepted => end["client"].accepted
    /\ Admitted("client") => end["server"].accepted
=============================================================================
