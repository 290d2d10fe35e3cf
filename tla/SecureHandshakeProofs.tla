------------------------ MODULE SecureHandshakeProofs ------------------------
(***************************************************************************)
(* Proofs about SecureHandshake for every set of nodes and keys.           *)
(***************************************************************************)
EXTENDS SecureHandshake, TLAPS

\* A connection has two ends.
LEMMA TwoEnds ==
    \A e \in Ends : Other(e) \in Ends /\ Other(e) # e /\ Other(Other(e)) = e
  BY DEF Ends, Other

\* At the start nothing is pinned, loaded or written.
LEMMA InitInv == Init => HandshakeInv
  <1> SUFFICES ASSUME Init PROVE HandshakeInv
    OBVIOUS
  <1>1. TypeOK
    BY DEF Init, TypeOK, Fresh, Endpoint, Connecting
  <1>2. \A e \in Ends : EndInv(e) /\ ~Admitted(e) /\ ~end[e].accepted
    BY DEF Init, Fresh, EndInv, Admitted, Connecting
  <1>3. WireInv
    BY DEF Init, WireInv, Ends
  <1>4. QED
    BY <1>1, <1>2, <1>3 DEF HandshakeInv, Ends

\* The invariant is kept when keys are rotated.
LEMMA RotateKeeps ==
    ASSUME HandshakeInv, NEW d \in Devices, Rotate(d)
    PROVE  HandshakeInv'
  <1>1. TypeOK'
    <2>1. end' \in [Ends -> Endpoint]
      BY DEF HandshakeInv, TypeOK, Rotate
    <2>2. wire' \in [Ends -> SUBSET Message]
      BY DEF HandshakeInv, TypeOK, Rotate, connVars
    <2>3. QED
      BY <2>1, <2>2 DEF HandshakeInv, TypeOK, Rotate, connVars
  <1>2. \A x \in Ends : EndInv(x)'
    BY TwoEnds DEF HandshakeInv, TypeOK, Rotate, Endpoint, Connecting, EndInv,
       Admitted, Expects, connVars, Ends
  <1>3. WireInv'
    BY TwoEnds DEF HandshakeInv, TypeOK, Rotate, Endpoint, WireInv,
       Certificate, connVars, EndInv, Ends
  <1>4. QED
    BY <1>1, <1>2, <1>3 DEF HandshakeInv, TypeOK, Rotate, Endpoint, Admitted,
       Ends, connVars

\* The invariant is kept when a registry changes.
LEMMA ChangeTrustKeeps ==
    ASSUME HandshakeInv, NEW d \in Devices, ChangeTrust(d)
    PROVE  HandshakeInv'
  <1>1. TypeOK'
    <2>1. end' \in [Ends -> Endpoint]
      BY DEF HandshakeInv, TypeOK, ChangeTrust
    <2>2. wire' \in [Ends -> SUBSET Message]
      BY DEF HandshakeInv, TypeOK, ChangeTrust, connVars
    <2>3. QED
      BY <2>1, <2>2 DEF HandshakeInv, TypeOK, ChangeTrust, connVars
  <1>2. \A x \in Ends : EndInv(x)'
    BY TwoEnds DEF HandshakeInv, TypeOK, ChangeTrust, Endpoint, Connecting,
       EndInv, Admitted, Expects, connVars, Ends
  <1>3. WireInv'
    BY TwoEnds DEF HandshakeInv, TypeOK, ChangeTrust, Endpoint, WireInv,
       Certificate, connVars, EndInv, Ends
  <1>4. QED
    BY <1>1, <1>2, <1>3 DEF HandshakeInv, TypeOK, ChangeTrust, Endpoint,
       Admitted, Ends, connVars

\* The invariant is kept when the connection is lost.
LEMMA LoseConnectionKeeps ==
    ASSUME HandshakeInv, LoseConnection
    PROVE  HandshakeInv'
  <1>1. TypeOK'
    <2>1. end' \in [Ends -> Endpoint]
      BY DEF HandshakeInv, TypeOK, LoseConnection
    <2>2. wire' \in [Ends -> SUBSET Message]
      BY DEF HandshakeInv, TypeOK, LoseConnection, nodeVars
    <2>3. QED
      BY <2>1, <2>2 DEF HandshakeInv, TypeOK, LoseConnection, nodeVars
  <1>2. \A x \in Ends : EndInv(x)'
    BY TwoEnds DEF HandshakeInv, TypeOK, LoseConnection, Endpoint, Connecting,
       EndInv, Admitted, Expects, nodeVars, Ends
  <1>3. WireInv'
    BY TwoEnds DEF HandshakeInv, TypeOK, LoseConnection, Endpoint, WireInv,
       Certificate, nodeVars, EndInv, Ends
  <1>4. QED
    BY <1>1, <1>2, <1>3 DEF HandshakeInv, TypeOK, LoseConnection, Endpoint,
       Admitted, Ends, nodeVars

\* The invariant is kept when trust is resolved.
LEMMA ResolveTrustKeeps ==
    ASSUME HandshakeInv, NEW e \in Ends, ResolveTrust(e)
    PROVE  HandshakeInv'
  <1>1. TypeOK'
    <2>1. end' \in [Ends -> Endpoint]
      <3> DEFINE k == trusted[end[e].device][end[e].remote]
      <3>1. /\ end \in [Ends -> Endpoint]
            /\ end[e] \in Endpoint
            /\ end[e].device \in Devices /\ end[e].remote \in Devices
        BY DEF HandshakeInv, TypeOK, Endpoint
      <3>2. k \in Keys \cup {NoKey}
        BY <3>1 DEF HandshakeInv, TypeOK
      <3>3. [end[e] EXCEPT !.pc = "resolved", !.pinned = k] \in Endpoint
        BY <3>1, <3>2 DEF Endpoint, Connecting
      <3>4. end' = [end EXCEPT ![e] =
                     [end[e] EXCEPT !.pc = "resolved", !.pinned = k]]
        BY <3>1 DEF ResolveTrust
      <3>5. QED
        BY <3>1, <3>3, <3>4
    <2>2. wire' \in [Ends -> SUBSET Message]
      BY DEF HandshakeInv, TypeOK, ResolveTrust, nodeVars, connVars
    <2>3. QED
      BY <2>1, <2>2 DEF HandshakeInv, TypeOK, ResolveTrust, nodeVars, connVars
  <1>2. \A x \in Ends : EndInv(x)'
    BY TwoEnds DEF HandshakeInv, TypeOK, ResolveTrust, Endpoint, Connecting,
       EndInv, Admitted, Expects, nodeVars, connVars, Ends
  <1>3. WireInv'
    BY TwoEnds DEF HandshakeInv, TypeOK, ResolveTrust, Endpoint, WireInv,
       Certificate, nodeVars, connVars, EndInv, Ends
  <1>4. \A x \in Ends : /\ end'[x].accepted = end[x].accepted
                       /\ Admitted(x)' = Admitted(x)
    BY DEF HandshakeInv, TypeOK, ResolveTrust, Endpoint, Admitted
  <1>5. QED
    BY <1>1, <1>2, <1>3, <1>4 DEF HandshakeInv, Ends

\* The invariant is kept when the local key is loaded.
LEMMA LoadKeyKeeps ==
    ASSUME HandshakeInv, NEW e \in Ends, LoadKey(e)
    PROVE  HandshakeInv'
  <1>1. TypeOK'
    <2>1. end' \in [Ends -> Endpoint]
      <3> DEFINE new == [end[e] EXCEPT !.pc = "loaded",
                                       !.local = key[end[e].device]]
      <3>1. /\ end \in [Ends -> Endpoint] /\ end[e] \in Endpoint
            /\ key[end[e].device] \in Keys
        BY DEF HandshakeInv, TypeOK, Endpoint
      <3>2. new \in Endpoint
        BY <3>1 DEF Endpoint, Connecting
      <3>3. end' = [end EXCEPT ![e] = new]
        BY DEF LoadKey
      <3>4. QED
        BY <3>1, <3>2, <3>3 DEF Ends
    <2>2. wire' \in [Ends -> SUBSET Message]
      BY DEF HandshakeInv, TypeOK, LoadKey, nodeVars, connVars
    <2>3. QED
      BY <2>1, <2>2 DEF HandshakeInv, TypeOK, LoadKey, nodeVars, connVars
  <1>2. ASSUME NEW x \in Ends
        PROVE  EndInv(x)'
    <2>1. key[end[e].device] \in Keys /\ key[end[e].device] # NoKey
      BY HandshakeAssumption DEF HandshakeInv, TypeOK, Endpoint
    <2>2. end[e].local = NoKey /\ EndInv(x) /\ EndInv(e)
      BY DEF HandshakeInv, LoadKey, EndInv
    <2>3. /\ end'[e].pc = "loaded" /\ end'[e].local # NoKey
          /\ end'[e].pinned = end[e].pinned /\ end'[e].bound = end[e].bound
          /\ end'[e].accepted = end[e].accepted
          /\ end[e].pc = "resolved"
      BY <2>1 DEF HandshakeInv, TypeOK, LoadKey, Endpoint
    <2>4. x # e => end'[x] = end[x]
      BY DEF HandshakeInv, TypeOK, LoadKey
    <2>5. \A y \in Ends : end[y].accepted => Expects(y)
      BY DEF HandshakeInv, EndInv
    <2>6. \A y \in Ends : end[y].accepted => Other(y) # e
      BY <2>2, <2>5 DEF Expects
    <2>7. \A y \in Ends : /\ end'[y].device = end[y].device
                          /\ end'[y].remote = end[y].remote
                          /\ y # e => end'[y] = end[y]
      BY DEF HandshakeInv, TypeOK, LoadKey, Endpoint
    <2>8. end'[x].accepted => Expects(x)'
      <3>1. end'[x].pinned = end[x].pinned /\ end'[x].accepted = end[x].accepted
        <4>1. CASE x = e
          BY <4>1, <2>3
        <4>2. CASE x # e
          BY <4>2, <2>4
        <4>3. QED
          BY <4>1, <4>2
      <3>2. end[x].accepted => end'[Other(x)] = end[Other(x)]
        <4>1. Other(x) \in Ends
          BY TwoEnds
        <4>2. QED
          BY <4>1, <2>6, <2>7
      <3>3. QED
        <4>1. Other(x) \in Ends
          BY TwoEnds
        <4>2. SUFFICES ASSUME end'[x].accepted PROVE Expects(x)'
          OBVIOUS
        <4>3. Expects(x) /\ end'[Other(x)] = end[Other(x)]
          BY <4>2, <3>1, <3>2, <2>5
        <4>4. end'[x].remote = end[x].remote
          BY <2>7
        <4>5. QED
          BY <4>3, <4>4, <3>1 DEF Expects
    <2>9. CASE x = e
      BY <2>9, <2>2, <2>3, <2>8 DEF EndInv, Admitted, Connecting
    <2>10. CASE x # e
      BY <2>10, <2>2, <2>4, <2>8 DEF EndInv, Admitted, Connecting
    <2>11. QED
      BY <2>9, <2>10
  <1>3. WireInv'
    BY TwoEnds DEF HandshakeInv, TypeOK, LoadKey, Endpoint, WireInv,
       Certificate, nodeVars, connVars, EndInv, Ends, Message
  <1>4. QED
    BY <1>1, <1>2, <1>3 DEF HandshakeInv, TypeOK, LoadKey, Endpoint, Admitted,
       Ends, nodeVars, connVars

\* The invariant is kept when the client says hello.
LEMMA DialKeeps ==
    ASSUME HandshakeInv, Dial
    PROVE  HandshakeInv'
  <1>1. TypeOK'
    <2>1. end' \in [Ends -> Endpoint]
      <3> DEFINE new == [end["client"] EXCEPT !.pc = "tls"]
      <3>1. end \in [Ends -> Endpoint] /\ end["client"] \in Endpoint
        BY DEF HandshakeInv, TypeOK, Ends
      <3>2. new \in Endpoint
        BY <3>1 DEF Endpoint, Connecting
      <3>3. end' = [end EXCEPT !["client"] = new]
        BY DEF Dial
      <3>4. QED
        BY <3>1, <3>2, <3>3 DEF Ends
    <2>2. wire' \in [Ends -> SUBSET Message]
      BY TwoEnds DEF HandshakeInv, TypeOK, Dial, nodeVars, Write, Ends,
         Endpoint, Message
    <2>3. QED
      BY <2>1, <2>2 DEF HandshakeInv, TypeOK, Dial, nodeVars
  <1>2. \A x \in Ends : EndInv(x)'
    BY TwoEnds DEF HandshakeInv, TypeOK, Dial, Endpoint, Connecting, EndInv,
       Admitted, Expects, nodeVars, Ends
  <1>3. WireInv'
    BY TwoEnds DEF HandshakeInv, TypeOK, Dial, Endpoint, WireInv, Certificate,
       nodeVars, EndInv, Ends, Write, Message
  <1>4. QED
    BY <1>1, <1>2, <1>3 DEF HandshakeInv, TypeOK, Dial, Endpoint, Admitted,
       Ends, nodeVars

\* The invariant is kept when the server shows its certificate.
LEMMA AnswerHelloKeeps ==
    ASSUME HandshakeInv, AnswerHello
    PROVE  HandshakeInv'
  <1>1. TypeOK'
    <2>1. end' \in [Ends -> Endpoint]
      <3> DEFINE new == [end["server"] EXCEPT !.pc = "tls"]
      <3>1. end \in [Ends -> Endpoint] /\ end["server"] \in Endpoint
        BY DEF HandshakeInv, TypeOK, Ends
      <3>2. new \in Endpoint
        BY <3>1 DEF Endpoint, Connecting
      <3>3. end' = [end EXCEPT !["server"] = new]
        BY DEF AnswerHello
      <3>4. QED
        BY <3>1, <3>2, <3>3 DEF Ends
    <2>2. wire' \in [Ends -> SUBSET Message]
      BY TwoEnds DEF HandshakeInv, TypeOK, AnswerHello, nodeVars, Write, Ends,
         Endpoint, Message, Certificate, EndInv
    <2>3. QED
      BY <2>1, <2>2 DEF HandshakeInv, TypeOK, AnswerHello, nodeVars
  <1>2. \A x \in Ends : EndInv(x)'
    BY TwoEnds DEF HandshakeInv, TypeOK, AnswerHello, Endpoint, Connecting,
       EndInv, Admitted, Expects, nodeVars, Ends
  <1>3. WireInv'
    BY TwoEnds DEF HandshakeInv, TypeOK, AnswerHello, Endpoint, WireInv,
       Certificate, nodeVars, EndInv, Ends, Write, Message
  <1>4. QED
    BY <1>1, <1>2, <1>3 DEF HandshakeInv, TypeOK, AnswerHello, Endpoint,
       Admitted, Ends, nodeVars

\* The invariant is kept when the client accepts the server.
LEMMA VerifyServerKeeps ==
    ASSUME HandshakeInv, VerifyServer
    PROVE  HandshakeInv'
  <1>1. TypeOK'
    <2>1. end' \in [Ends -> Endpoint]
      <3> DEFINE new == [end["client"] EXCEPT !.pc = "confirm",
                                             !.accepted = TRUE]
      <3>1. end \in [Ends -> Endpoint] /\ end["client"] \in Endpoint
        BY DEF HandshakeInv, TypeOK, Ends
      <3>2. new \in Endpoint
        BY <3>1 DEF Endpoint, Connecting
      <3>3. end' = [end EXCEPT !["client"] = new]
        BY DEF VerifyServer
      <3>4. QED
        BY <3>1, <3>2, <3>3 DEF Ends
    <2>2. wire' \in [Ends -> SUBSET Message]
      BY TwoEnds DEF HandshakeInv, TypeOK, VerifyServer, nodeVars, Write,
         Ends, Endpoint, Message, Certificate, EndInv
    <2>3. QED
      BY <2>1, <2>2 DEF HandshakeInv, TypeOK, VerifyServer, nodeVars
  <1>2. \A x \in Ends : EndInv(x)'
    BY TwoEnds DEF HandshakeInv, TypeOK, VerifyServer, Endpoint, Connecting,
       EndInv, Admitted, Expects, nodeVars, WireInv, VerifySecurePeer,
       Certificate, Ends
  <1>3. WireInv'
    BY TwoEnds DEF HandshakeInv, TypeOK, VerifyServer, Endpoint, WireInv,
       Certificate, nodeVars, EndInv, Ends, Write, Message, VerifySecurePeer
  <1>4. QED
    BY <1>1, <1>2, <1>3 DEF HandshakeInv, TypeOK, VerifyServer, Endpoint,
       Admitted, Ends, nodeVars, WireInv, VerifySecurePeer

\* The invariant is kept when the server accepts the client.
LEMMA VerifyClientKeeps ==
    ASSUME HandshakeInv, VerifyClient
    PROVE  HandshakeInv'
  <1>1. TypeOK'
    <2>1. end' \in [Ends -> Endpoint]
      <3> DEFINE new == [end["server"] EXCEPT !.pc = "confirm",
                                             !.accepted = TRUE]
      <3>1. end \in [Ends -> Endpoint] /\ end["server"] \in Endpoint
        BY DEF HandshakeInv, TypeOK, Ends
      <3>2. new \in Endpoint
        BY <3>1 DEF Endpoint, Connecting
      <3>3. end' = [end EXCEPT !["server"] = new]
        BY DEF VerifyClient
      <3>4. QED
        BY <3>1, <3>2, <3>3 DEF Ends
    <2>2. wire' \in [Ends -> SUBSET Message]
      BY DEF HandshakeInv, TypeOK, VerifyClient, nodeVars, connVars
    <2>3. QED
      BY <2>1, <2>2 DEF HandshakeInv, TypeOK, VerifyClient, nodeVars, connVars
  <1>2. \A x \in Ends : EndInv(x)'
    <2>1. PICK c \in wire["server"] :
             c.kind = "certificate" /\ VerifySecurePeer("server", c)
      BY DEF VerifyClient
    <2>2. c = Certificate("client")
      BY <2>1, TwoEnds DEF HandshakeInv, WireInv, Ends, Other
    <2>3. /\ end'["client"] = end["client"]
          /\ end'["server"].pc = "confirm" /\ end["server"].pc = "tls"
          /\ end'["server"].device = end["server"].device
          /\ end'["server"].remote = end["server"].remote
          /\ end'["server"].pinned = end["server"].pinned
          /\ end'["server"].local = end["server"].local
          /\ end'["server"].bound = end["server"].bound
      BY DEF HandshakeInv, TypeOK, VerifyClient, Endpoint, Ends
    <2>4. EndInv("server") /\ EndInv("client")
      BY DEF HandshakeInv, Ends
    <2>5. /\ end["server"].remote = end["client"].device
          /\ end["server"].pinned = end["client"].local
      BY <2>1, <2>2 DEF VerifySecurePeer, Certificate
    <2>6. Expects("server")'
      BY <2>3, <2>4, <2>5 DEF Expects, EndInv, Connecting, Other
    <2>7. end["client"].accepted => Expects("client")'
      BY <2>3, <2>4 DEF Expects, EndInv, Other
    <2>8. EndInv("client")'
      BY <2>3, <2>4, <2>7 DEF EndInv, Admitted
    <2>9. end'["server"].accepted
      BY DEF HandshakeInv, TypeOK, VerifyClient, Endpoint, Ends
    <2>10. EndInv("server")'
      BY <2>3, <2>4, <2>6, <2>9 DEF EndInv, Admitted, Connecting
    <2>11. QED
      BY <2>8, <2>10 DEF Ends
  <1>3. WireInv'
    BY TwoEnds DEF HandshakeInv, TypeOK, VerifyClient, Endpoint, WireInv,
       Certificate, nodeVars, connVars, EndInv, Ends, VerifySecurePeer
  <1>4. QED
    BY <1>1, <1>2, <1>3 DEF HandshakeInv, TypeOK, VerifyClient, Endpoint,
       Admitted, Ends, nodeVars, connVars, WireInv, VerifySecurePeer

\* The invariant is kept when the server confirms.
LEMMA SendReadyKeeps ==
    ASSUME HandshakeInv, SendReady
    PROVE  HandshakeInv'
  <1>1. TypeOK'
    <2>1. end' \in [Ends -> Endpoint]
      <3>1. /\ end \in [Ends -> Endpoint]
            /\ key \in [Devices -> Keys]
            /\ \A x \in Ends : end[x].device \in Devices
        BY DEF HandshakeInv, TypeOK, Endpoint
      <3>2. QED
        BY <3>1 DEF SendReady, Endpoint, Connecting, Ends
    <2>2. wire' \in [Ends -> SUBSET Message]
      BY TwoEnds DEF HandshakeInv, TypeOK, SendReady, nodeVars, Write, Ends,
         Endpoint, Message
    <2>3. QED
      BY <2>1, <2>2 DEF HandshakeInv, TypeOK, SendReady, nodeVars, Ends
  <1>2. \A x \in Ends : EndInv(x)'
    BY TwoEnds DEF HandshakeInv, TypeOK, SendReady, Endpoint, Connecting,
       EndInv, Admitted, Expects, nodeVars, Ends
  <1>3. /\ \A x \in Ends : /\ end'[x].accepted = end[x].accepted
                            /\ end'[x].local = end[x].local
                            /\ end'[x].device = end[x].device
        /\ end'["client"] = end["client"]
    BY DEF HandshakeInv, TypeOK, SendReady, Endpoint, Ends
  <1>4. WireInv'
    <2>1. WireInv /\ wire \in [Ends -> SUBSET Message] /\ end["server"].accepted
      BY DEF HandshakeInv, TypeOK, SendReady, EndInv, Ends
    <2>2. \A x \in Ends, m \in Message :
             m \in wire'[x] =>
                m \in wire[x] \/ (x = "client" /\ m.kind = "ready")
      BY <2>1 DEF SendReady, Write, Ends, Other
    <2>3. wire' \in [Ends -> SUBSET Message]
      BY <1>1 DEF TypeOK
    <2>4. \A x \in Ends : Certificate(x)' = Certificate(x)
      BY <1>3 DEF Certificate
    <2>5. QED
      BY <2>1, <2>2, <2>3, <2>4, <1>3, TwoEnds DEF WireInv, Ends
  <1>5. QED
    BY <1>1, <1>2, <1>3, <1>4 DEF HandshakeInv, Admitted, Ends

\* The invariant is kept when the client is confirmed.
LEMMA ReceiveReadyKeeps ==
    ASSUME HandshakeInv, ReceiveReady
    PROVE  HandshakeInv'
  <1>1. TypeOK'
    <2>1. end' \in [Ends -> Endpoint]
      <3> DEFINE new == [end["client"] EXCEPT !.pc = "admitted"]
      <3>1. end \in [Ends -> Endpoint] /\ end["client"] \in Endpoint
        BY DEF HandshakeInv, TypeOK, Ends
      <3>2. new \in Endpoint
        BY <3>1 DEF Endpoint, Connecting
      <3>3. end' = [end EXCEPT !["client"] = new]
        BY DEF ReceiveReady
      <3>4. QED
        BY <3>1, <3>2, <3>3 DEF Ends
    <2>2. wire' \in [Ends -> SUBSET Message]
      BY DEF HandshakeInv, TypeOK, ReceiveReady, nodeVars, connVars
    <2>3. QED
      BY <2>1, <2>2 DEF HandshakeInv, TypeOK, ReceiveReady, nodeVars, connVars
  <1>2. \A x \in Ends : EndInv(x)'
    BY TwoEnds DEF HandshakeInv, TypeOK, ReceiveReady, Endpoint, Connecting,
       EndInv, Admitted, Expects, nodeVars, connVars, Ends
  <1>3. WireInv'
    BY TwoEnds DEF HandshakeInv, TypeOK, ReceiveReady, Endpoint, WireInv,
       Certificate, nodeVars, connVars, EndInv, Ends
  <1>4. QED
    BY <1>1, <1>2, <1>3 DEF HandshakeInv, TypeOK, ReceiveReady, Endpoint,
       Admitted, Ends, nodeVars, connVars, WireInv, VerifySecurePeer

\* The invariant is kept when the pinned key is bound.
LEMMA BindFingerprintKeeps ==
    ASSUME HandshakeInv, NEW e \in Ends, BindFingerprint(e)
    PROVE  HandshakeInv'
  <1>1. TypeOK'
    <2>1. end' \in [Ends -> Endpoint]
      <3> DEFINE new == [end[e] EXCEPT !.pc = "open", !.bound = end[e].pinned]
      <3>1. end \in [Ends -> Endpoint] /\ end[e] \in Endpoint
        BY DEF HandshakeInv, TypeOK, Endpoint
      <3>2. new \in Endpoint
        BY <3>1 DEF Endpoint, Connecting
      <3>3. end' = [end EXCEPT ![e] = new]
        BY DEF BindFingerprint
      <3>4. QED
        BY <3>1, <3>2, <3>3 DEF Ends
    <2>2. wire' \in [Ends -> SUBSET Message]
      BY DEF HandshakeInv, TypeOK, BindFingerprint, nodeVars, connVars
    <2>3. QED
      BY <2>1, <2>2 DEF HandshakeInv, TypeOK, BindFingerprint, nodeVars,
         connVars
  <1>2. \A x \in Ends : EndInv(x)'
    BY TwoEnds DEF HandshakeInv, TypeOK, BindFingerprint, Endpoint,
       Connecting, EndInv, Admitted, Expects, nodeVars, connVars, Ends
  <1>3. WireInv'
    <2>1. \A x \in Ends : /\ end'[x].device = end[x].device
                          /\ end'[x].local = end[x].local
                          /\ end'[x].accepted = end[x].accepted
      BY DEF HandshakeInv, TypeOK, BindFingerprint, Endpoint
    <2>2. WireInv /\ wire' = wire
      BY DEF HandshakeInv, BindFingerprint, connVars
    <2>3. QED
      BY <2>1, <2>2, TwoEnds DEF WireInv, Certificate, Ends
  <1>4. QED
    BY <1>1, <1>2, <1>3 DEF HandshakeInv, TypeOK, BindFingerprint, Endpoint,
       Admitted, Ends, nodeVars, connVars

\* The invariant is kept when an end gives up.
LEMMA GiveUpKeeps ==
    ASSUME HandshakeInv, NEW e \in Ends, GiveUp(e)
    PROVE  HandshakeInv'
  <1>1. TypeOK'
    <2>1. end' \in [Ends -> Endpoint]
      <3> DEFINE new == [end[e] EXCEPT !.pc = "failed"]
      <3>1. end \in [Ends -> Endpoint] /\ end[e] \in Endpoint
        BY DEF HandshakeInv, TypeOK, Endpoint
      <3>2. new \in Endpoint
        BY <3>1 DEF Endpoint, Connecting
      <3>3. end' = [end EXCEPT ![e] = new]
        BY DEF GiveUp
      <3>4. QED
        BY <3>1, <3>2, <3>3 DEF Ends
    <2>2. wire' \in [Ends -> SUBSET Message]
      BY DEF HandshakeInv, TypeOK, GiveUp, nodeVars
    <2>3. QED
      BY <2>1, <2>2 DEF HandshakeInv, TypeOK, GiveUp, nodeVars, Ends
  <1>2. \A x \in Ends : EndInv(x)'
    BY TwoEnds DEF HandshakeInv, TypeOK, GiveUp, Endpoint, Connecting, EndInv,
       Admitted, Expects, nodeVars, Ends
  <1>3. WireInv'
    BY TwoEnds DEF HandshakeInv, TypeOK, GiveUp, Endpoint, WireInv,
       Certificate, nodeVars, EndInv, Ends
  <1>4. QED
    BY <1>1, <1>2, <1>3 DEF HandshakeInv, TypeOK, GiveUp, Endpoint, Admitted,
       Ends, nodeVars

\* The invariant is kept when an end refuses.
LEMMA RefuseUntrustedKeeps ==
    ASSUME HandshakeInv, NEW e \in Ends, RefuseUntrusted(e)
    PROVE  HandshakeInv'
  <1>1. TypeOK'
    <2>1. end' \in [Ends -> Endpoint]
      <3> DEFINE new == [end[e] EXCEPT !.pc = "failed"]
      <3>1. end \in [Ends -> Endpoint] /\ end[e] \in Endpoint
        BY DEF HandshakeInv, TypeOK, Endpoint
      <3>2. new \in Endpoint
        BY <3>1 DEF Endpoint, Connecting
      <3>3. end' = [end EXCEPT ![e] = new]
        BY DEF RefuseUntrusted
      <3>4. QED
        BY <3>1, <3>2, <3>3 DEF Ends
    <2>2. wire' \in [Ends -> SUBSET Message]
      BY DEF HandshakeInv, TypeOK, RefuseUntrusted, nodeVars
    <2>3. QED
      BY <2>1, <2>2 DEF HandshakeInv, TypeOK, RefuseUntrusted, nodeVars, Ends
  <1>2. \A x \in Ends : EndInv(x)'
    BY TwoEnds DEF HandshakeInv, TypeOK, RefuseUntrusted, Endpoint,
       Connecting, EndInv, Admitted, Expects, nodeVars, Ends
  <1>3. WireInv'
    BY TwoEnds DEF HandshakeInv, TypeOK, RefuseUntrusted, Endpoint, WireInv,
       Certificate, nodeVars, EndInv, Ends
  <1>4. QED
    BY <1>1, <1>2, <1>3 DEF HandshakeInv, TypeOK, RefuseUntrusted, Endpoint,
       Admitted, Ends, nodeVars

\* The invariant is kept when a capability handshake is sent.
LEMMA SendHandshakeKeeps ==
    ASSUME HandshakeInv, NEW e \in Ends, SendHandshake(e)
    PROVE  HandshakeInv'
  <1>1. TypeOK'
    <2>1. end' \in [Ends -> Endpoint]
      BY DEF HandshakeInv, TypeOK, SendHandshake
    <2>2. wire' \in [Ends -> SUBSET Message]
      BY TwoEnds DEF HandshakeInv, TypeOK, SendHandshake, nodeVars, Write,
         Ends, Endpoint, Message
    <2>3. QED
      BY <2>1, <2>2 DEF HandshakeInv, TypeOK, SendHandshake, nodeVars
  <1>2. \A x \in Ends : EndInv(x)'
    BY TwoEnds DEF HandshakeInv, TypeOK, SendHandshake, Endpoint, Connecting,
       EndInv, Admitted, Expects, nodeVars, Ends
  <1>3. WireInv'
    BY TwoEnds DEF HandshakeInv, TypeOK, SendHandshake, Endpoint, WireInv,
       Certificate, nodeVars, EndInv, Ends, Write, Message
  <1>4. QED
    BY <1>1, <1>2, <1>3 DEF HandshakeInv, TypeOK, SendHandshake, Endpoint,
       Admitted, Ends, nodeVars

\* The invariant is kept when a capability handshake is received.
LEMMA ReceiveHandshakeKeeps ==
    ASSUME HandshakeInv, NEW e \in Ends, ReceiveHandshake(e)
    PROVE  HandshakeInv'
  <1>1. TypeOK'
    <2>1. end' \in [Ends -> Endpoint]
      <3>1. end \in [Ends -> Endpoint] /\ end[e] \in Endpoint
        BY DEF HandshakeInv, TypeOK
      <3>2. [end[e] EXCEPT !.heard = TRUE] \in Endpoint
        BY <3>1 DEF Endpoint
      <3>3. end' = [end EXCEPT ![e] = [end[e] EXCEPT !.heard = TRUE]]
        BY DEF ReceiveHandshake
      <3>4. QED
        BY <3>1, <3>2, <3>3
    <2>2. wire' \in [Ends -> SUBSET Message]
      BY DEF HandshakeInv, TypeOK, ReceiveHandshake, nodeVars, connVars
    <2>3. QED
      BY <2>1, <2>2 DEF HandshakeInv, TypeOK, ReceiveHandshake, nodeVars,
         connVars
  <1>2. \A x \in Ends : EndInv(x)'
    BY TwoEnds DEF HandshakeInv, TypeOK, ReceiveHandshake, Endpoint,
       Connecting, EndInv, Admitted, Expects, nodeVars, connVars, Ends
  <1>3. WireInv'
    BY TwoEnds DEF HandshakeInv, TypeOK, ReceiveHandshake, Endpoint, WireInv,
       Certificate, nodeVars, connVars, EndInv, Ends
  <1>4. QED
    BY <1>1, <1>2, <1>3 DEF HandshakeInv, TypeOK, ReceiveHandshake, Endpoint,
       Admitted, Ends, nodeVars, connVars

\* The invariant is kept when no capability handshake can come.
LEMMA HandshakeFailsKeeps ==
    ASSUME HandshakeInv, NEW e \in Ends, HandshakeFails(e)
    PROVE  HandshakeInv'
  <1>1. TypeOK'
    <2>1. end' \in [Ends -> Endpoint]
      <3> DEFINE new == [end[e] EXCEPT !.pc = "closed"]
      <3>1. end \in [Ends -> Endpoint] /\ end[e] \in Endpoint
        BY DEF HandshakeInv, TypeOK, Endpoint
      <3>2. new \in Endpoint
        BY <3>1 DEF Endpoint, Connecting
      <3>3. end' = [end EXCEPT ![e] = new]
        BY DEF HandshakeFails
      <3>4. QED
        BY <3>1, <3>2, <3>3 DEF Ends
    <2>2. wire' \in [Ends -> SUBSET Message]
      BY DEF HandshakeInv, TypeOK, HandshakeFails, nodeVars
    <2>3. QED
      BY <2>1, <2>2 DEF HandshakeInv, TypeOK, HandshakeFails, nodeVars, Ends
  <1>2. \A x \in Ends : EndInv(x)'
    BY TwoEnds DEF HandshakeInv, TypeOK, HandshakeFails, Endpoint, Connecting,
       EndInv, Admitted, Expects, nodeVars, Ends
  <1>3. WireInv'
    BY TwoEnds DEF HandshakeInv, TypeOK, HandshakeFails, Endpoint, WireInv,
       Certificate, nodeVars, EndInv, Ends
  <1>4. QED
    BY <1>1, <1>2, <1>3 DEF HandshakeInv, TypeOK, HandshakeFails, Endpoint,
       Admitted, Ends, nodeVars

\* The invariant is kept when a peer is closed.
LEMMA CloseKeeps ==
    ASSUME HandshakeInv, NEW e \in Ends, Close(e)
    PROVE  HandshakeInv'
  <1>1. TypeOK'
    <2>1. end' \in [Ends -> Endpoint]
      <3> DEFINE new == [end[e] EXCEPT !.pc = "closed"]
      <3>1. end \in [Ends -> Endpoint] /\ end[e] \in Endpoint
        BY DEF HandshakeInv, TypeOK, Endpoint
      <3>2. new \in Endpoint
        BY <3>1 DEF Endpoint, Connecting
      <3>3. end' = [end EXCEPT ![e] = new]
        BY DEF Close
      <3>4. QED
        BY <3>1, <3>2, <3>3 DEF Ends
    <2>2. wire' \in [Ends -> SUBSET Message]
      BY DEF HandshakeInv, TypeOK, Close, nodeVars
    <2>3. QED
      BY <2>1, <2>2 DEF HandshakeInv, TypeOK, Close, nodeVars, Ends
  <1>2. \A x \in Ends : EndInv(x)'
    BY TwoEnds DEF HandshakeInv, TypeOK, Close, Endpoint, Connecting, EndInv,
       Admitted, Expects, nodeVars, Ends
  <1>3. WireInv'
    BY TwoEnds DEF HandshakeInv, TypeOK, Close, Endpoint, WireInv,
       Certificate, nodeVars, EndInv, Ends
  <1>4. QED
    BY <1>1, <1>2, <1>3 DEF HandshakeInv, TypeOK, Close, Endpoint, Admitted,
       Ends, nodeVars

\* Every step keeps the invariant.
LEMMA StepInv == HandshakeInv /\ [Next]_vars => HandshakeInv'
  <1> SUFFICES ASSUME HandshakeInv, [Next]_vars PROVE HandshakeInv'
    OBVIOUS
  <1>1. CASE Next
    BY <1>1, RotateKeeps, ChangeTrustKeeps, LoseConnectionKeeps,
       ResolveTrustKeeps, LoadKeyKeeps, DialKeeps, AnswerHelloKeeps,
       VerifyServerKeeps, VerifyClientKeeps, SendReadyKeeps,
       ReceiveReadyKeeps, BindFingerprintKeeps, GiveUpKeeps,
       RefuseUntrustedKeeps, SendHandshakeKeeps, ReceiveHandshakeKeeps,
       HandshakeFailsKeeps, CloseKeeps DEF Next
  <1>2. CASE UNCHANGED vars
    BY <1>2 DEF vars, nodeVars, connVars, HandshakeInv, TypeOK, EndInv,
       WireInv, Admitted, Expects, Certificate
  <1>3. QED
    BY <1>1, <1>2

\* HandshakeInv always holds: what an end has come to determines what it holds
\* and what it has written.
THEOREM HandshakeInvariant == Spec => []HandshakeInv
  BY InitInv, StepInv, PTL DEF Spec

\* The variables of both ends keep their types.
THEOREM HandshakeTyped == Spec => []TypeOK
  <1>1. HandshakeInv => TypeOK
    BY DEF HandshakeInv
  <1>2. QED
    BY <1>1, HandshakeInvariant, PTL

\* DialSecurePeer returns a peer only after both ends have accepted each other
\* with the keys they use.
THEOREM DialIsMutual == Spec => []MutuallyAccepted
  <1>1. HandshakeInv => MutuallyAccepted
    BY DEF HandshakeInv, MutuallyAccepted, EndInv, Ends
  <1>2. QED
    BY <1>1, HandshakeInvariant, PTL

\* AcceptSecurePeer returns a peer only when the client has verified it too.
THEOREM AcceptIsMutual == Spec => []ServerAdmitsItsClient
  <1>1. HandshakeInv => ServerAdmitsItsClient
    BY DEF HandshakeInv, ServerAdmitsItsClient, EndInv, Ends
  <1>2. QED
    BY <1>1, HandshakeInvariant, PTL

\* The fingerprint bound to a peer is the key's that it authenticated with.
THEOREM BoundKeyIsAuthenticated == Spec => []BoundIsTheKeyInUse
  <1>1. HandshakeInv => BoundIsTheKeyInUse
    BY DEF HandshakeInv, BoundIsTheKeyInUse, EndInv, Expects, Ends
  <1>2. QED
    BY <1>1, HandshakeInvariant, PTL
=============================================================================
