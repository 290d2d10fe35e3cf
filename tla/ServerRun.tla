------------------------------ MODULE ServerRun ------------------------------
(***************************************************************************)
(* Server.Run: a goroutine listens and serves, and sends what it ends with *)
(* on a channel; Run waits for that or for its context, shuts down within  *)
(* a time limit, and then waits for the goroutine.                         *)
(*                                                                         *)
(* net/http is modelled from its use: Shutdown marks the server, closes    *)
(* the listener, waits for the serving goroutine to leave its loop, closes *)
(* idle connections and waits for the active ones; a server that is marked *)
(* serves no more.  A handler may take for ever, for nothing limits how    *)
(* long a body may be on its way.                                          *)
(***************************************************************************)
EXTENDS Naturals, Sequences

CONSTANT Conns  \* connections that may be open at a time

\* What ListenAndServe, Shutdown and Run may return.
Errors == {"closed", "listen", "accept", "deadline"}
Results == Errors \cup {"nil"}

VARIABLES
    ctx,      \* the context of the call: "live" or "done"
    run,      \* where Run is, and what it has returned
    serve,    \* where the goroutine is, and what it ends with
    errCh,    \* the channel between them
    marked,   \* the server is shutting down
    timeUp,   \* the limit of the shutdown has passed
    conn      \* the connections

serverVars == <<ctx, run, serve, errCh, marked, timeUp, conn>>

ServerInit ==
    /\ ctx = "live"
    /\ run = [pc |-> "select", result |-> "nil"]
    /\ serve = [pc |-> "listen", err |-> "nil"]
    /\ errCh = <<>>
    /\ marked = FALSE
    /\ timeUp = FALSE
    /\ conn = [c \in Conns |-> "none"]

Active == {c \in Conns : conn[c] = "active"}

-----------------------------------------------------------------------------
(* The goroutine.                                                          *)

EndWith(err) ==
    /\ serve' = [pc |-> "send", err |-> err]
    /\ UNCHANGED <<ctx, run, errCh, marked, timeUp, conn>>

\* ListenAndServe: a marked server does not start, before or after it listens.
Listen ==
    /\ serve.pc = "listen"
    /\ \/ marked /\ EndWith("closed")
       \/ ~ marked /\ EndWith("listen")
       \/ /\ ~ marked
          /\ serve' = [serve EXCEPT !.pc = "accept"]
          /\ UNCHANGED <<ctx, run, errCh, marked, timeUp, conn>>

\* A connection is accepted and its first request handled.
Connect(c) ==
    /\ serve.pc = "accept"
    /\ ~ marked
    /\ conn[c] = "none"
    /\ conn' = [conn EXCEPT ![c] = "active"]
    /\ UNCHANGED <<ctx, run, serve, errCh, marked, timeUp>>

\* The loop ends, because the listener was closed or is broken.
StopServing ==
    /\ serve.pc = "accept"
    /\ EndWith(IF marked THEN "closed" ELSE "accept")

\* Variant: the channel has no buffer.
Rendezvous == run.pc \in {"select", "await"}

\* The channel holds one value.
Room == Len(errCh) < 1

\* errCh <- err, and the goroutine is done.
Send ==
    /\ serve.pc = "send"
    /\ Room
    /\ errCh' = Append(errCh, serve.err)
    /\ serve' = [serve EXCEPT !.pc = "ended"]
    /\ UNCHANGED <<ctx, run, marked, timeUp, conn>>

\* A handler returns; the connection is kept for another request, or closed, as
\* it is on a marked server.
Respond(c) ==
    /\ conn[c] = "active"
    /\ \E s \in {"idle", "none"} :
          /\ marked => s = "none"
          /\ conn' = [conn EXCEPT ![c] = s]
    /\ UNCHANGED <<ctx, run, serve, errCh, marked, timeUp>>

\* Another request on a connection that was kept, or its end.
Reuse(c) ==
    /\ conn[c] = "idle"
    /\ \E s \in {"active", "none"} : conn' = [conn EXCEPT ![c] = s]
    /\ UNCHANGED <<ctx, run, serve, errCh, marked, timeUp>>

-----------------------------------------------------------------------------
(* Run.                                                                    *)

ReturnWith(result) == run' = [pc |-> "returned", result |-> result]

\* ErrServerClosed is no error.
Reported(err) == IF err = "closed" THEN "nil" ELSE err

\* The channel is read, in the select or after a shutdown.
TakeError ==
    /\ run.pc \in {"select", "await"}
    /\ errCh # <<>>
    /\ ReturnWith(Reported(Head(errCh)))
    /\ errCh' = Tail(errCh)
    /\ UNCHANGED <<ctx, serve, marked, timeUp, conn>>

\* The context is done, also when the channel could be read: Shutdown begins.
BeginShutdown ==
    /\ run.pc = "select"
    /\ ctx = "done"
    /\ run' = [run EXCEPT !.pc = "shutdown"]
    /\ marked' = TRUE
    /\ timeUp' = FALSE
    /\ UNCHANGED <<ctx, serve, errCh, conn>>

\* Shutdown has closed what is idle and nothing else is open.
Drained ==
    /\ serve.pc # "accept"
    /\ Active = {}

Shutdown ==
    /\ run.pc = "shutdown"
    /\ Drained
    /\ conn' = [c \in Conns |-> "none"]
    /\ run' = [run EXCEPT !.pc = "await"]
    /\ UNCHANGED <<ctx, serve, errCh, marked, timeUp>>

\* Variant: an error of Shutdown is ignored.
ShutdownIgnored ==
    /\ run.pc = "shutdown"
    /\ timeUp
    /\ run' = [run EXCEPT !.pc = "await"]
    /\ UNCHANGED <<ctx, serve, errCh, marked, timeUp, conn>>

\* The limit has passed: Run returns, whatever goes on.
ShutdownFails ==
    /\ run.pc = "shutdown"
    /\ timeUp
    /\ ReturnWith("deadline")
    /\ UNCHANGED <<ctx, serve, errCh, marked, timeUp, conn>>

-----------------------------------------------------------------------------

\* A signal arrives.
Cancel ==
    /\ ctx = "live"
    /\ ctx' = "done"
    /\ UNCHANGED <<run, serve, errCh, marked, timeUp, conn>>

Timeout ==
    /\ run.pc = "shutdown"
    /\ ~ timeUp
    /\ timeUp' = TRUE
    /\ UNCHANGED <<ctx, run, serve, errCh, marked, conn>>

Goroutine == Listen \/ StopServing \/ Send
Caller == TakeError \/ BeginShutdown \/ Shutdown \/ ShutdownFails

ServerNext ==
    \/ Goroutine
    \/ Caller
    \/ \E c \in Conns : Connect(c) \/ Respond(c) \/ Reuse(c)
    \/ Cancel
    \/ Timeout

\* Goroutines that can run do, closing the listener ends the loop, and time
\* passes.  Nothing is assumed of handlers, of clients or of the listener.
ServerFairness ==
    /\ WF_serverVars(Caller)
    /\ WF_serverVars(Listen)
    /\ WF_serverVars(marked /\ StopServing)
    /\ WF_serverVars(Send)
    /\ WF_serverVars(Timeout)

ServerSpec == ServerInit /\ [][ServerNext]_serverVars /\ ServerFairness

-----------------------------------------------------------------------------
(* Properties.                                                             *)

\* Every variable has a value of its type; the goroutine never has more than
\* its one value in the channel.
ServerTypeOK ==
    /\ ctx \in {"live", "done"}
    /\ run \in [pc: {"select", "shutdown", "await", "returned"}, result: Results]
    /\ serve \in [pc: {"listen", "accept", "send", "ended"}, err: Results]
    /\ errCh \in {<<>>} \cup {<<e>> : e \in Errors}
    /\ serve.pc = "ended" <=>
          errCh # <<>> \/ (run.pc = "returned" /\ run.result # "deadline")
    /\ marked \in BOOLEAN /\ timeUp \in BOOLEAN
    /\ conn \in [Conns -> {"none", "active", "idle"}]

\* "graceful process shutdown": when Run returns nil no request is being served
\* and none will be, whichever of context, limit and error came first; and an
\* error of the listener is not hidden by a context that ends, or a shutdown
\* that succeeds, at the same time.
RunTellsTheTruth ==
    run.pc = "returned" /\ run.result = "nil" =>
        /\ marked
        /\ Active = {}
        /\ serve.err \notin {"listen", "accept"}

\* A context that is done ends Run, whatever the connections do, and Run leaves
\* no goroutine behind, also when it gave up waiting.
RunEnds ==
    /\ ctx = "done" ~> run.pc = "returned"
    /\ run.pc = "returned" ~> serve.pc = "ended"

-----------------------------------------------------------------------------
(* The inductive invariant.                                                *)

\* What the goroutine ends with is decided when its loop ends, and is what it
\* sends; it is told that the server is closed only by one that is marked.
EndIsSent ==
    /\ serve.err = "nil" <=> serve.pc \in {"listen", "accept"}
    /\ serve.err # "deadline"
    /\ errCh # <<>> => errCh = <<serve.err>>
    /\ serve.err = "closed" => marked

\* Run marks the server when it leaves the select, and not before.
MarkedByRun ==
    /\ run.pc = "select" => ~ marked
    /\ run.pc \in {"shutdown", "await"} => marked
    /\ run.pc # "returned" => run.result = "nil"

\* A shutdown that came to its end has left nothing that could begin again, and
\* only such a one lets Run return nil.
Quiet ==
    /\ marked
    /\ \A c \in Conns : conn[c] = "none"
    /\ serve.pc # "accept"
QuietAfterShutdown ==
    /\ run.pc = "await" => Quiet
    /\ run.pc = "returned" /\ run.result = "nil" => Quiet /\ serve.err = "closed"

ServerInv == ServerTypeOK /\ EndIsSent /\ MarkedByRun /\ QuietAfterShutdown
=============================================================================
