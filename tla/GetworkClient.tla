---------------------------- MODULE GetworkClient ----------------------------
(***************************************************************************)
(* The getwork client of internal/getwork/client.go: Run's redial loop,    *)
(* connectAndServe's reader (the same goroutine) and the writer goroutine  *)
(* of a session, with the callbacks pkg/engine/engine.go (and main.go)     *)
(* gives it: OnJob = onJob, OnDisconnect = State.Invalidate and            *)
(* SubmitValid = Active() && Epoch() == s.Epoch.                           *)
(*                                                                         *)
(* The socket is `conn`: "open", "lost" (the peer closed or reset it, went *)
(* silent for the read timeout, or sent a frame that does not decode: the  *)
(* reader will get an error once it has read what is buffered) or "closed" *)
(* by this side.  What the server sends is the environment's choice from   *)
(* Pushes.                                                                 *)
(***************************************************************************)
EXTENDS Worker

CONSTANTS Pushes,          \* frames the server may send
          InitialBackoff,  \* seconds
          MaxBackoff,      \* seconds
          MaxEpoch,        \* bound: a push is read only below this epoch
          MaxSessions      \* bound: sessions in a behaviour

ASSUME ClientAssumption ==
    /\ Pushes \subseteq Push
    /\ InitialBackoff \in Nat \ {0}
    /\ MaxBackoff \in Nat \ {0}
    /\ InitialBackoff <= MaxBackoff
    /\ MaxEpoch \in Nat
    /\ MaxSessions \in Nat

VARIABLES cpc,        \* where Run / connectAndServe is
          wrpc,       \* where the writer goroutine is
          conn,       \* the socket
          quit,       \* the session's quit channel is closed
          held,       \* the share in the writer's hands
          served,     \* jobs > 0: this session delivered a valid job
          backoff,
          Connected, SendFails, Discarded,   \* the client's counters
          drained,    \* n of discardStaleSubmits
          session,    \* history: sessions established
          wire,       \* history: shares written, with the session's number
          written     \* history: number of shares written

clientVars == <<cpc, wrpc, conn, quit, held, served, backoff, Connected,
                SendFails, Discarded, drained, session, wire, written>>

ClientPCs == {"run", "dial", "retry", "backoff", "drain", "read", "onjob",
              "reject", "join", "teardown", "done"}

WriterPCs == {"none", "select", "valid", "validEpoch", "write", "done"}

ClientTypeOK ==
    /\ cpc \in ClientPCs
    /\ wrpc \in WriterPCs
    /\ conn \in {"none", "open", "lost", "closed"}
    /\ quit \in BOOLEAN
    /\ held \in Share
    /\ served \in BOOLEAN
    /\ backoff \in InitialBackoff..MaxBackoff
    /\ Connected \in BOOLEAN
    /\ SendFails \in Nat
    /\ Discarded \in Nat
    /\ drained \in Nat
    /\ session \in Nat
    /\ wire \subseteq [share: Share, session: Nat]
    /\ written \in Nat

NoShare == [work |-> NoWork, epoch |-> 0]

ClientInit ==
    /\ cpc = "run"
    /\ wrpc = "none"
    /\ conn = "none"
    /\ quit = FALSE
    /\ held = NoShare
    /\ served = FALSE
    /\ backoff = InitialBackoff
    /\ Connected = FALSE
    /\ SendFails = 0
    /\ Discarded = 0
    /\ drained = 0
    /\ session = 0
    /\ wire = {}
    /\ written = 0

-----------------------------------------------------------------------------
(* Run: the redial loop.                                                   *)

RunLoop ==
    /\ cpc = "run"
    /\ cpc' = IF cancelled THEN "done" ELSE "dial"
    /\ UNCHANGED <<wrpc, conn, quit, held, served, backoff, Connected,
                   SendFails, Discarded, drained, session, wire, written>>

\* After connectAndServe: a cancelled context ends Run; a session that served
\* jobs is redialled at once with a fresh backoff; anything else waits.
AfterSession ==
    /\ cpc = "retry"
    /\ cpc' = IF cancelled THEN "done" ELSE IF served THEN "run" ELSE "backoff"
    /\ backoff' = IF served /\ ~cancelled THEN InitialBackoff ELSE backoff
    /\ served' = FALSE
    /\ UNCHANGED <<wrpc, conn, quit, held, Connected, SendFails,
                   Discarded, drained, session, wire, written>>

BackoffCancelled ==
    /\ cpc = "backoff"
    /\ cancelled
    /\ cpc' = "done"
    /\ UNCHANGED <<wrpc, conn, quit, held, served, backoff, Connected,
                   SendFails, Discarded, drained, session, wire, written>>

\* The timer fires; the next wait is twice as long, up to MaxBackoff.
BackoffOver ==
    /\ cpc = "backoff"
    /\ cpc' = "run"
    /\ backoff' = IF 2 * backoff > MaxBackoff THEN MaxBackoff ELSE 2 * backoff
    /\ UNCHANGED <<wrpc, conn, quit, held, served, Connected, SendFails,
                   Discarded, drained, session, wire, written>>

-----------------------------------------------------------------------------
(* connectAndServe: dial, drain, start the writer, read.                   *)

DialFail ==
    /\ cpc = "dial"
    /\ cpc' = "retry"
    /\ UNCHANGED <<wrpc, conn, quit, held, served, backoff, Connected, SendFails,
                   Discarded, drained, session, wire, written>>

DialOK ==
    /\ cpc = "dial"
    /\ session < MaxSessions
    /\ session' = session + 1
    /\ conn' = "open"
    /\ Connected' = TRUE
    /\ cpc' = "drain"
    /\ UNCHANGED <<wrpc, quit, held, served, backoff, SendFails, Discarded,
                   drained, wire, written>>

\* discardStaleSubmits takes one buffered share at a time ...
DrainOne ==
    /\ cpc = "drain"
    /\ queue # <<>>
    /\ queue' = Tail(queue)
    /\ drained' = drained + 1
    /\ UNCHANGED <<cpc, wrpc, conn, quit, held, served, backoff, Connected,
                   SendFails, Discarded, session, wire, written>>

\* A variant of DrainEnd (below) that does not count what it drained.
DrainEndUncounted ==
    /\ cpc = "drain"
    /\ queue = <<>>
    /\ drained' = 0
    /\ wrpc' = "select"
    /\ cpc' = "read"
    /\ UNCHANGED <<conn, quit, held, served, backoff, Connected, SendFails,
                   Discarded, session, wire, written>>

\* ... and stops at the first moment the channel is empty; the writer starts.
DrainEnd ==
    /\ cpc = "drain"
    /\ queue = <<>>
    /\ Discarded' = Discarded + drained
    /\ drained' = 0
    /\ wrpc' = "select"
    /\ cpc' = "read"
    /\ UNCHANGED <<conn, quit, held, served, backoff, Connected, SendFails,
                   session, wire, written>>

\* ReadJSON returns a frame and OnJob takes it.  It may do so after the link was
\* lost or this side closed it: the connection's read buffer still delivers the
\* frames it holds.  Valid work goes to SetJob, ...
ReadJob(p) ==
    /\ cpc = "read"
    /\ epoch < MaxEpoch
    /\ Validate(p) = "ok"
    /\ cpc' = "onjob"
    /\ SetJobWrite(p.work)
    /\ UNCHANGED <<wrpc, conn, quit, held, served, backoff, Connected,
                   SendFails, Discarded, drained, session, wire, written>>

\* ... a wrong version stops the workers, ...
ReadBadVersion(p) ==
    /\ cpc = "read"
    /\ Validate(p) = "ErrBadVersion"
    /\ InvalidateSwap
    /\ cpc' = IF active THEN "reject" ELSE "read"
    /\ UNCHANGED <<wrpc, conn, quit, held, served, backoff, Connected,
                   SendFails, Discarded, drained, session, wire, written>>

\* ... and any other rejected frame is a keepalive: the last job stays.
ReadIgnored(p) ==
    /\ cpc = "read"
    /\ Validate(p) \in Errors \ {"ErrBadVersion"}
    /\ UNCHANGED clientVars
    /\ UNCHANGED stateVars

\* SetJob returns, OnJob reports valid work, jobs++.
OnJobReturn ==
    /\ cpc = "onjob"
    /\ SetJobMirror
    /\ served' = TRUE
    /\ cpc' = "read"
    /\ UNCHANGED <<wrpc, conn, quit, held, backoff, Connected, SendFails,
                   Discarded, drained, session, wire, written>>

\* A variant of ReadError (below) without close(quit): the writer stays parked.
ReadErrorNoQuit ==
    /\ cpc = "read"
    /\ conn \in {"lost", "closed"}
    /\ conn' = "closed"
    /\ cpc' = "join"
    /\ UNCHANGED <<wrpc, quit, held, served, backoff, Connected, SendFails,
                   Discarded, drained, session, wire, written>>

\* ReadJSON fails: close the socket, tell the writer to quit, wait for it.
ReadError ==
    /\ cpc = "read"
    /\ conn \in {"lost", "closed"}
    /\ conn' = "closed"
    /\ quit' = TRUE
    /\ cpc' = "join"
    /\ UNCHANGED <<wrpc, held, served, backoff, Connected, SendFails,
                   Discarded, drained, session, wire, written>>

\* A variant of Join (below) without OnDisconnect: the dead session's job stays.
JoinKeepsJob ==
    /\ cpc = "join"
    /\ wrpc = "done"
    /\ wrpc' = "none"
    /\ quit' = FALSE
    /\ Connected' = FALSE
    /\ cpc' = "retry"
    /\ conn' = "none"
    /\ UNCHANGED stateVars
    /\ UNCHANGED <<held, served, backoff, SendFails, Discarded, drained,
                   session, wire, written>>

\* <-writerDone, then the deferred calls: Connected.Store(false), OnDisconnect
\* (Invalidate) and conn.Close().  quit and the writer end with the session.
Join ==
    /\ cpc = "join"
    /\ wrpc = "done"
    /\ wrpc' = "none"
    /\ quit' = FALSE
    /\ Connected' = FALSE
    /\ InvalidateSwap
    /\ IF active THEN cpc' = "teardown" /\ conn' = conn
                 ELSE cpc' = "retry" /\ conn' = "none"
    /\ UNCHANGED <<held, served, backoff, SendFails, Discarded, drained,
                   session, wire, written>>

\* The rest of Invalidate, and its return to the reader (a rejected version)
\* or out of connectAndServe (the end of a session).
InvalidateReturn ==
    /\ InvalidateBump(session)
    /\ IF cpc = "reject" THEN cpc' = "read" /\ conn' = conn
                         ELSE cpc' = "retry" /\ conn' = "none"
    /\ UNCHANGED <<wrpc, quit, held, served, backoff, Connected, SendFails,
                   Discarded, drained, session, wire, written>>

SetJobStep ==
    /\ SetJobBump(session) \/ SetJobActivate
    /\ UNCHANGED clientVars

-----------------------------------------------------------------------------
(* The writer goroutine: select over ctx.Done, quit and Submits.           *)

\* A variant of WriterCancelled (below) that leaves the reader blocked.
WriterCancelledNoClose ==
    /\ wrpc = "select"
    /\ cancelled
    /\ wrpc' = "done"
    /\ UNCHANGED <<cpc, conn, quit, held, served, backoff, Connected,
                   SendFails, Discarded, drained, session, wire, written>>

WriterCancelled ==
    /\ wrpc = "select"
    /\ cancelled
    /\ conn' = "closed"
    /\ wrpc' = "done"
    /\ UNCHANGED <<cpc, quit, held, served, backoff, Connected, SendFails,
                   Discarded, drained, session, wire, written>>

WriterQuit ==
    /\ wrpc = "select"
    /\ quit
    /\ wrpc' = "done"
    /\ UNCHANGED <<cpc, conn, quit, held, served, backoff, Connected,
                   SendFails, Discarded, drained, session, wire, written>>

WriterTake ==
    /\ wrpc = "select"
    /\ queue # <<>>
    /\ held' = Head(queue)
    /\ queue' = Tail(queue)
    /\ wrpc' = "valid"
    /\ UNCHANGED <<cpc, conn, quit, served, backoff, Connected, SendFails,
                   Discarded, drained, session, wire, written>>

\* submitIsCurrent says no: the share is dropped and counted.
WriterDiscard ==
    /\ Discarded' = Discarded + 1
    /\ held' = NoShare
    /\ wrpc' = "select"

\* SubmitValid: Active() ...
WriterActive ==
    /\ wrpc = "valid"
    /\ IF active THEN wrpc' = "validEpoch" /\ UNCHANGED <<Discarded, held>>
                 ELSE WriterDiscard
    /\ UNCHANGED <<cpc, conn, quit, served, backoff, Connected, SendFails,
                   drained, session, wire, written>>

\* A variant of WriterEpoch (below): any share passes while a job is live.
WriterEpochUnchecked ==
    /\ wrpc = "validEpoch"
    /\ wrpc' = "write"
    /\ UNCHANGED <<cpc, conn, quit, held, served, backoff, Connected, SendFails,
                   Discarded, drained, session, wire, written>>

\* ... && Epoch() == s.Epoch
WriterEpoch ==
    /\ wrpc = "validEpoch"
    /\ IF epoch = held.epoch THEN wrpc' = "write" /\ UNCHANGED <<Discarded, held>>
                             ELSE WriterDiscard
    /\ UNCHANGED <<cpc, conn, quit, served, backoff, Connected, SendFails,
                   drained, session, wire, written>>

\* WriteJSON succeeds; it may, as long as this side has not closed the socket.
WriteOK ==
    /\ wrpc = "write"
    /\ conn \in {"open", "lost"}
    /\ wire' = wire \cup {[share |-> held, session |-> session]}
    /\ written' = written + 1
    /\ held' = NoShare
    /\ wrpc' = "select"
    /\ UNCHANGED <<cpc, conn, quit, served, backoff, Connected, SendFails,
                   Discarded, drained, session>>

\* WriteJSON fails (closed, reset or past the write deadline).
WriteFail ==
    /\ wrpc = "write"
    /\ SendFails' = SendFails + 1
    /\ conn' = "closed"
    /\ held' = NoShare
    /\ wrpc' = "done"
    /\ UNCHANGED <<cpc, quit, served, backoff, Connected, Discarded, drained,
                   session, wire, written>>

\* The environment: the link dies under an established session.
LinkLost ==
    /\ conn = "open"
    /\ conn' = "lost"
    /\ UNCHANGED <<cpc, wrpc, quit, held, served, backoff, Connected,
                   SendFails, Discarded, drained, session, wire, written>>

=============================================================================
