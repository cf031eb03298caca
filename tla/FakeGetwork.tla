----------------------------- MODULE FakeGetwork -----------------------------
(***************************************************************************)
(* The in-process getwork daemon of pkg/fakegetwork/fakegetwork.go: a      *)
(* handler and a reader goroutine per connection, and Close, which may be  *)
(* called by several goroutines while connections arrive and leave.        *)
(*                                                                         *)
(* Every section under Server.mu is one step, so mu needs no variable;     *)
(* cbMu is held across the caller's OnSubmit and has one.  A job is its    *)
(* place in the pass, a submission its connection and its number there.    *)
(***************************************************************************)
EXTENDS Integers, Sequences, FiniteSets, SequencesExt

CONSTANTS Conns,        \* connections clients may open
          Closers,      \* goroutines that call Close
          Jobs,         \* length of a pass
          Timings,      \* the sets of intervals Options may make positive
          OnSubmit,     \* is it set?
          None,
          MaxFrames     \* bound: frames the clients send together

ASSUME ServerAssumption ==
    /\ Jobs \in Nat \ {0}
    /\ Timings \subseteq SUBSET {"PushInterval", "JobEvery"}
    /\ OnSubmit \in BOOLEAN
    /\ None \notin Conns
    /\ MaxFrames \in Nat

VARIABLES opts,         \* Options: the intervals that are positive
          hpc,          \* each connection's handler
          rpc,          \* its reader goroutine
          sock,         \* "open", "peer" (the client is gone), "closed" (by the server)
          job,          \* the job it pushes next
          frames,       \* frames read
          conns,        \* Server.conns
          handlers,     \* the WaitGroup's counter
          closed,       \* Server.closed
          submissions,  \* Server.submissions
          cbMu,         \* the connection whose reader holds it, or None
          called,       \* history: OnSubmit calls, in order
          kpc, kconns,  \* each Close call and the connections it has yet to close
          listening     \* httptest's listener is open

connVars == <<hpc, sock, job, conns, handlers>>
readVars == <<rpc, frames, submissions, cbMu, called>>
closeVars == <<opts, closed, kpc, kconns, listening>>
vars == <<connVars, readVars, closeVars>>

HandlerPCs == {"none", "request", "upgraded", "push", "pause", "hold", "every",
               "shut", "untrack", "uncount", "gone"}
ReaderPCs == {"none", "read", "append", "cblock", "callback", "done"}
CloserPCs == {"idle", "close", "wait", "srvclose", "srvwait", "returned"}

Submission == [conn: Conns, n: Nat]

\* Every variable has its type, and the WaitGroup never goes negative.
ServerTypeOK ==
    /\ opts \in Timings
    /\ hpc \in [Conns -> HandlerPCs]
    /\ rpc \in [Conns -> ReaderPCs]
    /\ sock \in [Conns -> {"open", "peer", "closed"}]
    /\ job \in [Conns -> 1..Jobs + 1]
    /\ frames \in [Conns -> Nat]
    /\ conns \subseteq Conns
    /\ handlers \in Nat
    /\ closed \in BOOLEAN
    /\ submissions \in Seq(Submission) /\ called \in Seq(Submission)
    /\ cbMu \in Conns \cup {None}
    /\ kpc \in [Closers -> CloserPCs]
    /\ kconns \in [Closers -> SUBSET Conns]
    /\ listening \in BOOLEAN

Init ==
    /\ opts \in Timings
    /\ hpc = [c \in Conns |-> "none"]
    /\ rpc = [c \in Conns |-> "none"]
    /\ sock = [c \in Conns |-> "open"]
    /\ job = [c \in Conns |-> 1]
    /\ frames = [c \in Conns |-> 0]
    /\ conns = {} /\ handlers = 0 /\ closed = FALSE
    /\ submissions = <<>> /\ cbMu = None /\ called = <<>>
    /\ kpc = [k \in Closers |-> "idle"]
    /\ kconns = [k \in Closers |-> {}]
    /\ listening = TRUE

HGoto(c, to) == hpc' = [hpc EXCEPT ![c] = to]
RGoto(c, to) == rpc' = [rpc EXCEPT ![c] = to]
KGoto(k, to) == kpc' = [kpc EXCEPT ![k] = to]

-----------------------------------------------------------------------------
(* The clients.                                                            *)

Arrive(c) ==
    /\ hpc[c] = "none" /\ listening
    /\ HGoto(c, "request")
    /\ UNCHANGED <<sock, job, conns, handlers, readVars, closeVars>>

ClientLeaves(c) ==
    /\ hpc[c] # "none" /\ sock[c] = "open"
    /\ sock' = [sock EXCEPT ![c] = "peer"]
    /\ UNCHANGED <<hpc, job, conns, handlers, readVars, closeVars>>

-----------------------------------------------------------------------------
(* handle                                                                  *)

\* Upgrade: the connection is hijacked (or the request fails).
Upgrade(c) ==
    /\ hpc[c] = "request"
    /\ HGoto(c, "upgraded") \/ HGoto(c, "gone")
    /\ UNCHANGED <<sock, job, conns, handlers, readVars, closeVars>>

\* A variant of Track (below) that forgets to look at closed.
TrackAlways(c) ==
    /\ hpc[c] = "upgraded"
    /\ conns' = conns \cup {c}
    /\ handlers' = handlers + 1
    /\ RGoto(c, "read")
    /\ HGoto(c, "push")
    /\ UNCHANGED <<sock, job, frames, submissions, cbMu, called, closeVars>>

\* track: register and count under mu, and start the reader; or hang up.
Track(c) ==
    /\ hpc[c] = "upgraded"
    /\ IF closed
         THEN /\ HGoto(c, "gone")
              /\ sock' = [sock EXCEPT ![c] = "closed"]
              /\ UNCHANGED <<conns, handlers, rpc>>
         ELSE /\ conns' = conns \cup {c}
              /\ handlers' = handlers + 1
              /\ RGoto(c, "read")
              /\ HGoto(c, "push")
              /\ UNCHANGED sock
    /\ UNCHANGED <<job, frames, submissions, cbMu, called, closeVars>>

\* WriteJSON; it blocks while an open client does not read.
PushOK(c) ==
    /\ hpc[c] = "push" /\ job[c] <= Jobs
    /\ sock[c] # "closed"
    /\ job' = [job EXCEPT ![c] = @ + 1]
    /\ HGoto(c, IF "PushInterval" \in opts /\ job[c] < Jobs THEN "pause" ELSE "push")
    /\ UNCHANGED <<sock, conns, handlers, readVars, closeVars>>

PushFail(c) ==
    /\ hpc[c] = "push" /\ job[c] <= Jobs
    /\ sock[c] # "open"
    /\ HGoto(c, "shut")
    /\ UNCHANGED <<sock, job, conns, handlers, readVars, closeVars>>

EndOfPass(c) ==
    /\ hpc[c] = "push" /\ job[c] = Jobs + 1
    /\ HGoto(c, IF "JobEvery" \in opts THEN "every" ELSE "hold")
    /\ UNCHANGED <<sock, job, conns, handlers, readVars, closeVars>>

\* time.After fires: go on with the pass, or begin the next one.
Timer(c) ==
    /\ hpc[c] \in {"pause", "every"}
    /\ job' = [job EXCEPT ![c] = IF hpc[c] = "every" THEN 1 ELSE @]
    /\ HGoto(c, "push")
    /\ UNCHANGED <<sock, conns, handlers, readVars, closeVars>>

\* A variant of ReaderGone (below): the timed waits do not watch the reader.
ReaderGoneOnlyHold(c) ==
    /\ hpc[c] = "hold"
    /\ rpc[c] = "done"
    /\ HGoto(c, "shut")
    /\ UNCHANGED <<sock, job, conns, handlers, readVars, closeVars>>

\* <-readerDone in any of the handler's waits.
ReaderGone(c) ==
    /\ hpc[c] \in {"pause", "every", "hold"}
    /\ rpc[c] = "done"
    /\ HGoto(c, "shut")
    /\ UNCHANGED <<sock, job, conns, handlers, readVars, closeVars>>

\* The first deferred call: close the socket and wait for the reader.
Shut(c) ==
    /\ hpc[c] = "shut"
    /\ sock' = [sock EXCEPT ![c] = "closed"]
    /\ HGoto(c, IF rpc[c] = "done" THEN "untrack" ELSE "shut")
    /\ UNCHANGED <<job, conns, handlers, readVars, closeVars>>

\* untrack: forget the connection under mu, ...
Untrack(c) ==
    /\ hpc[c] = "untrack"
    /\ conns' = conns \ {c}
    /\ HGoto(c, "uncount")
    /\ UNCHANGED <<sock, job, handlers, readVars, closeVars>>

\* ... then handlers.Done().
Uncount(c) ==
    /\ hpc[c] = "uncount"
    /\ handlers' = handlers - 1
    /\ HGoto(c, "gone")
    /\ UNCHANGED <<sock, job, conns, readVars, closeVars>>

-----------------------------------------------------------------------------
(* The reader and addSubmission.                                           *)

MoreFrames == SumFunction(frames) < MaxFrames

\* A frame that is a submission; the socket's buffer may still hold one after
\* it was closed.
ReadSubmit(c) ==
    /\ rpc[c] = "read" /\ MoreFrames
    /\ frames' = [frames EXCEPT ![c] = @ + 1]
    /\ RGoto(c, "append")
    /\ UNCHANGED <<connVars, submissions, cbMu, called, closeVars>>

\* A frame that does not parse, or has no jobid or blob.
ReadIgnored(c) ==
    /\ rpc[c] = "read" /\ MoreFrames
    /\ frames' = [frames EXCEPT ![c] = @ + 1]
    /\ UNCHANGED <<connVars, rpc, submissions, cbMu, called, closeVars>>

ReadFail(c) ==
    /\ rpc[c] = "read" /\ sock[c] # "open"
    /\ RGoto(c, "done")
    /\ UNCHANGED <<connVars, frames, submissions, cbMu, called, closeVars>>

\* addSubmission: record under mu.
AddSubmission(c) ==
    /\ rpc[c] = "append"
    /\ submissions' = Append(submissions, [conn |-> c, n |-> frames[c]])
    /\ RGoto(c, IF OnSubmit THEN "cblock" ELSE "read")
    /\ UNCHANGED <<connVars, frames, cbMu, called, closeVars>>

\* A variant of CallbackBegin (below) without the lock.
CallbackBeginUnlocked(c) ==
    /\ rpc[c] = "cblock"
    /\ cbMu' = c
    /\ called' = Append(called, [conn |-> c, n |-> frames[c]])
    /\ RGoto(c, "callback")
    /\ UNCHANGED <<connVars, frames, submissions, closeVars>>

\* cbMu.Lock() and the call of OnSubmit ...
CallbackBegin(c) ==
    /\ rpc[c] = "cblock" /\ cbMu = None
    /\ cbMu' = c
    /\ called' = Append(called, [conn |-> c, n |-> frames[c]])
    /\ RGoto(c, "callback")
    /\ UNCHANGED <<connVars, frames, submissions, closeVars>>

\* ... and its return.
CallbackEnd(c) ==
    /\ rpc[c] = "callback"
    /\ cbMu' = None
    /\ RGoto(c, "read")
    /\ UNCHANGED <<connVars, frames, submissions, called, closeVars>>

-----------------------------------------------------------------------------
(* Close                                                                   *)

CloseBegin(k) ==
    /\ kpc[k] = "idle"
    /\ closed' = TRUE
    /\ kconns' = [kconns EXCEPT ![k] = conns]
    /\ conns' = {}
    /\ KGoto(k, "close")
    /\ UNCHANGED <<opts, hpc, sock, job, handlers, readVars, listening>>

\* A variant of CloseConn (below): the connections are only forgotten.
CloseConnForgets(k) ==
    /\ kpc[k] = "close"
    /\ kconns' = [kconns EXCEPT ![k] = {}]
    /\ KGoto(k, "wait")
    /\ UNCHANGED <<opts, sock, hpc, job, conns, handlers, readVars, closed, listening>>

\* c.Close() for one connection after the other.
CloseConn(k) ==
    /\ kpc[k] = "close"
    /\ IF kconns[k] = {}
         THEN KGoto(k, "wait") /\ UNCHANGED <<opts, sock, kconns>>
         ELSE \E c \in kconns[k] :
                /\ sock' = [sock EXCEPT ![c] = "closed"]
                /\ kconns' = [kconns EXCEPT ![k] = @ \ {c}]
                /\ UNCHANGED kpc
    /\ UNCHANGED <<opts, hpc, job, conns, handlers, readVars, closed, listening>>

\* handlers.Wait()
CloseWait(k) ==
    /\ kpc[k] = "wait" /\ handlers = 0
    /\ KGoto(k, "srvclose")
    /\ UNCHANGED <<opts, connVars, readVars, closed, kconns, listening>>

\* srv.Close(): httptest stops listening, then waits for requests that were
\* not hijacked.
SrvClose(k) ==
    /\ kpc[k] = "srvclose"
    /\ listening' = FALSE
    /\ KGoto(k, "srvwait")
    /\ UNCHANGED <<opts, connVars, readVars, closed, kconns>>

SrvWait(k) ==
    /\ kpc[k] = "srvwait"
    /\ \A c \in Conns : hpc[c] # "request"
    /\ KGoto(k, "returned")
    /\ UNCHANGED <<opts, connVars, readVars, closed, kconns, listening>>

-----------------------------------------------------------------------------
Client(c) == Arrive(c) \/ ClientLeaves(c)

\* What the handler can do without the client: a blocked write is not one of them.
HandlerRuns(c) ==
    \/ Upgrade(c) \/ Track(c) \/ PushFail(c) \/ EndOfPass(c) \/ Timer(c)
    \/ ReaderGone(c) \/ Shut(c) \/ Untrack(c) \/ Uncount(c)

Reader(c) ==
    \/ ReadSubmit(c) \/ ReadIgnored(c) \/ ReadFail(c)
    \/ AddSubmission(c) \/ CallbackBegin(c) \/ CallbackEnd(c)

Closer(k) ==
    CloseBegin(k) \/ CloseConn(k) \/ CloseWait(k) \/ SrvClose(k) \/ SrvWait(k)

Next ==
    \/ \E c \in Conns : Client(c) \/ HandlerRuns(c) \/ PushOK(c) \/ Reader(c)
    \/ \E k \in Closers : Closer(k)

Spec == Init /\ [][Next]_vars

\* The scheduler runs what can run; OnSubmit returns; a select with both cases
\* ready takes readerDone sooner or later, and a write to a socket this side
\* has closed fails (strong fairness, as the handler passes through other
\* states in between).  Clients need not do anything.
FairSpec ==
    /\ Spec
    /\ \A c \in Conns :
          /\ WF_vars(HandlerRuns(c)) /\ WF_vars(Reader(c))
          /\ SF_vars(ReaderGone(c)) /\ SF_vars(CallbackBegin(c))
    /\ \A k \in Closers : WF_vars(Closer(k) /\ kpc[k] # "idle")

-----------------------------------------------------------------------------
\* After Close has returned no handler pushes a job and no reader runs OnSubmit:
\* nothing lands in a test that has already finished.
QuietAfterClose ==
    (\E k \in Closers : kpc[k] = "returned") =>
        \A c \in Conns :
            /\ hpc[c] \in {"none", "upgraded", "gone"}
            /\ rpc[c] \in {"none", "done"}

\* The entries of one connection.
Of(seq, c) ==
    LET of[i \in 0..Len(seq)] == IF i = 0 THEN <<>>
                                 ELSE IF seq[i].conn = c THEN Append(of[i - 1], seq[i])
                                 ELSE of[i - 1]
    IN  of[Len(seq)]

\* Every OnSubmit call is for a submission Submissions() already shows, one call
\* each, in the order of its connection (across connections the callbacks may
\* overtake each other: mu is released before cbMu is taken); and no two calls run
\* at once, so OnSubmit needs no lock of its own.
CallbacksFollowSubmissions ==
    /\ \A c \in Conns : IsPrefix(Of(called, c), Of(submissions, c))
    /\ \A c, d \in Conns : rpc[c] = "callback" /\ rpc[d] = "callback" => c = d

\* Close returns: whatever the handlers wait on, it gets them out of it.
CloseReturns == \A k \in Closers : (kpc[k] = "close") ~> (kpc[k] = "returned")

\* A client that leaves takes its handler with it, also in the middle of a
\* timed wait.
HandlerEnds == \A c \in Conns : (sock[c] # "open") ~> (hpc[c] = "gone")

=============================================================================
