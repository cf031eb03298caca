------------------------------- MODULE Engine -------------------------------
(***************************************************************************)
(* The running miner of pkg/engine/engine.go: State, the workers, the      *)
(* submit channel and the getwork client with its writer goroutine, plus   *)
(* the goroutine that closes `done` once the WaitGroup is empty, and Stop. *)
(* (The 1 Hz sampler, which only reads TotalHashes and leaves on the same  *)
(* cancellation, is the subject of EngineStats.)                           *)
(***************************************************************************)
EXTENDS GetworkClient, Functions

VARIABLES done      \* the done channel is closed

engineVars == <<cancelled, done>>

vars == <<stateVars, workerVars, clientVars, engineVars>>

Init ==
    /\ StateInit
    /\ WorkerInit
    /\ ClientInit
    /\ done = FALSE

-----------------------------------------------------------------------------
\* Stop's e.cancel(), a cancelled parent context, or the interrupt signal.
Cancel ==
    /\ ~cancelled
    /\ cancelled' = TRUE
    /\ UNCHANGED <<stateVars, workerVars, clientVars, done>>

\* A variant of CloseDone (below) that does not wait for the client.
CloseDoneEarly ==
    /\ ~done
    /\ \A t \in Threads : pc[t] = "done"
    /\ done' = TRUE
    /\ UNCHANGED <<stateVars, workerVars, clientVars, cancelled>>

\* wg.Wait() returns once every worker and the client are gone.
CloseDone ==
    /\ ~done
    /\ \A t \in Threads : pc[t] = "done"
    /\ cpc = "done"
    /\ done' = TRUE
    /\ UNCHANGED <<stateVars, workerVars, clientVars, cancelled>>

WorkerAction(t) ==
    /\ WorkerStep(t)
    /\ UNCHANGED <<stateVars, clientVars, engineVars>>

\* Steps of the client's goroutine that touch neither State nor the channel.
ClientLocal ==
    /\ RunLoop \/ AfterSession \/ BackoffCancelled \/ BackoffOver
       \/ DialFail \/ DialOK \/ DrainEnd \/ ReadError
    /\ UNCHANGED <<stateVars, workerVars, engineVars>>

ClientQueue ==
    /\ DrainOne
    /\ UNCHANGED <<stateVars, pc, wjob, wepoch, wins, local, TotalHashes,
                   Submitted, Stale, hashes, late, engineVars>>

\* Calls into State: OnJob's SetJob and Invalidate, OnDisconnect's Invalidate.
ClientState ==
    /\ SetJobStep \/ OnJobReturn \/ Join \/ InvalidateReturn
    /\ UNCHANGED <<workerVars, engineVars>>

ReadPush ==
    /\ \E p \in Pushes : ReadJob(p) \/ ReadBadVersion(p) \/ ReadIgnored(p)
    /\ UNCHANGED <<workerVars, engineVars>>

WriterLocal ==
    /\ WriterCancelled \/ WriterQuit \/ WriterActive \/ WriterEpoch
       \/ WriteOK \/ WriteFail
    /\ UNCHANGED <<stateVars, workerVars, engineVars>>

WriterQueue ==
    /\ WriterTake
    /\ UNCHANGED <<stateVars, pc, wjob, wepoch, wins, local, TotalHashes,
                   Submitted, Stale, hashes, late, engineVars>>

Environment ==
    /\ LinkLost
    /\ UNCHANGED <<stateVars, workerVars, engineVars>>

\* After Stop has returned nothing is left to run.
Stopped == done /\ UNCHANGED vars

ClientGoroutine == ClientLocal \/ ClientQueue \/ ClientState
WriterGoroutine == WriterLocal \/ WriterQueue

Next ==
    \/ \E t \in Threads : WorkerAction(t)
    \/ ClientGoroutine
    \/ ReadPush
    \/ WriterGoroutine
    \/ Environment
    \/ Cancel
    \/ CloseDone
    \/ Stopped

Spec == Init /\ [][Next]_vars

\* The Go scheduler runs every goroutine that can run, and sync.Mutex hands the
\* lock over to a waiter it has starved for a millisecond, so a worker waiting
\* in Job() gets it even from a client that keeps coming back (strong fairness).
\* A dead socket's read buffer holds finitely many frames, so the reader that
\* comes back to it for ever gets its error (strong fairness).
\* Nothing is assumed of the server (ReadPush), of the link (Environment) or of
\* the caller (Cancel).
TakeSnapshot(t) == Snapshot(t) /\ UNCHANGED <<stateVars, clientVars, engineVars>>

ReaderError == ReadError /\ UNCHANGED <<stateVars, workerVars, engineVars>>

Fairness ==
    /\ \A t \in Threads : WF_vars(WorkerAction(t)) /\ SF_vars(TakeSnapshot(t))
    /\ WF_vars(ClientGoroutine)
    /\ SF_vars(ReaderError)
    /\ WF_vars(WriterGoroutine)
    /\ WF_vars(CloseDone)

FairSpec == Spec /\ Fairness

-----------------------------------------------------------------------------
(* Safety                                                                  *)

\* Every variable has its type; the submit channel never exceeds its capacity.
TypeOK ==
    /\ StateTypeOK
    /\ WorkerTypeOK
    /\ ClientTypeOK
    /\ done \in BOOLEAN
    /\ Len(queue) <= SubmitBuffer

\* A share that reaches the wire was mined from a job the same session
\* delivered: the drain at redial, SubmitValid and the join of the writer
\* together keep a dead session's shares off the next session's socket
\* (internal/getwork/client.go, discardStaleSubmits and connectAndServe).
OwnSession ==
    \A r \in wire :
        /\ r.share.epoch \in 1..Len(installed)
        /\ installed[r.share.epoch].session = r.session

\* Every share, wherever it is, carries the work that was installed at its
\* epoch: no worker ever pairs one job's blob with another job's epoch, although
\* it reads Job(), Active() and Epoch() at different moments.
Matches(s) ==
    /\ s.epoch \in 1..Len(installed)
    /\ s.work # NoWork
    /\ installed[s.epoch].work = s.work

ShareCarriesItsWork ==
    /\ \A i \in 1..Len(queue) : Matches(queue[i])
    /\ wrpc \in {"valid", "validEpoch", "write"} => Matches(held)
    /\ \A r \in wire : Matches(r.share)

\* A worker that hashes holds installed work: never the zero blob, and never
\* the left-over blob of an invalidated State under the epoch Invalidate began
\* (internal/miner/worker.go: the snapshot is taken before Active() is read).
Grinding == {"hash", "check", "checkEpoch", "send", "count"}

HashesInstalledWork ==
    \A t \in Threads :
        pc[t] \in Grinding =>
            Matches([work |-> wjob[t], epoch |-> wepoch[t]])

\* The workers' counters and the client's agree: every share that entered the
\* channel is still there, in the writer's hands, being drained, discarded,
\* failed or written, and is counted by Submitted once its worker gets to it.
InWriter == IF wrpc \in {"valid", "validEpoch", "write"} THEN 1 ELSE 0

ShareAccounting ==
    Submitted + Cardinality({t \in Threads : pc[t] = "count"})
      = Len(queue) + InWriter + drained + Discarded + SendFails + written

\* No hash is lost or counted twice by the batched flushes.
HashAccounting ==
    hashes = TotalHashes + SumFunction(local)

\* Workers have a live job only while a session that can deliver one is up:
\* an outage never leaves the miner grinding the dead session's job.
NoWorkWithoutSession ==
    active => /\ cpc \in {"read", "onjob", "reject", "join", "teardown"}
              /\ installed[Len(installed)].session = session

\* After its epoch has ended a worker lets at most one more share through: the
\* checks are repeated for the second lane of a pair.
OneLateShare == \A t \in Threads : late[t] <= 1

-----------------------------------------------------------------------------
(* The inductive invariant behind the safety properties.                   *)

Idle == {"run", "dial", "retry", "backoff", "done"}   \* no session

\* Who is where: the lock is held exactly inside a State call, a State call is
\* in progress exactly while the client waits for it, and a session's writer
\* and socket live exactly as long as the session.
ControlInv ==
    /\ Len(installed) = epoch
    /\ mu <=> spc \in {"bump", "activate", "invbump"}
    /\ spc \in {"bump", "activate", "mirror"} <=> cpc = "onjob"
    /\ spc = "invbump" <=> cpc \in {"reject", "teardown"}
    /\ wrpc = "none" <=> cpc \in Idle \cup {"drain", "teardown"}
    /\ conn = "none" <=> cpc \in Idle
    /\ done => /\ cancelled
               /\ cpc = "done"
               /\ \A t \in Threads : pc[t] = "done"
    /\ \A t \in Threads : pc[t] = "done" => cancelled
    /\ cpc = "done" => cancelled

\* What the snapshot shows: a live job is the work of the latest epoch, which
\* this session installed; without a live job the latest epoch has no work.
JobInv ==
    /\ spc \in {"bump", "activate"} => job \in Work
    /\ active => /\ cpc \in {"read", "onjob", "join"}
                 /\ epoch >= 1
                 /\ installed[epoch].session = session
                 /\ installed[epoch].work \in Work
                 /\ spc # "bump" => installed[epoch].work = job
    /\ spc = "activate" => /\ epoch >= 1
                           /\ installed[epoch].session = session
                           /\ installed[epoch].work = job
    /\ spc = "mirror" => active
    /\ spc = "invbump" => ~active
    /\ ~active /\ spc \notin {"activate", "invbump"} =>
          epoch = 0 \/ installed[epoch].work = NoWork

InBody == WorkerPCs \ {"poll", "done"}   \* the worker holds a snapshot

\* A snapshot is installed work or the left-over of an epoch without work, and
\* the two reads of the loop condition weed the second kind out.
WorkerInv ==
    \A t \in Threads :
        /\ pc[t] \in InBody =>
              /\ wepoch[t] <= epoch
              /\ \/ wepoch[t] = 0
                 \/ installed[wepoch[t]].work = NoWork
                 \/ Matches([work |-> wjob[t], epoch |-> wepoch[t]])
        /\ pc[t] \in InBody \ {"live"} => wepoch[t] # 0
        /\ pc[t] = "loopEpoch" /\ wepoch[t] = epoch =>
              installed[epoch].work # NoWork
        /\ pc[t] \in Grinding =>
              Matches([work |-> wjob[t], epoch |-> wepoch[t]])
        /\ late[t] # 0 => /\ late[t] = 1
                          /\ pc[t] \in InBody \ {"send"}
                          /\ wepoch[t] < epoch

\* A share the writer has let through belongs to this session and is at least
\* as new as everything written so far.
WriterInv ==
    /\ wrpc = "validEpoch" => epoch >= 1 /\ installed[epoch].session = session
    /\ wrpc = "write" =>
          /\ installed[held.epoch].session = session
          /\ \A r \in wire : r.share.epoch <= held.epoch

IInv ==
    /\ TypeOK
    /\ ControlInv
    /\ JobInv
    /\ WorkerInv
    /\ ShareCarriesItsWork
    /\ WriterInv
    /\ OwnSession

-----------------------------------------------------------------------------
(* Action properties                                                       *)

\* The server sees epochs in order: a share of an older job never follows one
\* of a newer job, across all sessions, although workers race into the channel.
WireEpochsOrdered ==
    [][\A new \in wire' \ wire : \A old \in wire :
          old.share.epoch <= new.share.epoch]_vars

\* The engine implements ShareRelay: workers, channel, client and State together
\* show the daemon nothing but numbered jobs and shares of the current session.
Relay == INSTANCE ShareRelay WITH history <- installed

ImplementsRelay == Relay!RSpec

\* Once done is closed nothing moves any more: Stop's caller can rely on every
\* counter being final.
QuietAfterDone == [][~done]_vars

-----------------------------------------------------------------------------
(* Liveness                                                                *)

\* Stop returns: a cancelled context ends every goroutine, whatever they wait on.
StopReturns == cancelled ~> done

\* A dead link is noticed and the session torn down: the reader is never left
\* waiting for a writer that waits for shares.
LostLinkRedials == (conn = "lost") ~> (conn = "none")

\* A worker never stays on a job that is no longer the current one.
StaleJobLeft ==
    \A t \in Threads :
        (pc[t] \in Grinding /\ wepoch[t] # epoch) ~> (pc[t] \in {"poll", "done"})

\* Every worker picks a published job up, unless it is replaced or the engine stops.
JobPickedUp ==
    \A t \in Threads : \A e \in 1..MaxEpoch :
        (active /\ epoch = e) ~>
            ((pc[t] = "hash" /\ wepoch[t] = e) \/ epoch # e \/ cancelled)

=============================================================================
