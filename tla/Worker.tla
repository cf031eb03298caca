------------------------------- MODULE Worker -------------------------------
(***************************************************************************)
(* The mining workers of internal/miner/worker.go (Run), one process per   *)
(* thread, and the submit channel they share with the getwork client.      *)
(*                                                                         *)
(* A worker snapshots the job under State.mu and grinds it while Active()  *)
(* and Epoch() say it is current.  Active() and Epoch() are separate       *)
(* atomic reads, so each is a step of its own, here and before a submit.   *)
(* The hash itself is an environment choice: which of the lanes hashed in  *)
(* an iteration meet the target.                                           *)
(***************************************************************************)
EXTENDS MinerState, FiniteSets

CONSTANTS Threads,       \* worker threads
          Pair,          \* two nonces per iteration (HashPair)
          SubmitBuffer,  \* capacity of the submit channel
          CounterFlush,  \* hashes between shared-counter flushes
          MaxHashes      \* bound: hashes counted in a behaviour

ASSUME WorkerAssumption ==
    /\ Pair \in BOOLEAN
    /\ SubmitBuffer \in Nat
    /\ CounterFlush \in Nat \ {0}
    /\ MaxHashes \in Nat

\* A worker per configured thread.
ASSUME ThreadsAssumption == IsFiniteSet(Threads)

VARIABLES pc,           \* where each worker is
          wjob,         \* blob, jobid, target of its snapshot
          wepoch,       \* epoch of its snapshot
          wins,         \* lanes of this iteration that meet the target, not yet handled
          local,        \* hashes not yet flushed
          queue,        \* the submit channel
          TotalHashes, Submitted, Stale,   \* State's local counters
          cancelled,    \* ctx is done
          hashes,       \* history: hashes computed
          late          \* history: submits attempted after the snapshot's epoch ended

workerVars == <<pc, wjob, wepoch, wins, local, queue, TotalHashes, Submitted,
                Stale, hashes, late>>

Lanes == IF Pair THEN {1, 2} ELSE {1}

Share == [work: Work \cup {NoWork}, epoch: Nat]

WorkerPCs == {"poll", "live", "loop", "loopEpoch", "hash", "check",
              "checkEpoch", "send", "count", "done"}

WorkerTypeOK ==
    /\ pc \in [Threads -> WorkerPCs]
    /\ wjob \in [Threads -> Work \cup {NoWork}]
    /\ wepoch \in [Threads -> Nat]
    /\ wins \in [Threads -> SUBSET {1, 2}]
    /\ local \in [Threads -> Nat]
    /\ queue \in Seq(Share)
    /\ TotalHashes \in Nat
    /\ Submitted \in Nat
    /\ Stale \in Nat
    /\ cancelled \in BOOLEAN
    /\ hashes \in Nat
    /\ late \in [Threads -> Nat]

WorkerInit ==
    /\ pc = [t \in Threads |-> "poll"]
    /\ wjob = [t \in Threads |-> NoWork]
    /\ wepoch = [t \in Threads |-> 0]
    /\ wins = [t \in Threads |-> {}]
    /\ local = [t \in Threads |-> 0]
    /\ queue = <<>>
    /\ TotalHashes = 0
    /\ Submitted = 0
    /\ Stale = 0
    /\ cancelled = FALSE
    /\ hashes = 0
    /\ late = [t \in Threads |-> 0]

Goto(t, to) == pc' = [pc EXCEPT ![t] = to]

-----------------------------------------------------------------------------
(* The outer loop.                                                         *)

WorkerExit(t) ==
    /\ pc[t] = "poll"
    /\ cancelled
    /\ Goto(t, "done")
    /\ UNCHANGED <<wjob, wepoch, wins, local, queue, TotalHashes, Submitted,
                   Stale, hashes, late>>

\* st.Job(): the lock makes work and epoch one consistent pair.
Snapshot(t) ==
    /\ pc[t] = "poll"
    /\ ~cancelled
    /\ CanSnapshot
    /\ wjob' = [wjob EXCEPT ![t] = job]
    /\ wepoch' = [wepoch EXCEPT ![t] = epoch]
    /\ Goto(t, "live")
    /\ UNCHANGED <<wins, local, queue, TotalHashes, Submitted, Stale, hashes,
                   late>>

\* The snapshot, its nonces and its local count are variables of the loop body.
LoopBodyEnds(t) ==
    /\ wjob' = [wjob EXCEPT ![t] = NoWork]
    /\ wepoch' = [wepoch EXCEPT ![t] = 0]
    /\ late' = [late EXCEPT ![t] = 0]
    /\ Goto(t, "poll")

\* A variant of CheckLive (below) that returns where the code continues.
CheckLiveReturns(t) ==
    /\ pc[t] = "live"
    /\ IF wepoch[t] = 0 \/ ~active
         THEN Goto(t, "done") /\ UNCHANGED <<wjob, wepoch, late>>
         ELSE Goto(t, "loop") /\ UNCHANGED <<wjob, wepoch, late>>
    /\ UNCHANGED <<wins, local, queue, TotalHashes, Submitted, Stale, hashes>>

\* No live job: sleep 50 ms and look again; otherwise start grinding.
CheckLive(t) ==
    /\ pc[t] = "live"
    /\ IF wepoch[t] = 0 \/ ~active
         THEN LoopBodyEnds(t)
         ELSE Goto(t, "loop") /\ UNCHANGED <<wjob, wepoch, late>>
    /\ UNCHANGED <<wins, local, queue, TotalHashes, Submitted, Stale, hashes>>

-----------------------------------------------------------------------------
(* The inner loop: for st.Active() && st.Epoch() == epoch && ctx.Err() == nil *)

\* Leaving the loop flushes what is left in local.
LeaveLoop(t) ==
    /\ TotalHashes' = TotalHashes + local[t]
    /\ local' = [local EXCEPT ![t] = 0]
    /\ LoopBodyEnds(t)

StayInLoop(t, to) ==
    /\ Goto(t, to)
    /\ UNCHANGED <<TotalHashes, local, wjob, wepoch, late>>

LoopActive(t) ==
    /\ pc[t] = "loop"
    /\ IF active
         THEN StayInLoop(t, "loopEpoch")
         ELSE LeaveLoop(t)
    /\ UNCHANGED <<wins, queue, Submitted, Stale, hashes>>

\* A variant of LoopEpoch (below) that only looks at the context.
LoopIgnoresEpoch(t) ==
    /\ pc[t] = "loopEpoch"
    /\ IF ~cancelled
         THEN StayInLoop(t, "hash")
         ELSE LeaveLoop(t)
    /\ UNCHANGED <<wins, queue, Submitted, Stale, hashes>>

LoopEpoch(t) ==
    /\ pc[t] = "loopEpoch"
    /\ IF epoch = wepoch[t] /\ ~cancelled
         THEN StayInLoop(t, "hash")
         ELSE LeaveLoop(t)
    /\ UNCHANGED <<wins, queue, Submitted, Stale, hashes>>

\* One iteration's hashes; any subset of its lanes may meet the target.
Hash(t) ==
    /\ pc[t] = "hash"
    /\ hashes + Cardinality(Lanes) <= MaxHashes
    /\ \E won \in SUBSET Lanes : wins' = [wins EXCEPT ![t] = won]
    /\ hashes' = hashes + Cardinality(Lanes)
    /\ local' = [local EXCEPT ![t] = @ + Cardinality(Lanes)]
    /\ Goto(t, "check")
    /\ UNCHANGED <<wjob, wepoch, queue, TotalHashes, Submitted, Stale, late>>

\* Past the bound a worker keeps iterating, but its hashes are neither counted
\* nor winning.
HashPastBound(t) ==
    /\ pc[t] = "hash"
    /\ hashes + Cardinality(Lanes) > MaxHashes
    /\ Goto(t, "check")
    /\ UNCHANGED <<wjob, wepoch, wins, local, queue, TotalHashes, Submitted,
                   Stale, hashes, late>>

\* The lane whose result is looked at next: A before B.
NextLane(t) == IF 1 \in wins[t] THEN 1 ELSE 2

DropLane(t) == wins' = [wins EXCEPT ![t] = @ \ {NextLane(t)}]

\* MeetsTarget(...) && st.Active()
CheckActive(t) ==
    /\ pc[t] = "check"
    /\ wins[t] # {}
    /\ IF active THEN Goto(t, "checkEpoch") /\ UNCHANGED wins
                 ELSE DropLane(t) /\ UNCHANGED pc
    /\ UNCHANGED <<wjob, wepoch, local, queue, TotalHashes, Submitted, Stale,
                   hashes, late>>

\* ... && st.Epoch() == epoch
CheckEpoch(t) ==
    /\ pc[t] = "checkEpoch"
    /\ IF epoch = wepoch[t] THEN Goto(t, "send") /\ UNCHANGED wins
                            ELSE DropLane(t) /\ Goto(t, "check")
    /\ UNCHANGED <<wjob, wepoch, local, queue, TotalHashes, Submitted, Stale,
                   hashes, late>>

\* A variant of Send (below) on a channel without a capacity.
SendUnbounded(t) ==
    /\ pc[t] = "send"
    /\ late' = [late EXCEPT ![t] = IF epoch # wepoch[t] THEN @ + 1 ELSE @]
    /\ queue' = Append(queue, [work |-> wjob[t], epoch |-> wepoch[t]])
    /\ Goto(t, "count")
    /\ UNCHANGED <<Stale, wins, wjob, wepoch, local, TotalHashes, Submitted,
                   hashes>>

\* submit: a non-blocking send; a full channel drops the share.
Send(t) ==
    /\ pc[t] = "send"
    /\ late' = [late EXCEPT ![t] = IF epoch # wepoch[t] THEN @ + 1 ELSE @]
    /\ IF Len(queue) < SubmitBuffer
         THEN /\ queue' = Append(queue, [work |-> wjob[t], epoch |-> wepoch[t]])
              /\ Goto(t, "count")
              /\ UNCHANGED <<Stale, wins>>
         ELSE /\ Stale' = Stale + 1
              /\ DropLane(t)
              /\ Goto(t, "check")
              /\ UNCHANGED queue
    /\ UNCHANGED <<wjob, wepoch, local, TotalHashes, Submitted, hashes>>

\* A variant of CountSubmit (below): lane B is sent on lane A's checks.
CountSubmitNoRecheck(t) ==
    /\ pc[t] = "count"
    /\ Submitted' = Submitted + 1
    /\ DropLane(t)
    /\ Goto(t, IF wins[t] = {1, 2} THEN "send" ELSE "check")
    /\ UNCHANGED <<wjob, wepoch, local, queue, TotalHashes, Stale, hashes, late>>

\* Submitted.Add(1), after the send: the writer may already have the share.
CountSubmit(t) ==
    /\ pc[t] = "count"
    /\ Submitted' = Submitted + 1
    /\ DropLane(t)
    /\ Goto(t, "check")
    /\ UNCHANGED <<wjob, wepoch, local, queue, TotalHashes, Stale, hashes, late>>

\* A variant of EndIteration (below) that keeps what it has flushed.
EndIterationNoReset(t) ==
    /\ pc[t] = "check"
    /\ wins[t] = {}
    /\ TotalHashes' = IF local[t] >= CounterFlush THEN TotalHashes + local[t]
                                                  ELSE TotalHashes
    /\ Goto(t, "loop")
    /\ UNCHANGED <<wjob, wepoch, wins, local, queue, Submitted, Stale, hashes,
                   late>>

\* The end of an iteration: flush a full batch.
EndIteration(t) ==
    /\ pc[t] = "check"
    /\ wins[t] = {}
    /\ IF local[t] >= CounterFlush
         THEN /\ TotalHashes' = TotalHashes + local[t]
              /\ local' = [local EXCEPT ![t] = 0]
         ELSE UNCHANGED <<TotalHashes, local>>
    /\ Goto(t, "loop")
    /\ UNCHANGED <<wjob, wepoch, wins, queue, Submitted, Stale, hashes, late>>

WorkerStep(t) ==
    \/ WorkerExit(t) \/ Snapshot(t) \/ CheckLive(t)
    \/ LoopActive(t) \/ LoopEpoch(t) \/ Hash(t) \/ HashPastBound(t)
    \/ CheckActive(t) \/ CheckEpoch(t) \/ Send(t) \/ CountSubmit(t)
    \/ EndIteration(t)

=============================================================================
