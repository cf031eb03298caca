---------------------------- MODULE EngineProofs ----------------------------
(* Proofs about Engine, for every number of threads, every channel         *)
(* capacity, every set of pushes and every bound.                          *)
EXTENDS Engine, Induction

-----------------------------------------------------------------------------
(* Type correctness                                                        *)

\* A try is one hash, or the two of a pair.
LEMMA LanesFacts ==
    /\ Lanes \subseteq {1, 2}
    /\ Cardinality(Lanes) \in Nat
<1>1. IsFiniteSet({1, 2}) /\ IsFiniteSet({1})
  <2>1. IsFiniteSet({1})
    BY FS_Singleton
  <2>2. IsFiniteSet({1} \cup {2})
    BY <2>1, FS_AddElement
  <2>3. {1, 2} = {1} \cup {2}
    OBVIOUS
  <2> QED
    BY <2>1, <2>2, <2>3
<1>2. Lanes = {1, 2} \/ Lanes = {1}
  BY DEF Lanes
<1> QED
  BY <1>1, <1>2, FS_CardinalityType

\* Type correctness: a step of a worker (worker.go, Run).
LEMMA WorkerStepType ==
    ASSUME TypeOK, NEW t \in Threads, WorkerAction(t)
    PROVE  TypeOK'
<1> USE WorkAssumption, WorkerAssumption
<1> USE DEF TypeOK, WorkerTypeOK, WorkerPCs, Goto
<1>1. StateTypeOK' /\ ClientTypeOK' /\ done' \in BOOLEAN /\ cancelled' \in BOOLEAN
  BY DEF WorkerAction, StateTypeOK, ClientTypeOK, stateVars, clientVars, engineVars
<1>2. CASE WorkerExit(t)
  BY <1>1, <1>2 DEF WorkerExit
<1>3. CASE Snapshot(t)
  BY <1>1, <1>3 DEF Snapshot, StateTypeOK
<1>4. ASSUME LoopBodyEnds(t), TotalHashes' \in Nat, local' \in [Threads -> Nat],
             UNCHANGED <<wins, queue, Submitted, Stale, hashes>>
      PROVE  TypeOK'
  BY <1>1, <1>4 DEF LoopBodyEnds
<1>5. CASE CheckLive(t)
  <2>1. CASE wepoch[t] = 0 \/ ~active
    <3>1. LoopBodyEnds(t) /\ UNCHANGED <<wins, local, queue, TotalHashes, Submitted, Stale, hashes>>
      BY <1>5, <2>1 DEF CheckLive
    <3> QED
      BY <1>4, <3>1
  <2>2. CASE ~(wepoch[t] = 0 \/ ~active)
    BY <1>1, <1>5, <2>2 DEF CheckLive
  <2> QED
    BY <2>1, <2>2
<1>6. ASSUME LeaveLoop(t), UNCHANGED <<wins, queue, Submitted, Stale, hashes>>
      PROVE  TypeOK'
  <2>1. TotalHashes' \in Nat /\ local' \in [Threads -> Nat]
    BY <1>6 DEF LeaveLoop
  <2> QED
    BY <1>4, <1>6, <2>1 DEF LeaveLoop
<1>7. CASE LoopActive(t)
  <2>1. CASE active
    BY <1>1, <1>7, <2>1 DEF LoopActive, StayInLoop
  <2>2. CASE ~active
    BY <1>6, <1>7, <2>2 DEF LoopActive
  <2> QED
    BY <2>1, <2>2
<1>8. CASE LoopEpoch(t)
  <2>1. CASE epoch = wepoch[t] /\ ~cancelled
    BY <1>1, <1>8, <2>1 DEF LoopEpoch, StayInLoop
  <2>2. CASE ~(epoch = wepoch[t] /\ ~cancelled)
    BY <1>6, <1>8, <2>2 DEF LoopEpoch
  <2> QED
    BY <2>1, <2>2
<1>9. CASE Hash(t)
  <2>1. wins' \in [Threads -> SUBSET {1, 2}]
    <3>1. PICK won \in SUBSET Lanes : wins' = [wins EXCEPT ![t] = won]
      BY <1>9 DEF Hash
    <3>2. won \in SUBSET {1, 2}
      BY ONLY <3>1, LanesFacts
    <3>3. wins \in [Threads -> SUBSET {1, 2}]
      OBVIOUS
    <3> QED
      BY ONLY <3>1, <3>2, <3>3
  <2>2. hashes' \in Nat /\ local' \in [Threads -> Nat]
    BY <1>9, LanesFacts DEF Hash
  <2> QED
    BY <1>1, <1>9, <2>1, <2>2 DEF Hash
<1>10. CASE HashPastBound(t)
  BY <1>1, <1>10 DEF HashPastBound
<1>11. ASSUME DropLane(t) PROVE wins' \in [Threads -> SUBSET {1, 2}]
  BY <1>11 DEF DropLane
<1>12. CASE CheckActive(t)
  <2>1. wins' \in [Threads -> SUBSET {1, 2}] /\ pc' \in [Threads -> WorkerPCs]
    BY <1>11, <1>12 DEF CheckActive
  <2> QED
    BY <1>1, <1>12, <2>1 DEF CheckActive
<1>13. CASE CheckEpoch(t)
  <2>1. wins' \in [Threads -> SUBSET {1, 2}] /\ pc' \in [Threads -> WorkerPCs]
    BY <1>11, <1>13 DEF CheckEpoch
  <2> QED
    BY <1>1, <1>13, <2>1 DEF CheckEpoch
<1>14. CASE Send(t)
  <2>1. wins' \in [Threads -> SUBSET {1, 2}] /\ pc' \in [Threads -> WorkerPCs]
    BY <1>11, <1>14 DEF Send
  <2>2. late' \in [Threads -> Nat]
    BY <1>14 DEF Send
  <2>3. [work |-> wjob[t], epoch |-> wepoch[t]] \in Share
    BY DEF Share
  <2>4. queue' \in Seq(Share) /\ Len(queue') <= SubmitBuffer
    <3>1. CASE Len(queue) < SubmitBuffer
      <4>1. queue' = Append(queue, [work |-> wjob[t], epoch |-> wepoch[t]])
        BY <1>14, <3>1 DEF Send
      <4> QED
        BY <2>3, <3>1, <4>1
    <3>2. CASE ~(Len(queue) < SubmitBuffer)
      BY <1>14, <3>2 DEF Send
    <3> QED
      BY <3>1, <3>2
  <2>5. Stale' \in Nat
    BY <1>14 DEF Send
  <2> QED
    BY <1>1, <1>14, <2>1, <2>2, <2>4, <2>5 DEF Send
<1>15. CASE CountSubmit(t)
  BY <1>1, <1>11, <1>15 DEF CountSubmit
<1>16. CASE EndIteration(t)
  <2>1. TotalHashes' \in Nat
    BY <1>16 DEF EndIteration
  <2>3. local' \in [Threads -> Nat]
    <3>1. CASE local[t] >= CounterFlush
      BY <1>16, <3>1 DEF EndIteration
    <3>2. CASE ~(local[t] >= CounterFlush)
      BY <1>16, <3>2 DEF EndIteration
    <3> QED
      BY <3>1, <3>2
  <2> QED
    BY <1>1, <1>16, <2>1, <2>3 DEF EndIteration
<1> QED
  BY <1>2, <1>3, <1>5, <1>7, <1>8, <1>9, <1>10, <1>12, <1>13, <1>14, <1>15, <1>16
     DEF WorkerAction, WorkerStep

\* Type correctness: a step of the client's goroutine (client.go, Run).
LEMMA ClientStepType ==
    ASSUME TypeOK, ClientGoroutine \/ ReadPush
    PROVE  TypeOK'
<1> USE WorkAssumption, WorkerAssumption, ClientAssumption
<1> USE DEF TypeOK, ClientTypeOK, ClientPCs, WriterPCs
<1>1. CASE ClientLocal
  <2>1. StateTypeOK' /\ WorkerTypeOK' /\ done' \in BOOLEAN /\ Len(queue') <= SubmitBuffer
    BY <1>1 DEF ClientLocal, StateTypeOK, WorkerTypeOK, stateVars, workerVars, engineVars
  <2>2. CASE RunLoop
    BY <2>1, <2>2 DEF RunLoop
  <2>3. CASE AfterSession
    <3>1. cpc' \in ClientPCs /\ backoff' \in InitialBackoff..MaxBackoff
      BY <2>3 DEF AfterSession
    <3> QED
      BY <2>1, <2>3, <3>1 DEF AfterSession
  <2>4. CASE BackoffCancelled
    BY <2>1, <2>4 DEF BackoffCancelled
  <2>5. CASE BackoffOver
    BY <2>1, <2>5 DEF BackoffOver
  <2>6. CASE DialFail
    BY <2>1, <2>6 DEF DialFail
  <2>7. CASE DialOK
    BY <2>1, <2>7 DEF DialOK
  <2>8. CASE DrainEnd
    BY <2>1, <2>8 DEF DrainEnd
  <2>9. CASE ReadError
    BY <2>1, <2>9 DEF ReadError
  <2> QED
    BY <1>1, <2>2, <2>3, <2>4, <2>5, <2>6, <2>7, <2>8, <2>9 DEF ClientLocal
<1>2. CASE ClientQueue
  <2>1. queue' \in Seq(Share) /\ Len(queue') <= SubmitBuffer
    BY <1>2 DEF ClientQueue, DrainOne, WorkerTypeOK
  <2>2. StateTypeOK' /\ WorkerTypeOK' /\ done' \in BOOLEAN
    BY <1>2, <2>1 DEF ClientQueue, StateTypeOK, WorkerTypeOK, stateVars, engineVars
  <2> QED
    BY <1>2, <2>1, <2>2 DEF ClientQueue, DrainOne
<1>3. CASE ClientState
  <2>1. WorkerTypeOK' /\ done' \in BOOLEAN /\ Len(queue') <= SubmitBuffer
    BY <1>3 DEF ClientState, WorkerTypeOK, workerVars, engineVars
  <2>2. CASE SetJobStep
    <3>1. CASE SetJobBump(session)
      <4>1. epoch' \in Nat
        BY <3>1 DEF SetJobBump, StateTypeOK
      <4>2. installed' \in Seq([work: Work \cup {NoWork}, session: Nat])
        BY <3>1 DEF SetJobBump, StateTypeOK
      <4> QED
        BY <2>1, <2>2, <3>1, <4>1, <4>2 DEF SetJobStep, SetJobBump, StateTypeOK, clientVars
    <3>2. CASE SetJobActivate
      <4>1. StateTypeOK'
        BY <3>2 DEF SetJobActivate, StateTypeOK
      <4> QED
        BY <2>1, <2>2, <4>1 DEF SetJobStep, clientVars
    <3> QED
      BY <2>2, <3>1, <3>2 DEF SetJobStep
  <2>3. CASE OnJobReturn
    BY <2>1, <2>3 DEF OnJobReturn, SetJobMirror, StateTypeOK
  <2>4. CASE Join
    BY <2>1, <2>4 DEF Join, InvalidateSwap, StateTypeOK
  <2>5. CASE InvalidateReturn
    <3>1. installed' \in Seq([work: Work \cup {NoWork}, session: Nat])
      BY <2>5 DEF InvalidateReturn, InvalidateBump, StateTypeOK
    <3>2. epoch' \in Nat
      BY <2>5 DEF InvalidateReturn, InvalidateBump, StateTypeOK
    <3>3. StateTypeOK'
      <4>1. InvalidateBump(session)
        BY <2>5 DEF InvalidateReturn
      <4> QED
        BY <3>1, <3>2, <4>1 DEF InvalidateBump, StateTypeOK
    <3> QED
      BY <2>1, <2>5, <3>3 DEF InvalidateReturn
  <2> QED
    BY <1>3, <2>2, <2>3, <2>4, <2>5 DEF ClientState
<1>4. CASE ReadPush
  <2>1. WorkerTypeOK' /\ done' \in BOOLEAN /\ Len(queue') <= SubmitBuffer
    BY <1>4 DEF ReadPush, WorkerTypeOK, workerVars, engineVars
  <2>2. PICK p \in Pushes : ReadJob(p) \/ ReadBadVersion(p) \/ ReadIgnored(p)
    BY <1>4 DEF ReadPush
  <2>3. p.work \in Work
    BY DEF Push
  <2>4. CASE ReadJob(p)
    BY <2>1, <2>3, <2>4 DEF ReadJob, SetJobWrite, StateTypeOK
  <2>5. CASE ReadBadVersion(p)
    <3>1. StateTypeOK'
      BY <2>5 DEF ReadBadVersion, InvalidateSwap, StateTypeOK
    <3>2. cpc' \in ClientPCs
      BY <2>5 DEF ReadBadVersion
    <3>3. UNCHANGED <<wrpc, conn, quit, held, served, backoff, Connected,
                      SendFails, Discarded, drained, session, wire, written>>
      BY <2>5 DEF ReadBadVersion
    <3> QED
      BY <2>1, <3>1, <3>2, <3>3
  <2>6. CASE ReadIgnored(p)
    BY <2>1, <2>6 DEF ReadIgnored, stateVars, clientVars, StateTypeOK
  <2> QED
    BY <2>2, <2>4, <2>5, <2>6
<1> QED
  BY <1>1, <1>2, <1>3, <1>4 DEF ClientGoroutine

\* Type correctness: a step of the writer or of the network.
LEMMA WriterStepType ==
    ASSUME TypeOK, WriterGoroutine \/ Environment
    PROVE  TypeOK'
<1> USE WorkAssumption, WorkerAssumption, ClientAssumption
<1> USE DEF TypeOK, ClientTypeOK, ClientPCs, WriterPCs
<1>0. NoShare \in Share
  BY DEF NoShare, Share
<1>1. CASE WriterLocal
  <2>1. StateTypeOK' /\ WorkerTypeOK' /\ done' \in BOOLEAN /\ Len(queue') <= SubmitBuffer
    BY <1>1 DEF WriterLocal, StateTypeOK, WorkerTypeOK, stateVars, workerVars, engineVars
  <2>2. CASE WriterCancelled
    BY <2>1, <2>2 DEF WriterCancelled
  <2>3. CASE WriterQuit
    BY <2>1, <2>3 DEF WriterQuit
  <2>4. CASE WriterActive
    BY <1>0, <2>1, <2>4 DEF WriterActive, WriterDiscard
  <2>5. CASE WriterEpoch
    BY <1>0, <2>1, <2>5 DEF WriterEpoch, WriterDiscard
  <2>6. CASE WriteOK
    BY <1>0, <2>1, <2>6 DEF WriteOK
  <2>7. CASE WriteFail
    BY <1>0, <2>1, <2>7 DEF WriteFail
  <2> QED
    BY <1>1, <2>2, <2>3, <2>4, <2>5, <2>6, <2>7 DEF WriterLocal
<1>2. CASE WriterQueue
  <2>1. held' \in Share /\ queue' \in Seq(Share) /\ Len(queue') <= SubmitBuffer
    BY <1>2 DEF WriterQueue, WriterTake, WorkerTypeOK
  <2>2. StateTypeOK' /\ WorkerTypeOK' /\ done' \in BOOLEAN
    BY <1>2, <2>1 DEF WriterQueue, StateTypeOK, WorkerTypeOK, stateVars, engineVars
  <2> QED
    BY <1>2, <2>1, <2>2 DEF WriterQueue, WriterTake
<1>3. CASE Environment
  BY <1>3 DEF Environment, LinkLost, StateTypeOK, WorkerTypeOK, stateVars, workerVars, engineVars
<1> QED
  BY <1>1, <1>2, <1>3 DEF WriterGoroutine

\* Type correctness: any step.
LEMMA TypeStep == TypeOK /\ [Next]_vars => TypeOK'
<1> SUFFICES ASSUME TypeOK, [Next]_vars PROVE TypeOK'
  OBVIOUS
<1>1. CASE \E t \in Threads : WorkerAction(t)
  BY <1>1, WorkerStepType
<1>2. CASE ClientGoroutine \/ ReadPush
  BY <1>2, ClientStepType
<1>3. CASE WriterGoroutine \/ Environment
  BY <1>3, WriterStepType
<1>4. CASE Cancel \/ CloseDone
  <2>1. UNCHANGED <<stateVars, workerVars, clientVars>>
    BY <1>4 DEF Cancel, CloseDone
  <2>2. cancelled' \in BOOLEAN /\ done' \in BOOLEAN
    BY <1>4 DEF Cancel, CloseDone, TypeOK, WorkerTypeOK
  <2> QED
    BY <2>1, <2>2 DEF TypeOK, StateTypeOK, WorkerTypeOK, ClientTypeOK,
                      stateVars, workerVars, clientVars
<1>5. CASE UNCHANGED vars
  BY <1>5 DEF vars, TypeOK, StateTypeOK, WorkerTypeOK, ClientTypeOK, stateVars,
              workerVars, clientVars, engineVars
<1> QED
  BY <1>1, <1>2, <1>3, <1>4, <1>5 DEF Next, Stopped

-----------------------------------------------------------------------------
(* Control: who is where                                                   *)

\* Every step leaves the goroutines where ControlInv has them.
LEMMA ControlStep == TypeOK /\ ControlInv /\ [Next]_vars => ControlInv'
<1> SUFFICES ASSUME TypeOK, ControlInv, [Next]_vars PROVE ControlInv'
  OBVIOUS
<1> USE DEF ControlInv, Idle
<1>1. ASSUME NEW t \in Threads, WorkerAction(t) PROVE ControlInv'
  <2>1. UNCHANGED <<stateVars, clientVars, engineVars>>
    BY <1>1 DEF WorkerAction
  <2>2. pc[t] # "done" /\ \A u \in Threads : pc'[u] = "done" => cancelled
    BY <1>1 DEF WorkerAction, WorkerStep, WorkerExit, Snapshot, CheckLive, LoopActive,
          LoopEpoch, Hash, HashPastBound, CheckActive, CheckEpoch, Send, CountSubmit,
          EndIteration, LeaveLoop, LoopBodyEnds, StayInLoop, Goto, TypeOK, WorkerTypeOK
  <2> QED
    BY <2>1, <2>2 DEF stateVars, clientVars, engineVars
<1>2. CASE ClientLocal
  BY <1>2 DEF ClientLocal, RunLoop, AfterSession, BackoffCancelled, BackoffOver, DialFail,
        DialOK, DrainEnd, ReadError, stateVars, workerVars, engineVars
<1>3. CASE ClientQueue
  BY <1>3 DEF ClientQueue, DrainOne, stateVars, engineVars
<1>4. CASE ClientState
  <2>1. CASE SetJobStep
    BY <1>4, <2>1 DEF ClientState, SetJobStep, SetJobBump, SetJobActivate, workerVars,
          engineVars, clientVars, TypeOK, StateTypeOK
  <2>2. CASE OnJobReturn
    BY <1>4, <2>2 DEF ClientState, OnJobReturn, SetJobMirror, workerVars, engineVars
  <2>3. CASE Join
    BY <1>4, <2>3 DEF ClientState, Join, InvalidateSwap, workerVars, engineVars
  <2>4. CASE InvalidateReturn
    BY <1>4, <2>4 DEF ClientState, InvalidateReturn, InvalidateBump, workerVars,
          engineVars, TypeOK, StateTypeOK
  <2> QED
    BY <1>4, <2>1, <2>2, <2>3, <2>4 DEF ClientState
<1>5. CASE ReadPush
  BY <1>5 DEF ReadPush, ReadJob, ReadBadVersion, ReadIgnored, SetJobWrite, InvalidateSwap,
        workerVars, engineVars, stateVars, clientVars
<1>6. CASE WriterLocal
  BY <1>6 DEF WriterLocal, WriterCancelled, WriterQuit, WriterActive, WriterEpoch,
        WriterDiscard, WriteOK, WriteFail, stateVars, workerVars, engineVars
<1>7. CASE WriterQueue
  BY <1>7 DEF WriterQueue, WriterTake, stateVars, engineVars
<1>8. CASE Environment
  BY <1>8 DEF Environment, LinkLost, stateVars, workerVars, engineVars
<1>9. CASE Cancel
  BY <1>9 DEF Cancel, stateVars, workerVars, clientVars
<1>10. CASE CloseDone
  BY <1>10 DEF CloseDone, stateVars, workerVars, clientVars
<1>11. CASE UNCHANGED vars
  BY <1>11 DEF vars, stateVars, workerVars, clientVars, engineVars
<1> QED
  BY <1>1, <1>2, <1>3, <1>4, <1>5, <1>6, <1>7, <1>8, <1>9, <1>10, <1>11
     DEF Next, Stopped, ClientGoroutine, WriterGoroutine

-----------------------------------------------------------------------------
(* The snapshot and the epochs                                             *)

\* Epochs are never taken back: what an epoch stands for stays what it was.
LEMMA InstalledGrows ==
    ASSUME TypeOK, ControlInv, [Next]_vars
    PROVE  /\ epoch <= epoch'
           /\ \A e \in 1..epoch : /\ e \in 1..Len(installed) /\ e \in 1..Len(installed')
                                  /\ installed'[e] = installed[e]
<1> USE DEF ControlInv, TypeOK, StateTypeOK
<1>1. CASE SetJobBump(session)
  BY <1>1 DEF SetJobBump
<1>2. CASE InvalidateBump(session)
  BY <1>2 DEF InvalidateBump
<1>3. CASE UNCHANGED <<epoch, installed>>
  BY <1>3
<1>4. SetJobBump(session) \/ InvalidateBump(session) \/ UNCHANGED <<epoch, installed>>
  <2>1. ASSUME NEW t \in Threads, WorkerAction(t) PROVE UNCHANGED <<epoch, installed>>
    BY <2>1 DEF WorkerAction, stateVars
  <2>2. CASE ClientGoroutine
    BY <2>2 DEF ClientGoroutine, ClientLocal, ClientQueue, ClientState, SetJobStep,
          SetJobActivate, OnJobReturn, SetJobMirror, Join, InvalidateSwap,
          InvalidateReturn, stateVars
  <2>3. CASE ReadPush
    BY <2>3 DEF ReadPush, ReadJob, ReadBadVersion, ReadIgnored, SetJobWrite,
          InvalidateSwap, stateVars
  <2>4. CASE WriterGoroutine \/ Environment \/ Cancel \/ CloseDone \/ UNCHANGED vars
    BY <2>4 DEF WriterGoroutine, WriterLocal, WriterQueue, Environment, Cancel,
          CloseDone, vars, stateVars
  <2> QED
    BY <2>1, <2>2, <2>3, <2>4 DEF Next, Stopped
<1> QED
  BY <1>1, <1>2, <1>3, <1>4

\* Every step leaves the snapshot and the installed work in agreement.
LEMMA JobStep == TypeOK /\ ControlInv /\ JobInv /\ [Next]_vars => JobInv'
<1> SUFFICES ASSUME TypeOK, ControlInv, JobInv, [Next]_vars PROVE JobInv'
  OBVIOUS
<1> USE WorkAssumption DEF ControlInv, Idle, JobInv, TypeOK, StateTypeOK, ClientTypeOK
<1>1. CASE UNCHANGED <<stateVars, session>> /\ (cpc' = cpc \/ ~active \/ cpc' = "join")
  BY <1>1 DEF stateVars
<1>2. ASSUME NEW t \in Threads, WorkerAction(t) PROVE JobInv'
  BY <1>1, <1>2 DEF WorkerAction, clientVars
<1>3. CASE ClientLocal
  BY <1>3 DEF ClientLocal, RunLoop, AfterSession, BackoffCancelled, BackoffOver, DialFail,
        DialOK, DrainEnd, ReadError, stateVars
<1>4. CASE ClientQueue
  BY <1>1, <1>4 DEF ClientQueue, DrainOne
<1>5. CASE ClientState
  <2>1. CASE SetJobStep /\ SetJobBump(session)
    BY <1>5, <2>1 DEF SetJobStep, SetJobBump, clientVars
  <2>2. CASE SetJobStep /\ SetJobActivate
    BY <1>5, <2>2 DEF SetJobStep, SetJobActivate, clientVars
  <2>3. CASE OnJobReturn
    BY <1>5, <2>3 DEF OnJobReturn, SetJobMirror
  <2>4. CASE Join
    BY <1>5, <2>4 DEF Join, InvalidateSwap
  <2>5. CASE InvalidateReturn
    BY <1>5, <2>5 DEF InvalidateReturn, InvalidateBump
  <2> QED
    BY <1>5, <2>1, <2>2, <2>3, <2>4, <2>5 DEF ClientState, SetJobStep
<1>6. CASE ReadPush
  <2>1. PICK p \in Pushes : ReadJob(p) \/ ReadBadVersion(p) \/ ReadIgnored(p)
    BY <1>6 DEF ReadPush
  <2>2. CASE ReadJob(p)
    BY <2>2, ClientAssumption DEF ReadJob, SetJobWrite, Push
  <2>3. CASE ReadBadVersion(p)
    BY <2>3 DEF ReadBadVersion, InvalidateSwap
  <2>4. CASE ReadIgnored(p)
    BY <1>1, <2>4 DEF ReadIgnored, clientVars
  <2> QED
    BY <2>1, <2>2, <2>3, <2>4
<1>7. CASE WriterGoroutine
  BY <1>1, <1>7 DEF WriterGoroutine, WriterLocal, WriterQueue, WriterCancelled, WriterQuit,
        WriterTake, WriterActive, WriterEpoch, WriterDiscard, WriteOK, WriteFail
<1>8. CASE Environment \/ Cancel \/ CloseDone \/ UNCHANGED vars
  BY <1>1, <1>8 DEF Environment, LinkLost, Cancel, CloseDone, vars, clientVars
<1> QED
  BY <1>2, <1>3, <1>4, <1>5, <1>6, <1>7, <1>8 DEF Next, Stopped, ClientGoroutine

-----------------------------------------------------------------------------
(* The workers' snapshots                                                  *)

\* Steps of others: the snapshot stays, and the epoch can only move past it.
LEMMA WorkerInvOthers ==
    ASSUME TypeOK, ControlInv, WorkerInv, [Next]_vars,
           UNCHANGED <<pc, wjob, wepoch, late>>
    PROVE  WorkerInv'
<1>0. /\ epoch <= epoch'
      /\ \A e \in 1..epoch : /\ e \in 1..Len(installed) /\ e \in 1..Len(installed')
                             /\ installed'[e] = installed[e]
  BY InstalledGrows
<1> USE <1>0 DEF TypeOK, StateTypeOK, WorkerTypeOK, ControlInv
<1> SUFFICES ASSUME NEW t \in Threads
             PROVE  (/\ pc[t] \in InBody =>
                          /\ wepoch[t] <= epoch
                          /\ \/ wepoch[t] = 0
                             \/ installed[wepoch[t]].work = NoWork
                             \/ Matches([work |-> wjob[t], epoch |-> wepoch[t]])
                     /\ pc[t] \in InBody \ {"live"} => wepoch[t] # 0
                     /\ pc[t] = "loopEpoch" /\ wepoch[t] = epoch =>
                          installed[epoch].work # NoWork
                     /\ pc[t] \in Grinding =>
                          Matches([work |-> wjob[t], epoch |-> wepoch[t]])
                     /\ late[t] # 0 => /\ late[t] = 1
                                       /\ pc[t] \in InBody \ {"send"}
                                       /\ wepoch[t] < epoch)'
  BY DEF WorkerInv
<1>1. Matches([work |-> wjob[t], epoch |-> wepoch[t]])
        => Matches([work |-> wjob[t], epoch |-> wepoch[t]])'
  BY DEF Matches
<1>2. CASE pc[t] \in InBody
  <2>1. wepoch[t] \in Nat /\ epoch \in Nat /\ epoch' \in Nat
    <3>1. TypeOK'
      BY TypeStep
    <3> QED
      BY <3>1
  <2>2. wepoch[t] <= epoch /\ wepoch[t] <= epoch'
    <3>1. wepoch[t] <= epoch
      BY ONLY <1>2, WorkerInv, t \in Threads DEF WorkerInv
    <3> QED
      BY <2>1, <3>1
  <2>3. wepoch[t] # 0 => installed'[wepoch[t]] = installed[wepoch[t]]
    BY <2>1, <2>2
  <2>4. wepoch[t] = epoch' => wepoch[t] = epoch
    BY <2>1, <2>2
  <2> QED
    BY <1>1, <1>2, <2>1, <2>2, <2>3, <2>4 DEF InBody, Grinding, WorkerPCs, WorkerInv
<1>3. CASE pc[t] \notin InBody
  BY <1>3 DEF WorkerInv, InBody, Grinding, WorkerPCs
<1> QED
  BY <1>2, <1>3

\* A worker's own step.
LEMMA WorkerInvOwn ==
    ASSUME TypeOK, ControlInv, JobInv, WorkerInv, NEW t \in Threads, WorkerAction(t)
    PROVE  WorkerInv'
<1> USE DEF TypeOK, StateTypeOK, WorkerTypeOK, ControlInv, InBody, Grinding, WorkerPCs, Goto
<1>1. UNCHANGED stateVars
  BY DEF WorkerAction
<1> DEFINE W(u) == /\ pc[u] \in InBody =>
                        /\ wepoch[u] <= epoch
                        /\ \/ wepoch[u] = 0
                           \/ installed[wepoch[u]].work = NoWork
                           \/ Matches([work |-> wjob[u], epoch |-> wepoch[u]])
                   /\ pc[u] \in InBody \ {"live"} => wepoch[u] # 0
                   /\ pc[u] = "loopEpoch" /\ wepoch[u] = epoch =>
                        installed[epoch].work # NoWork
                   /\ pc[u] \in Grinding =>
                        Matches([work |-> wjob[u], epoch |-> wepoch[u]])
                   /\ late[u] # 0 => /\ late[u] = 1
                                     /\ pc[u] \in InBody \ {"send"}
                                     /\ wepoch[u] < epoch
<1>2. \A u \in Threads : W(u)
  BY DEF WorkerInv
<1>3. \A u \in Threads \ {t} : pc'[u] = pc[u] /\ wjob'[u] = wjob[u]
                               /\ wepoch'[u] = wepoch[u] /\ late'[u] = late[u]
  BY DEF WorkerAction, WorkerStep, WorkerExit, Snapshot, CheckLive, LoopActive, LoopEpoch,
         Hash, HashPastBound, CheckActive, CheckEpoch, Send, CountSubmit, EndIteration,
         LeaveLoop, LoopBodyEnds, StayInLoop
<1>4. ASSUME NEW u \in Threads \ {t} PROVE W(u)'
  <2>1. W(u)
    BY <1>2
  <2>2. pc'[u] = pc[u] /\ wjob'[u] = wjob[u] /\ wepoch'[u] = wepoch[u] /\ late'[u] = late[u]
    BY <1>3
  <2> QED
    BY ONLY <1>1, <2>1, <2>2 DEF stateVars, Matches, InBody, Grinding
<1>5. W(t)'
  <2>1. CASE WorkerExit(t)
    BY <1>1, <1>2, <2>1 DEF WorkerExit, stateVars
  <2>2. CASE Snapshot(t)
    <3>1. late'[t] = 0 /\ wjob'[t] = job /\ wepoch'[t] = epoch /\ pc'[t] = "live" /\ ~mu
      BY <1>2, <2>2 DEF Snapshot, CanSnapshot
    <3>2. epoch = 0 \/ installed[epoch].work = NoWork
          \/ Matches([work |-> job, epoch |-> epoch])
      BY <3>1, WorkAssumption DEF JobInv, Matches
    <3> QED
      BY <1>1, <3>1, <3>2 DEF stateVars, Matches
  <2>3. ASSUME LoopBodyEnds(t) PROVE W(t)'
    BY <1>1, <2>3 DEF LoopBodyEnds, stateVars
  <2>4. CASE CheckLive(t)
    <3>1. CASE wepoch[t] = 0 \/ ~active
      BY <2>3, <2>4, <3>1 DEF CheckLive
    <3>2. CASE ~(wepoch[t] = 0 \/ ~active)
      BY <1>1, <1>2, <2>4, <3>2 DEF CheckLive, stateVars, Matches
    <3> QED
      BY <3>1, <3>2
  <2>5. CASE LoopActive(t)
    <3>1. CASE active
      BY <1>1, <1>2, <2>5, <3>1, WorkAssumption
         DEF LoopActive, StayInLoop, stateVars, Matches, JobInv
    <3>2. CASE ~active
      BY <2>3, <2>5, <3>2 DEF LoopActive, LeaveLoop
    <3> QED
      BY <3>1, <3>2
  <2>6. CASE LoopEpoch(t)
    <3>1. CASE epoch = wepoch[t] /\ ~cancelled
      BY <1>1, <1>2, <2>6, <3>1 DEF LoopEpoch, StayInLoop, stateVars, Matches
    <3>2. CASE ~(epoch = wepoch[t] /\ ~cancelled)
      BY <2>3, <2>6, <3>2 DEF LoopEpoch, LeaveLoop
    <3> QED
      BY <3>1, <3>2
  <2>7. CASE Hash(t) \/ HashPastBound(t) \/ CountSubmit(t) \/ EndIteration(t)
    BY <1>1, <1>2, <2>7
       DEF Hash, HashPastBound, CountSubmit, EndIteration, stateVars, Matches
  <2>8. CASE CheckActive(t)
    BY <1>1, <1>2, <2>8 DEF CheckActive, stateVars, Matches
  <2>9. CASE CheckEpoch(t)
    BY <1>1, <1>2, <2>9 DEF CheckEpoch, stateVars, Matches
  <2>10. CASE Send(t)
    <3>1. late[t] = 0 /\ wjob' = wjob /\ wepoch' = wepoch /\ pc'[t] \in {"count", "check"}
      BY <1>2, <2>10 DEF Send
    <3>2. late'[t] = IF epoch # wepoch[t] THEN 1 ELSE 0
      BY <2>10, <3>1 DEF Send
    <3> QED
      BY <1>1, <1>2, <2>10, <3>1, <3>2 DEF Send, stateVars, Matches
  <2> QED
    BY <2>1, <2>2, <2>4, <2>5, <2>6, <2>7, <2>8, <2>9, <2>10
       DEF WorkerAction, WorkerStep
<1> QED
  BY <1>4, <1>5 DEF WorkerInv

-----------------------------------------------------------------------------
(* Shares: in the channel, in the writer's hands, on the wire              *)

\* A share is made with the work of its epoch, and epochs never change work.
LEMMA ShareStep ==
    ASSUME TypeOK, ControlInv, WorkerInv, ShareCarriesItsWork, [Next]_vars
    PROVE  ShareCarriesItsWork'
<1> USE DEF TypeOK, WorkerTypeOK, ClientTypeOK, ShareCarriesItsWork
<1>1. \A s : Matches(s) => /\ s.epoch \in 1..Len(installed')
                           /\ s.work # NoWork
                           /\ installed'[s.epoch].work = s.work
  BY InstalledGrows DEF Matches, ControlInv, StateTypeOK
<1>2. CASE UNCHANGED <<queue, wire>> /\ (UNCHANGED <<wrpc, held>> \/ wrpc' \in {"none", "select", "done"})
  BY <1>1, <1>2 DEF Matches
<1>3. ASSUME NEW t \in Threads, WorkerAction(t) PROVE ShareCarriesItsWork'
  <2>1. UNCHANGED <<wrpc, held, wire>>
    BY <1>3 DEF WorkerAction, clientVars
  <2>2. CASE Send(t) /\ Len(queue) < SubmitBuffer
    <3>1. queue' = Append(queue, [work |-> wjob[t], epoch |-> wepoch[t]])
      BY <2>2 DEF Send
    <3>2. Matches([work |-> wjob[t], epoch |-> wepoch[t]])
      BY <2>2 DEF Send, WorkerInv, Grinding
    <3>3. \A i \in 1..Len(queue') : Matches(queue'[i])
      BY <3>1, <3>2
    <3> QED
      BY <1>1, <2>1, <3>3 DEF Matches
  <2>3. CASE ~(Send(t) /\ Len(queue) < SubmitBuffer)
    <3>1. UNCHANGED queue
      BY <1>3, <2>3 DEF WorkerAction, WorkerStep, WorkerExit, Snapshot, CheckLive,
            LoopActive, LoopEpoch, Hash, HashPastBound, CheckActive, CheckEpoch, Send,
            CountSubmit, EndIteration
    <3> QED
      BY <1>2, <2>1, <3>1
  <2> QED
    BY <2>2, <2>3
<1>4. CASE ClientLocal \/ ClientState \/ ReadPush
  BY <1>2, <1>4 DEF ClientLocal, RunLoop, AfterSession, BackoffCancelled, BackoffOver,
        DialFail, DialOK, DrainEnd, ReadError, ClientState, SetJobStep, OnJobReturn, Join,
        InvalidateReturn, ReadPush, ReadJob, ReadBadVersion, ReadIgnored, clientVars, workerVars
<1>5. CASE ClientQueue
  <2>1. queue # <<>> /\ queue' = Tail(queue) /\ UNCHANGED <<wrpc, held, wire>>
    BY <1>5 DEF ClientQueue, DrainOne
  <2>2. \A i \in 1..Len(queue') : Matches(queue'[i])
    BY <2>1
  <2> QED
    BY <1>1, <2>1, <2>2 DEF Matches
<1>6. CASE WriterQueue
  <2>1. queue # <<>> /\ queue' = Tail(queue) /\ held' = Head(queue) /\ UNCHANGED wire
    BY <1>6 DEF WriterQueue, WriterTake
  <2>2. Matches(held') /\ \A i \in 1..Len(queue') : Matches(queue'[i])
    BY <2>1
  <2> QED
    BY <1>1, <2>1, <2>2 DEF Matches
<1>7. CASE WriterLocal
  <2>1. UNCHANGED queue
    BY <1>7 DEF WriterLocal, workerVars
  <2>2. CASE WriteOK
    <3>1. wire' = wire \cup {[share |-> held, session |-> session]} /\ wrpc' = "select"
          /\ Matches(held)
      BY <2>2 DEF WriteOK
    <3>2. \A r \in wire' : Matches(r.share)
      BY <3>1
    <3> QED
      BY <1>1, <2>1, <3>1, <3>2 DEF Matches
  <2>3. CASE WriterActive
    BY <1>1, <2>1, <2>3 DEF WriterActive, WriterDiscard, Matches
  <2>4. CASE WriterEpoch
    BY <1>1, <2>1, <2>4 DEF WriterEpoch, WriterDiscard, Matches
  <2>5. CASE WriterCancelled \/ WriterQuit \/ WriteFail
    BY <1>2, <2>1, <2>5 DEF WriterCancelled, WriterQuit, WriteFail
  <2> QED
    BY <1>7, <2>2, <2>3, <2>4, <2>5 DEF WriterLocal
<1>8. CASE Environment \/ Cancel \/ CloseDone \/ UNCHANGED vars
  BY <1>2, <1>8 DEF Environment, LinkLost, Cancel, CloseDone, vars, clientVars, workerVars
<1> QED
  BY <1>3, <1>4, <1>5, <1>6, <1>7, <1>8
     DEF Next, Stopped, ClientGoroutine, WriterGoroutine

\* While a session's writer lives, the session and its epochs are this one's.
LEMMA WriterStep ==
    ASSUME TypeOK, ControlInv, JobInv, ShareCarriesItsWork, WriterInv, [Next]_vars
    PROVE  WriterInv'
<1> USE DEF TypeOK, StateTypeOK, ClientTypeOK, WriterInv
<1>1. \A e \in 1..epoch : installed'[e] = installed[e]
  BY InstalledGrows
<1>2. CASE UNCHANGED <<epoch, installed, session, wrpc, held, wire>>
  BY <1>2
<1>3. CASE wrpc' \in {"none", "select", "done", "valid"}
  BY <1>3
<1>4. ASSUME NEW t \in Threads, WorkerAction(t) PROVE WriterInv'
  BY <1>2, <1>4 DEF WorkerAction, stateVars, clientVars
<1>5. CASE ClientLocal
  BY <1>2, <1>3, <1>5 DEF ClientLocal, RunLoop, AfterSession, BackoffCancelled, BackoffOver,
        DialFail, DialOK, DrainEnd, ReadError, ControlInv, Idle, stateVars
<1>6. CASE ClientQueue
  BY <1>2, <1>6 DEF ClientQueue, DrainOne, stateVars
<1>7. wrpc = "write" => held.epoch \in 1..epoch
  BY DEF ShareCarriesItsWork, Matches, ControlInv
<1>8. CASE ClientState
  <2>1. CASE SetJobStep /\ SetJobBump(session)
    BY <1>1, <1>7, <2>1 DEF SetJobStep, SetJobBump, clientVars, ControlInv
  <2>2. CASE SetJobStep /\ SetJobActivate
    BY <1>2, <2>2 DEF SetJobStep, SetJobActivate, clientVars
  <2>3. CASE OnJobReturn
    BY <1>2, <2>3 DEF OnJobReturn, SetJobMirror
  <2>4. CASE Join
    BY <1>3, <2>4 DEF Join
  <2>5. CASE InvalidateReturn
    BY <1>1, <1>7, <2>5 DEF InvalidateReturn, InvalidateBump, ControlInv
  <2> QED
    BY <1>8, <2>1, <2>2, <2>3, <2>4, <2>5 DEF ClientState, SetJobStep
<1>9. CASE ReadPush
  BY <1>2, <1>9 DEF ReadPush, ReadJob, ReadBadVersion, ReadIgnored, SetJobWrite,
        InvalidateSwap, stateVars, clientVars
<1>10. CASE WriterQueue
  BY <1>3, <1>10 DEF WriterQueue, WriterTake
<1>11. CASE WriterLocal
  <2>1. UNCHANGED <<epoch, installed, active>>
    BY <1>11 DEF WriterLocal, stateVars
  <2>2. CASE WriterActive
    BY <1>3, <2>1, <2>2 DEF WriterActive, WriterDiscard, JobInv
  <2>3. CASE WriterEpoch
    <3>1. \A r \in wire : r.share.epoch <= epoch
      BY DEF ShareCarriesItsWork, Matches, ControlInv
    <3>2. CASE epoch = held.epoch
      BY <2>1, <2>3, <3>1, <3>2 DEF WriterEpoch
    <3>3. CASE epoch # held.epoch
      BY <1>3, <2>3, <3>3 DEF WriterEpoch, WriterDiscard
    <3> QED
      BY <3>2, <3>3
  <2>4. CASE WriterCancelled \/ WriterQuit \/ WriteOK \/ WriteFail
    BY <1>3, <2>4 DEF WriterCancelled, WriterQuit, WriteOK, WriteFail
  <2> QED
    BY <1>11, <2>2, <2>3, <2>4 DEF WriterLocal
<1>12. CASE Environment \/ Cancel \/ CloseDone \/ UNCHANGED vars
  BY <1>2, <1>12 DEF Environment, LinkLost, Cancel, CloseDone, vars, stateVars, clientVars
<1> QED
  BY <1>4, <1>5, <1>6, <1>8, <1>9, <1>10, <1>11, <1>12
     DEF Next, Stopped, ClientGoroutine, WriterGoroutine

\* Only the writer's successful WriteJSON puts a share on the wire.
LEMMA WireChanges == ASSUME [Next]_vars PROVE wire' = wire \/ WriteOK
<1>1. ASSUME NEW t \in Threads, WorkerAction(t) PROVE wire' = wire
  BY <1>1 DEF WorkerAction, clientVars
<1>2. CASE ClientGoroutine
  BY <1>2 DEF ClientGoroutine, ClientLocal, RunLoop, AfterSession, BackoffCancelled,
        BackoffOver, DialFail, DialOK, DrainEnd, ReadError, ClientQueue, DrainOne,
        ClientState, SetJobStep, OnJobReturn, Join, InvalidateReturn, clientVars
<1>3. CASE ReadPush
  BY <1>3 DEF ReadPush, ReadJob, ReadBadVersion, ReadIgnored, clientVars
<1>4. CASE WriterGoroutine
  BY <1>4 DEF WriterGoroutine, WriterLocal, WriterQueue, WriterTake, WriterCancelled,
        WriterQuit, WriterActive, WriterEpoch, WriteFail
<1>5. CASE Environment \/ Cancel \/ CloseDone \/ UNCHANGED vars
  BY <1>5 DEF Environment, LinkLost, Cancel, CloseDone, vars, clientVars
<1> QED
  BY <1>1, <1>2, <1>3, <1>4, <1>5 DEF Next, Stopped

\* What the writer writes belongs to the session it writes to.
LEMMA SessionStep ==
    ASSUME TypeOK, ControlInv, ShareCarriesItsWork, WriterInv, OwnSession, [Next]_vars
    PROVE  OwnSession'
<1>1. \A e \in 1..epoch : e \in 1..Len(installed') /\ installed'[e] = installed[e]
  BY InstalledGrows
<1>2. Len(installed) = epoch
  BY DEF ControlInv
<1>3. CASE wire' = wire
  BY <1>1, <1>2, <1>3 DEF OwnSession
<1>4. CASE WriteOK
  <2>1. wrpc = "write" /\ wire' = wire \cup {[share |-> held, session |-> session]}
    BY <1>4 DEF WriteOK
  <2>2. held.epoch \in 1..epoch /\ installed[held.epoch].session = session
    BY <1>2, <2>1 DEF WriterInv, ShareCarriesItsWork, Matches
  <2>3. \A r \in wire' : /\ r.share.epoch \in 1..epoch
                         /\ installed[r.share.epoch].session = r.session
    BY <1>2, <2>1, <2>2 DEF OwnSession
  <2> QED
    BY <1>1, <2>3 DEF OwnSession
<1>5. wire' = wire \/ WriteOK
  BY WireChanges
<1> QED
  BY <1>3, <1>4, <1>5

-----------------------------------------------------------------------------
(* The theorems                                                            *)

\* The inductive invariant holds when the engine starts.
LEMMA InitInv == Init => IInv
<1> SUFFICES ASSUME Init PROVE IInv
  OBVIOUS
<1> USE WorkAssumption, WorkerAssumption, ClientAssumption
<1> USE DEF Init, StateInit, WorkerInit, ClientInit
<1>1. TypeOK
  <2>1. StateTypeOK
    <3>1. installed \in Seq([work: Work \cup {NoWork}, session: Nat])
      OBVIOUS
    <3> QED
      BY ONLY <3>1, StateInit DEF StateInit, StateTypeOK
  <2>2. WorkerTypeOK /\ Len(queue) <= SubmitBuffer
    <3>1. queue \in Seq(Share) /\ Len(queue) = 0
      OBVIOUS
    <3>2. /\ pc \in [Threads -> WorkerPCs]
          /\ wjob \in [Threads -> Work \cup {NoWork}]
          /\ wins \in [Threads -> SUBSET {1, 2}]
      BY DEF WorkerPCs
    <3>3. /\ wepoch \in [Threads -> Nat]
          /\ local \in [Threads -> Nat]
          /\ late \in [Threads -> Nat]
      OBVIOUS
    <3>4. /\ TotalHashes \in Nat /\ Submitted \in Nat /\ Stale \in Nat /\ hashes \in Nat
          /\ Len(queue) <= SubmitBuffer
      BY <3>1
    <3>5. cancelled \in BOOLEAN
      OBVIOUS
    <3> QED
      BY ONLY <3>1, <3>2, <3>3, <3>4, <3>5 DEF WorkerTypeOK
  <2>3. ClientTypeOK
    <3>1. held \in Share
      BY DEF NoShare, Share
    <3>2. backoff \in InitialBackoff..MaxBackoff
      OBVIOUS
    <3>3. wire \subseteq [share: Share, session: Nat]
      OBVIOUS
    <3> QED
      BY <3>1, <3>2, <3>3 DEF ClientTypeOK, ClientPCs, WriterPCs
  <2> QED
    BY <2>1, <2>2, <2>3 DEF TypeOK
<1>2. ControlInv
  BY DEF ControlInv, Idle
<1>3. JobInv
  BY DEF JobInv
<1>4. WorkerInv
  BY DEF WorkerInv, InBody, Grinding
<1>5. ShareCarriesItsWork /\ WriterInv /\ OwnSession
  BY DEF ShareCarriesItsWork, WriterInv, OwnSession
<1> QED
  BY <1>1, <1>2, <1>3, <1>4, <1>5 DEF IInv

\* Every step of the engine keeps it.
LEMMA StepInv == IInv /\ [Next]_vars => IInv'
<1> SUFFICES ASSUME IInv, [Next]_vars PROVE IInv'
  OBVIOUS
<1>1. TypeOK' /\ ControlInv' /\ JobInv'
  BY TypeStep, ControlStep, JobStep DEF IInv
<1>2. WorkerInv'
  <2>1. ASSUME NEW t \in Threads, WorkerAction(t) PROVE WorkerInv'
    BY <2>1, WorkerInvOwn DEF IInv
  <2>2. ASSUME UNCHANGED <<pc, wjob, wepoch, late>> PROVE WorkerInv'
    BY <2>2, WorkerInvOthers DEF IInv
  <2>3. CASE ClientGoroutine \/ ReadPush
    BY <2>2, <2>3 DEF ClientGoroutine, ClientLocal, ClientQueue, ClientState, ReadPush,
          workerVars
  <2>4. CASE WriterGoroutine \/ Environment \/ Cancel \/ CloseDone \/ UNCHANGED vars
    BY <2>2, <2>4 DEF WriterGoroutine, WriterLocal, WriterQueue, Environment, Cancel,
          CloseDone, vars, workerVars
  <2> QED
    BY <2>1, <2>3, <2>4 DEF Next, Stopped
<1>3. ShareCarriesItsWork' /\ WriterInv' /\ OwnSession'
  BY ShareStep, WriterStep, SessionStep DEF IInv
<1> QED
  BY <1>1, <1>2, <1>3 DEF IInv

\* The inductive invariant holds in every reachable state of the engine.
THEOREM Invariant == Spec => []IInv
<1>1. Init => IInv
  BY InitInv
<1>2. IInv /\ [Next]_vars => IInv'
  BY StepInv
<1> QED
  BY <1>1, <1>2, PTL DEF Spec

\* Every variable keeps its type and the submit channel its capacity.
THEOREM TypeCorrect == Spec => []TypeOK
<1>1. IInv => TypeOK
  BY DEF IInv
<1> QED
  BY <1>1, Invariant, PTL

\* No share ever reaches the socket of a session other than the one that
\* delivered its job: discardStaleSubmits, SubmitValid and the join of the
\* writer are enough, for any number of workers, sessions and jobs.
THEOREM SharesStayInTheirSession == Spec => []OwnSession
<1>1. IInv => OwnSession
  BY DEF IInv
<1> QED
  BY <1>1, Invariant, PTL

\* Every share, queued, held or written, carries the work installed at its epoch.
THEOREM SharesCarryTheirWork == Spec => []ShareCarriesItsWork
<1>1. IInv => ShareCarriesItsWork
  BY DEF IInv
<1> QED
  BY <1>1, Invariant, PTL

\* A worker only hashes installed work under that work's own epoch, although
\* Job(), Active() and Epoch() are read at different moments.
THEOREM OnlyInstalledWorkIsHashed == Spec => []HashesInstalledWork
<1>1. IInv => HashesInstalledWork
  BY DEF IInv, WorkerInv, HashesInstalledWork
<1> QED
  BY <1>1, Invariant, PTL

\* Workers have a live job only while the session that delivered it is up.
THEOREM OutageIdlesWorkers == Spec => []NoWorkWithoutSession
<1>1. IInv => NoWorkWithoutSession
  BY DEF IInv, ControlInv, JobInv, NoWorkWithoutSession
<1> QED
  BY <1>1, Invariant, PTL

\* After its epoch has ended a worker lets at most one more share through.
THEOREM AtMostOneLateShare == Spec => []OneLateShare
<1>1. IInv => OneLateShare
  <2> SUFFICES ASSUME IInv, NEW t \in Threads PROVE late[t] <= 1
    BY DEF OneLateShare
  <2>1. late[t] = 0 \/ late[t] = 1
    BY DEF IInv, WorkerInv
  <2> QED
    BY <2>1
<1> QED
  BY <1>1, Invariant, PTL

\* Shares reach the wire in epoch order: the epoch check of SubmitValid, made
\* by the only goroutine that writes, orders what workers race into the channel.
THEOREM WireOrder == Spec => WireEpochsOrdered
<1>1. IInv /\ [Next]_vars =>
        \A new \in wire' \ wire : \A old \in wire : old.share.epoch <= new.share.epoch
  <2> SUFFICES ASSUME IInv, [Next]_vars, NEW new \in wire' \ wire, NEW old \in wire
               PROVE  old.share.epoch <= new.share.epoch
    OBVIOUS
  <2>1. WriteOK
    BY WireChanges
  <2>2. new.share = held
    BY <2>1 DEF WriteOK
  <2>3. old.share.epoch <= held.epoch
    BY <2>1 DEF WriteOK, IInv, WriterInv
  <2> QED
    BY <2>2, <2>3
<1> QED
  BY <1>1, Invariant, PTL DEF Spec, WireEpochsOrdered

\* Once done is closed no variable moves: the counters Stop's caller reads are final.
THEOREM StopIsFinal == Spec => QuietAfterDone
<1>1. IInv /\ [Next]_vars => [~done]_vars
  <2> SUFFICES ASSUME IInv, Next, done PROVE UNCHANGED vars
    OBVIOUS
  <2>1. /\ cancelled /\ cpc = "done" /\ wrpc = "none" /\ conn = "none" /\ spc = "idle"
        /\ \A t \in Threads : pc[t] = "done"
    BY DEF IInv, ControlInv, Idle, TypeOK, StateTypeOK
  <2>2. ~ \E t \in Threads : WorkerAction(t)
    BY <2>1 DEF WorkerAction, WorkerStep, WorkerExit, Snapshot, CheckLive, LoopActive,
          LoopEpoch, Hash, HashPastBound, CheckActive, CheckEpoch, Send, CountSubmit,
          EndIteration
  <2>3. ~ (ClientGoroutine \/ ReadPush)
    BY <2>1 DEF ClientGoroutine, ClientLocal, RunLoop, AfterSession, BackoffCancelled,
          BackoffOver, DialFail, DialOK, DrainEnd, ReadError, ClientQueue, DrainOne,
          ClientState, SetJobStep, SetJobBump, SetJobActivate, OnJobReturn, Join,
          InvalidateReturn, InvalidateBump, ReadPush, ReadJob, ReadBadVersion, ReadIgnored
  <2>4. ~ (WriterGoroutine \/ Environment \/ Cancel \/ CloseDone)
    BY <2>1 DEF WriterGoroutine, WriterLocal, WriterCancelled, WriterQuit, WriterActive,
          WriterEpoch, WriteOK, WriteFail, WriterQueue, WriterTake, Environment, LinkLost,
          Cancel, CloseDone
  <2> QED
    BY <2>2, <2>3, <2>4 DEF Next, Stopped
<1> QED
  BY <1>1, Invariant, PTL DEF Spec, QuietAfterDone

-----------------------------------------------------------------------------
(* The engine implements ShareRelay                                        *)

\* Initial states of the engine are initial states of the relay.
LEMMA RelayInit == Init => Relay!RInit
BY DEF Init, StateInit, ClientInit, Relay!RInit

\* Every step of the engine is a step of the relay, or changes nothing of it.
LEMMA RelayStep == IInv /\ [Next]_vars => [Relay!RNext]_(Relay!rvars)
<1> SUFFICES ASSUME IInv, [Next]_vars, ~ UNCHANGED <<installed, session, wire>>
             PROVE  Relay!RNext
  BY DEF Relay!rvars
<1>1. ASSUME NEW t \in Threads, WorkerAction(t) PROVE FALSE
  BY <1>1 DEF WorkerAction, stateVars, clientVars
<1>2. CASE ClientLocal
  <2>1. DialOK
    BY <1>2 DEF ClientLocal, RunLoop, AfterSession, BackoffCancelled, BackoffOver, DialFail,
          DrainEnd, ReadError, stateVars
  <2> QED
    BY <1>2, <2>1 DEF ClientLocal, DialOK, stateVars, Relay!RNext, Relay!Connect
<1>3. CASE ClientState
  <2>1. (SetJobStep /\ SetJobBump(session)) \/ InvalidateReturn
    BY <1>3 DEF ClientState, SetJobStep, SetJobActivate, OnJobReturn, SetJobMirror, Join,
          InvalidateSwap, clientVars
  <2>2. CASE SetJobStep /\ SetJobBump(session)
    <3>1. job \in Work
      BY <2>2 DEF SetJobBump, IInv, JobInv
    <3>2. Relay!Begin(job)
      BY <2>2 DEF SetJobStep, SetJobBump, clientVars, Relay!Begin
    <3> QED
      BY <3>1, <3>2 DEF Relay!RNext
  <2>3. CASE InvalidateReturn
    <3>1. Relay!Begin(NoWork)
      BY <2>3 DEF InvalidateReturn, InvalidateBump, Relay!Begin
    <3> QED
      BY <3>1 DEF Relay!RNext
  <2> QED
    BY <2>1, <2>2, <2>3
<1>4. CASE WriterLocal
  <2>1. UNCHANGED <<installed, session>>
    BY <1>4 DEF WriterLocal, WriterCancelled, WriterQuit, WriterActive, WriterEpoch, WriteOK,
          WriteFail, stateVars
  <2>2. WriteOK
    BY <2>1, WireChanges
  <2>3. held \in Share /\ held.epoch \in 1..Len(installed) /\ held.work # NoWork
        /\ installed[held.epoch].work = held.work
    BY <2>2 DEF WriteOK, IInv, ShareCarriesItsWork, Matches, TypeOK, ClientTypeOK
  <2>4. held = [work |-> installed[held.epoch].work, epoch |-> held.epoch]
    BY <2>3 DEF Share
  <2>5. installed[held.epoch].session = session /\ \A r \in wire : r.share.epoch <= held.epoch
    BY <2>2 DEF WriteOK, IInv, WriterInv
  <2>6. wire' = wire \cup {[share |-> held, session |-> session]}
    BY <2>2 DEF WriteOK
  <2>7. Relay!Deliver(held.epoch)
    BY <2>1, <2>3, <2>4, <2>5, <2>6 DEF Relay!Deliver
  <2> QED
    BY <2>3, <2>7 DEF Relay!RNext
<1>5. CASE ClientQueue \/ ReadPush
  BY <1>5 DEF ClientQueue, DrainOne, ReadPush, ReadJob, ReadBadVersion, ReadIgnored,
        SetJobWrite, InvalidateSwap, stateVars, clientVars
<1>6. CASE WriterQueue \/ Environment \/ Cancel \/ CloseDone \/ UNCHANGED vars
  BY <1>6 DEF WriterQueue, WriterTake, Environment, LinkLost, Cancel, CloseDone, vars,
        stateVars, clientVars
<1> QED
  BY <1>1, <1>2, <1>3, <1>4, <1>5, <1>6
     DEF Next, Stopped, ClientGoroutine, WriterGoroutine

\* Refinement: every behaviour of the engine is a behaviour of ShareRelay.
THEOREM EngineImplementsRelay == Spec => ImplementsRelay
<1>1. Init => Relay!RInit
  BY RelayInit
<1>2. IInv /\ [Next]_vars => [Relay!RNext]_(Relay!rvars)
  BY RelayStep
<1> QED
  BY <1>1, <1>2, Invariant, PTL DEF Spec, ImplementsRelay, Relay!RSpec

-----------------------------------------------------------------------------
(* The shares are conserved, for any number of threads, any capacity of    *)
(* the submit channel and any number of sessions.                          *)

\* The workers that have sent a share and have yet to count it.
Counting == {t \in Threads : pc[t] = "count"}

\* The shares that have left the channel and the writer's hands.
Ended == drained + Discarded + SendFails + written

AInv ==
    /\ IsFiniteSet(Counting)
    /\ Submitted + Cardinality(Counting) = Len(queue) + InWriter + Ended

\* AInv counts what ShareAccounting does, in places that are easier to move.
LEMMA Accounting == TypeOK /\ AInv => ShareAccounting
<1> SUFFICES ASSUME TypeOK, AInv PROVE ShareAccounting
  OBVIOUS
<1>1. /\ queue \in Seq(Share)
      /\ drained \in Nat /\ Discarded \in Nat /\ SendFails \in Nat /\ written \in Nat
  BY DEF TypeOK, WorkerTypeOK, ClientTypeOK
<1>2. Len(queue) \in Nat /\ InWriter \in Nat
  BY <1>1 DEF InWriter
<1> QED
  BY <1>1, <1>2 DEF AInv, ShareAccounting, Counting, Ended

\* No share yet, and no worker between a send and its count.
LEMMA AccountingInit == Init => AInv
<1> SUFFICES ASSUME Init PROVE AInv
  OBVIOUS
<1>1. Counting = {}
  BY DEF Init, WorkerInit, Counting
<1>2. IsFiniteSet(Counting) /\ Cardinality(Counting) = 0
  BY <1>1, FS_EmptySet
<1>3. Submitted = 0 /\ Len(queue) = 0 /\ InWriter = 0 /\ Ended = 0
  BY DEF Init, WorkerInit, ClientInit, InWriter, Ended
<1> QED
  BY <1>2, <1>3 DEF AInv

-----------------------------------------------------------------------------
(* The workers: a share enters the channel and its worker starts to count  *)
(* it, or the worker has counted it.                                       *)
LEMMA WorkerAccounts ==
    ASSUME TypeOK, AInv, NEW t \in Threads, WorkerAction(t)
    PROVE  AInv'
<1>1. /\ pc \in [Threads -> WorkerPCs] /\ queue \in Seq(Share) /\ Submitted \in Nat
      /\ Cardinality(Counting) \in Nat
  BY FS_CardinalityType DEF TypeOK, WorkerTypeOK, AInv
<1>2. InWriter' = InWriter /\ Ended' = Ended
  BY DEF WorkerAction, clientVars, InWriter, Ended
<1>3. InWriter \in Nat /\ Ended \in Nat
  BY DEF InWriter, Ended, TypeOK, ClientTypeOK
<1>4. ASSUME Send(t), Len(queue) < SubmitBuffer PROVE AInv'
  <2>1. /\ pc[t] = "send" /\ pc' = [pc EXCEPT ![t] = "count"] /\ Submitted' = Submitted
        /\ queue' = Append(queue, [work |-> wjob[t], epoch |-> wepoch[t]])
    BY <1>4 DEF Send, Goto
  <2>2. Counting' = Counting \cup {t} /\ t \notin Counting
    BY <1>1, <2>1 DEF Counting
  <2>3. IsFiniteSet(Counting') /\ Cardinality(Counting') = Cardinality(Counting) + 1
    BY <2>2, FS_AddElement DEF AInv
  <2>4. Len(queue') = Len(queue) + 1 /\ Len(queue) \in Nat
    BY <1>1, <2>1
  <2> QED
    BY <1>1, <1>2, <1>3, <2>1, <2>3, <2>4 DEF AInv
<1>5. ASSUME CountSubmit(t) PROVE AInv'
  <2>1. /\ pc[t] = "count" /\ pc' = [pc EXCEPT ![t] = "check"]
        /\ Submitted' = Submitted + 1 /\ queue' = queue
    BY <1>5 DEF CountSubmit, Goto
  <2>2. Counting' = Counting \ {t} /\ t \in Counting
    BY <1>1, <2>1 DEF Counting
  <2>3. IsFiniteSet(Counting') /\ Cardinality(Counting') = Cardinality(Counting) - 1
    BY <2>2, FS_RemoveElement DEF AInv
  <2> QED
    BY <1>1, <1>2, <1>3, <2>1, <2>3 DEF AInv
<1>6. ASSUME ~(Send(t) /\ Len(queue) < SubmitBuffer), ~CountSubmit(t) PROVE AInv'
  <2>1. Submitted' = Submitted /\ queue' = queue
    BY <1>6 DEF WorkerAction, WorkerStep, WorkerExit, Snapshot, CheckLive, LoopActive,
          LoopEpoch, Hash, HashPastBound, CheckActive, CheckEpoch, Send, EndIteration
  <2>2. \E to \in WorkerPCs \ {"count"} : pc[t] # "count" /\ pc' = [pc EXCEPT ![t] = to]
    <3>1. CASE CheckActive(t)
      BY <1>1, <3>1 DEF CheckActive, Goto, WorkerPCs
    <3>2. CASE ~CheckActive(t)
      BY <1>6, <3>2 DEF WorkerAction, WorkerStep, WorkerExit, Snapshot, CheckLive, LoopActive,
            LoopEpoch, Hash, HashPastBound, CheckEpoch, Send, EndIteration, LeaveLoop,
            LoopBodyEnds, StayInLoop, Goto, WorkerPCs
    <3> QED
      BY <3>1, <3>2
  <2>3. Counting' = Counting
    BY <1>1, <2>2 DEF Counting
  <2> QED
    BY <1>2, <2>1, <2>3 DEF AInv
<1> QED
  BY <1>4, <1>5, <1>6

-----------------------------------------------------------------------------
(* The client and its writer move shares from one place to the next.       *)
LEMMA OthersAccount ==
    ASSUME AInv, pc' = pc, Submitted' = Submitted,
           Len(queue') + InWriter' + Ended' = Len(queue) + InWriter + Ended
    PROVE  AInv'
<1>1. Counting' = Counting
  BY DEF Counting
<1> QED
  BY <1>1 DEF AInv

\* Draining moves shares from the queue to Discarded; nothing else of the
\* client's goroutine touches them.
LEMMA ClientAccounts ==
    ASSUME TypeOK, ControlInv, AInv, ClientGoroutine \/ ReadPush
    PROVE  AInv'
<1>1. pc' = pc /\ Submitted' = Submitted
  BY DEF ClientGoroutine, ClientLocal, ClientQueue, ClientState, ReadPush, workerVars
<1>2. /\ queue \in Seq(Share) /\ Len(queue) \in Nat
      /\ drained \in Nat /\ Discarded \in Nat /\ SendFails \in Nat /\ written \in Nat
  BY DEF TypeOK, WorkerTypeOK, ClientTypeOK
<1>3. CASE ClientQueue
  <2>1. /\ Len(queue') = Len(queue) - 1 /\ drained' = drained + 1 /\ InWriter' = InWriter
        /\ UNCHANGED <<Discarded, SendFails, written>>
    BY <1>2, <1>3 DEF ClientQueue, DrainOne, InWriter
  <2>2. InWriter \in Nat
    BY DEF InWriter
  <2> QED
    BY <1>1, <1>2, <2>1, <2>2, OthersAccount DEF Ended
<1>4. CASE ClientLocal /\ DrainEnd
  <2>1. /\ queue' = queue /\ drained' = 0 /\ Discarded' = Discarded + drained
        /\ UNCHANGED <<SendFails, written>> /\ wrpc' = "select" /\ cpc = "drain"
    BY <1>4 DEF ClientLocal, DrainEnd, workerVars
  <2>2. InWriter = 0 /\ InWriter' = 0
    BY <2>1 DEF InWriter, ControlInv
  <2> QED
    BY <1>1, <1>2, <2>1, <2>2, OthersAccount DEF Ended
<1>5. CASE (ClientLocal /\ ~DrainEnd) \/ ClientState \/ ReadPush
  <2>1. queue' = queue
    BY <1>5 DEF ClientLocal, ClientState, ReadPush, workerVars
  <2>2. UNCHANGED <<drained, Discarded, SendFails, written>>
    BY <1>5 DEF ClientLocal, RunLoop, AfterSession, BackoffCancelled, BackoffOver, DialFail,
          DialOK, ReadError, ClientState, SetJobStep, OnJobReturn, Join, InvalidateReturn,
          ReadPush, ReadJob, ReadBadVersion, ReadIgnored, clientVars
  <2>3. wrpc' = wrpc \/ (wrpc = "done" /\ wrpc' = "none")
    BY <1>5 DEF ClientLocal, RunLoop, AfterSession, BackoffCancelled, BackoffOver, DialFail,
          DialOK, ReadError, ClientState, SetJobStep, OnJobReturn, Join, InvalidateReturn,
          ReadPush, ReadJob, ReadBadVersion, ReadIgnored, clientVars
  <2>4. InWriter' = InWriter /\ Ended' = Ended
    BY <2>2, <2>3 DEF InWriter, Ended
  <2> QED
    BY <1>1, <2>1, <2>4, OthersAccount
<1> QED
  BY <1>3, <1>4, <1>5 DEF ClientGoroutine

\* The writer takes a share from the queue and puts it in one of four ends.
LEMMA WriterAccounts ==
    ASSUME TypeOK, AInv, WriterGoroutine PROVE AInv'
<1>1. pc' = pc /\ Submitted' = Submitted
  BY DEF WriterGoroutine, WriterLocal, WriterQueue, workerVars
<1>2. /\ queue \in Seq(Share) /\ Len(queue) \in Nat
      /\ drained \in Nat /\ Discarded \in Nat /\ SendFails \in Nat /\ written \in Nat
  BY DEF TypeOK, WorkerTypeOK, ClientTypeOK
<1>3. CASE WriterQueue
  <2>1. /\ Len(queue') = Len(queue) - 1 /\ wrpc = "select" /\ wrpc' = "valid"
        /\ UNCHANGED <<drained, Discarded, SendFails, written>>
    BY <1>2, <1>3 DEF WriterQueue, WriterTake
  <2>2. InWriter = 0 /\ InWriter' = 1 /\ Ended' = Ended /\ Ended \in Nat
    BY <1>2, <2>1 DEF InWriter, Ended
  <2> QED
    BY <1>1, <1>2, <2>1, <2>2, OthersAccount
<1>4. CASE WriterLocal
  <2>1. queue' = queue /\ drained' = drained
    BY <1>4 DEF WriterLocal, WriterCancelled, WriterQuit, WriterActive, WriterEpoch,
          WriteOK, WriteFail, workerVars
  <2>2. \/ InWriter' = InWriter /\ UNCHANGED <<Discarded, SendFails, written>>
        \/ /\ InWriter = 1 /\ InWriter' = 0
           /\ \/ Discarded' = Discarded + 1 /\ UNCHANGED <<SendFails, written>>
              \/ SendFails' = SendFails + 1 /\ UNCHANGED <<Discarded, written>>
              \/ written' = written + 1 /\ UNCHANGED <<Discarded, SendFails>>
    <3>1. CASE WriterCancelled \/ WriterQuit
      BY <3>1 DEF WriterCancelled, WriterQuit, InWriter
    <3>2. CASE WriterActive
      BY <3>2 DEF WriterActive, WriterDiscard, InWriter
    <3>3. CASE WriterEpoch
      BY <3>3 DEF WriterEpoch, WriterDiscard, InWriter
    <3>4. CASE WriteOK \/ WriteFail
      BY <3>4 DEF WriteOK, WriteFail, InWriter
    <3> QED
      BY <1>4, <3>1, <3>2, <3>3, <3>4 DEF WriterLocal
  <2>3. Len(queue') = Len(queue) /\ Ended \in Nat
    BY <1>2, <2>1 DEF Ended
  <2>4. CASE InWriter' = InWriter /\ UNCHANGED <<Discarded, SendFails, written>>
    <3>1. Ended' = Ended
      BY <2>1, <2>4 DEF Ended
    <3> QED
      BY <1>1, <2>1, <2>4, <3>1, OthersAccount
  <2>5. CASE InWriter = 1 /\ InWriter' = 0 /\ ~UNCHANGED <<Discarded, SendFails, written>>
    <3>1. Ended' = Ended + 1
      BY <1>2, <2>1, <2>2, <2>5 DEF Ended
    <3> QED
      BY <1>1, <1>2, <2>3, <2>5, <3>1, OthersAccount
  <2> QED
    BY <1>2, <2>2, <2>4, <2>5
<1> QED
  BY <1>3, <1>4 DEF WriterGoroutine

-----------------------------------------------------------------------------
\* No step of the engine loses a share or counts one twice.
LEMMA AccountingStep == IInv /\ AInv /\ [Next]_vars => AInv'
<1> SUFFICES ASSUME IInv, AInv, [Next]_vars PROVE AInv'
  OBVIOUS
<1>1. TypeOK /\ ControlInv
  BY DEF IInv
<1>2. ASSUME NEW t \in Threads, WorkerAction(t) PROVE AInv'
  BY <1>1, <1>2, WorkerAccounts
<1>3. CASE ClientGoroutine \/ ReadPush \/ WriterGoroutine
  BY <1>1, <1>3, ClientAccounts, WriterAccounts
<1>4. CASE Environment \/ Cancel \/ CloseDone \/ UNCHANGED vars
  <2>1. /\ pc' = pc /\ Submitted' = Submitted /\ queue' = queue
        /\ UNCHANGED <<wrpc, drained, Discarded, SendFails, written>>
    BY <1>4 DEF Environment, LinkLost, Cancel, CloseDone, vars, workerVars, clientVars
  <2> QED
    BY <2>1, OthersAccount DEF InWriter, Ended
<1> QED
  BY <1>2, <1>3, <1>4 DEF Next, Stopped

\* No share is lost or counted twice between the workers' counter and the
\* client's: each one sent is queued, held, drained, discarded, failed or written,
\* however many workers race for the channel and whenever sessions end.
THEOREM SharesAreConserved == Spec => []ShareAccounting
<1>1. Init => AInv
  BY AccountingInit
<1>2. IInv /\ AInv => ShareAccounting
  BY Accounting DEF IInv
<1> QED
  BY Invariant, AccountingStep, <1>1, <1>2, PTL DEF Spec

-----------------------------------------------------------------------------
(* The hashes: a worker's step changes its own part of the sum of `local`  *)
(* by as much as it moves between `hashes`, `local` and TotalHashes.       *)

\* A step that adds d to one worker's local count adds d to the sum.
LEMMA LocalChanges ==
    ASSUME TypeOK, HashAccounting, NEW t \in Threads, NEW n \in Nat,
           local' = [local EXCEPT ![t] = n],
           TotalHashes' \in Nat, hashes' \in Nat,
           hashes' - hashes = (TotalHashes' - TotalHashes) + (n - local[t])
    PROVE  HashAccounting'
<1>1. /\ local \in [Threads -> Nat] /\ local' \in [Threads -> Nat]
      /\ local'[t] = n /\ local[t] \in Nat
      /\ \A u \in Threads \ {t} : local'[u] = local[u]
      /\ hashes \in Nat /\ TotalHashes \in Nat
  BY DEF TypeOK, WorkerTypeOK
<1>2. /\ SumFunction(local) \in Nat
      /\ SumFunction(local') \in Nat
      /\ SumFunction(local') - SumFunction(local) = n - local[t]
  <2>1. \A f, g \in [Threads -> Nat] :
          (\A u \in Threads \ {t} : g[u] = f[u]) =>
            /\ SumFunction(f) \in Nat
            /\ SumFunction(g) \in Nat
            /\ SumFunction(g) - SumFunction(f) = g[t] - f[t]
    BY SumChanges, ThreadsAssumption
  <2> QED
    BY <1>1, <2>1
<1>3. hashes = TotalHashes + SumFunction(local)
  BY DEF HashAccounting
<1>4. hashes' = TotalHashes' + SumFunction(local')
  BY <1>1, <1>2, <1>3
<1> QED
  BY <1>4 DEF HashAccounting

\* A step that counts no hash keeps the accounts.
LEMMA HashesUnchanged ==
    ASSUME HashAccounting, hashes' = hashes, TotalHashes' = TotalHashes, local' = local
    PROVE  HashAccounting'
BY DEF HashAccounting

\* A worker counts its hashes locally, and a flush moves them to the total.
LEMMA WorkerHashes ==
    ASSUME TypeOK, HashAccounting, NEW t \in Threads, WorkerAction(t)
    PROVE  HashAccounting'
<1>1. /\ local[t] \in Nat /\ TotalHashes \in Nat /\ hashes \in Nat
      /\ Cardinality(Lanes) \in Nat
  BY LanesFacts DEF TypeOK, WorkerTypeOK
<1>2. ASSUME LeaveLoop(t), hashes' = hashes PROVE HashAccounting'
  <2>1. TotalHashes' = TotalHashes + local[t] /\ local' = [local EXCEPT ![t] = 0]
    BY <1>2 DEF LeaveLoop
  <2>2. TotalHashes' \in Nat /\ hashes' \in Nat
    BY <1>1, <1>2, <2>1
  <2>3. hashes' - hashes = (TotalHashes' - TotalHashes) + (0 - local[t])
    BY <1>1, <1>2, <2>1
  <2> QED
    BY <2>1, <2>2, <2>3, LocalChanges
<1>3. CASE LoopActive(t)
  <2>1. hashes' = hashes
    BY <1>3 DEF LoopActive
  <2>2. LeaveLoop(t) \/ StayInLoop(t, "loopEpoch")
    BY <1>3 DEF LoopActive
  <2> QED
    BY <1>2, <2>1, <2>2, HashesUnchanged DEF StayInLoop
<1>4. CASE LoopEpoch(t)
  <2>1. hashes' = hashes
    BY <1>4 DEF LoopEpoch
  <2>2. LeaveLoop(t) \/ StayInLoop(t, "hash")
    BY <1>4 DEF LoopEpoch
  <2> QED
    BY <1>2, <2>1, <2>2, HashesUnchanged DEF StayInLoop
<1>5. CASE Hash(t)
  <2>1. /\ hashes' = hashes + Cardinality(Lanes)
        /\ local' = [local EXCEPT ![t] = local[t] + Cardinality(Lanes)]
        /\ TotalHashes' = TotalHashes
    BY <1>5 DEF Hash
  <2> DEFINE n == local[t] + Cardinality(Lanes)
  <2>2. n \in Nat /\ TotalHashes' \in Nat /\ hashes' \in Nat
    BY <1>1, <2>1
  <2>3. hashes' - hashes = (TotalHashes' - TotalHashes) + (n - local[t])
    BY <1>1, <2>1
  <2>4. local' = [local EXCEPT ![t] = n]
    BY <2>1
  <2> HIDE DEF n
  <2> QED
    BY <2>2, <2>3, <2>4, LocalChanges
<1>6. CASE EndIteration(t)
  <2>1. hashes' = hashes
    BY <1>6 DEF EndIteration
  <2>2. CASE local[t] >= CounterFlush
    <3>1. TotalHashes' = TotalHashes + local[t] /\ local' = [local EXCEPT ![t] = 0]
      BY <1>6, <2>2 DEF EndIteration
    <3>2. TotalHashes' \in Nat /\ hashes' \in Nat
      BY <1>1, <2>1, <3>1
    <3>3. hashes' - hashes = (TotalHashes' - TotalHashes) + (0 - local[t])
      BY <1>1, <2>1, <3>1
    <3> QED
      BY <3>1, <3>2, <3>3, LocalChanges
  <2>3. CASE ~(local[t] >= CounterFlush)
    BY <1>6, <2>1, <2>3, HashesUnchanged DEF EndIteration
  <2> QED
    BY <2>2, <2>3
<1>7. CASE WorkerExit(t) \/ Snapshot(t) \/ CheckLive(t) \/ HashPastBound(t)
  BY <1>7, HashesUnchanged DEF WorkerExit, Snapshot, CheckLive, HashPastBound
<1>8. CASE CheckActive(t) \/ CheckEpoch(t) \/ Send(t) \/ CountSubmit(t)
  BY <1>8, HashesUnchanged DEF CheckActive, CheckEpoch, Send, CountSubmit
<1> QED
  BY <1>3, <1>4, <1>5, <1>6, <1>7, <1>8 DEF WorkerAction, WorkerStep

\* No step of the engine loses a hash or counts one twice.
LEMMA HashesStep == TypeOK /\ HashAccounting /\ [Next]_vars => HashAccounting'
<1> SUFFICES ASSUME TypeOK, HashAccounting, [Next]_vars PROVE HashAccounting'
  OBVIOUS
<1>1. ASSUME NEW t \in Threads, WorkerAction(t) PROVE HashAccounting'
  BY <1>1, WorkerHashes
<1>2. CASE ClientGoroutine \/ ReadPush
  BY <1>2, HashesUnchanged DEF ClientGoroutine, ClientLocal, ClientQueue, ClientState,
        ReadPush, workerVars
<1>3. CASE WriterGoroutine \/ Environment \/ Cancel \/ CloseDone \/ UNCHANGED vars
  BY <1>3, HashesUnchanged DEF WriterGoroutine, WriterLocal, WriterQueue, Environment,
        Cancel, CloseDone, vars, workerVars
<1> QED
  BY <1>1, <1>2, <1>3 DEF Next, Stopped

\* No hash is lost or counted twice by the batched flushes of internal/miner's
\* Run: TotalHashes and what the workers still hold are the hashes computed, for
\* any number of workers, any batch size and wherever a loop is left.
THEOREM HashesAreConserved == Spec => []HashAccounting
<1>1. Init => HashAccounting
  <2> SUFFICES ASSUME Init PROVE HashAccounting
    OBVIOUS
  <2>1. local \in [Threads -> Nat] /\ \A t \in Threads : local[t] = 0
    BY DEF Init, WorkerInit
  <2>2. SumFunction(local) = 0
    BY <2>1, SumZero, ThreadsAssumption
  <2> QED
    BY <2>2 DEF Init, WorkerInit, HashAccounting
<1>2. IInv => TypeOK
  BY DEF IInv
<1> QED
  BY Invariant, HashesStep, <1>1, <1>2, PTL DEF Spec

=============================================================================
