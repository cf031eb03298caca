-------------------------- MODULE EngineStatsProofs --------------------------
(***************************************************************************)
(* Theorems about EngineStats: a result that says "not running" is final,  *)
(* no counter of a result is older than the last push mirrored before the  *)
(* call, and the rate measures the whole window.                           *)
(***************************************************************************)
EXTENDS EngineStats, TLAPS

-----------------------------------------------------------------------------
(* The two orders, spelled out.                                            *)

\* The five counters SetJob mirrors.
LEMMA MirroredIs ==
    Mirrored = {"Height", "Diff", "Blocks", "MiniBlocks", "Rejected"}
  BY DEF Mirrored, Stores

\* SetJob stores five counters.
LEMMA LenStores == Len(Stores) = 5
  BY DEF Stores

\* SetJob stores each mirrored counter.
LEMMA StoresIs ==
    /\ \A i \in 1..5 : Stores[i] \in Mirrored
    /\ \A f \in Mirrored : \E i \in 1..5 : Stores[i] = f
  BY DEF Mirrored, Stores

\* Stats loads six values.
LEMMA LenLoads == Len(Loads) = 6
  BY DEF Loads

\* Stats loads Connected first, then each mirrored counter.
LEMMA LoadsIs ==
    /\ Loads[1] = "Connected"
    /\ \A j \in 2..6 : Loads[j] \in Mirrored
    /\ \A f \in Mirrored : \E j \in 2..6 : Loads[j] = f
  BY MirroredIs DEF Loads

\* Connected is the client's own flag, not a counter of SetJob.
LEMMA ConnectedNotMirrored == "Connected" \notin Mirrored
  BY MirroredIs

\* The ring: the slot after the last is the first.
LEMMA NextSlot ==
    ASSUME NEW n \in 0..Window - 1
    PROVE  /\ (n + 1) % Window \in 0..Window - 1
           /\ n + 1 < Window => (n + 1) % Window = n + 1
           /\ n + 1 = Window => (n + 1) % Window = 0
<1> USE StatsAssumption
<1>1. CASE n + 1 < Window
  BY <1>1, SMT
<1>2. CASE n + 1 = Window
  BY <1>2, SMT
<1> QED
  BY <1>1, <1>2

-----------------------------------------------------------------------------
(* The inductive invariant.                                                *)

\* The last push of which every counter has been stored.
Completed == IF InSetJob THEN pushes - 1 ELSE pushes

\* Where the goroutines are: SetJob runs in a session, and nothing runs after done.
ControlInv ==
    /\ InSetJob => cst = "up" /\ pushes > 0
    /\ Connected => cst = "up"
    /\ done => wst = "gone" /\ cst = "gone" /\ sst = "gone"

\* The counters stored so far are the latest push's, the others at most one older.
MirrorInv ==
    /\ \A i \in 1..5 : i <= stored => field[Stores[i]] = pushes
    /\ \A f \in Mirrored : field[f] >= pushes - 1

\* What the Stats call in progress has loaded is recent enough.
CallInv ==
    /\ floor <= Completed
    /\ rpc # "load" => nload = 1
    /\ rpc = "load" => \A j \in 2..6 : j < nload => res.mirror[Loads[j]] >= floor
    /\ FieldsAreFresh

\* A call that has found the engine stopped has loaded final values.
FinalInv ==
    /\ ~res.running => done
    /\ rpc = "load" /\ ~res.running =>
          /\ res.hashes = TotalHashes
          /\ res.rate = ZeroRate
          /\ nload > 1 => ~res.Connected
          /\ \A j \in 2..6 : j < nload => res.mirror[Loads[j]] = field[Loads[j]]
    /\ ~last.running => done
    /\ FinalWhenStopped

\* A slot's distance from the oldest one, and the time of the newest point.
Order(i) == IF i >= next THEN i - next ELSE i - next + Window
Newest == points[IF next = 0 THEN Window - 1 ELSE next - 1].at

\* Ticks are strictly later than the points before them, hence recorded points
\* are at least as many seconds apart as slots.
WindowInv ==
    /\ sst = "lock" => stick # NoTick
    /\ Newest <= now
    /\ stick # NoTick => Newest < stick /\ stick <= now
    /\ tick # NoTick => /\ Newest < tick /\ tick <= now
                        /\ stick # NoTick => stick < tick
    /\ \A i \in 0..Window - 1 :
          Order(i) >= Window - samples =>
              points[i].at + (Window - 1 - Order(i)) <= Newest

\* The rate is measured from a point that is not ahead of the call in hashes, and
\* is recorded before the time the call waited is forgotten.
RateInv ==
    /\ at <= now
    /\ \A i \in 0..Window - 1 : points[i].hashes <= TotalHashes
    /\ rpc # "load" => waited = NotFull
    /\ RateIsWide

IInv == /\ StatsTypeOK /\ ControlInv /\ MirrorInv /\ CallInv /\ FinalInv /\ WindowInv
        /\ RateInv

-----------------------------------------------------------------------------
(* Type correctness.                                                       *)

\* Type correctness: a step of the client's goroutine.
LEMMA ClientType ==
    ASSUME StatsTypeOK, ControlInv, Client
    PROVE  StatsTypeOK'
<1> USE StatsAssumption, LenStores DEF StatsTypeOK
<1>1. UNCHANGED <<wst, TotalHashes, sampleVars, now, tick, cancelled, done, callVars>>
  BY DEF Client
<1> USE <1>1 DEF sampleVars, callVars
<1>2. CASE ClientLoop
  BY <1>2 DEF ClientLoop
<1>3. CASE ClientDial
  <2>1. cst' \in {"down", "up"} /\ Connected' \in BOOLEAN /\ UNCHANGED <<field, pushes, stored>>
    BY <1>3 DEF ClientDial
  <2> QED
    BY <2>1
<1>4. CASE ClientPush
  BY <1>4 DEF ClientPush
<1>5. CASE ClientStore
  <2>1. stored' \in 0..5
    BY <1>5 DEF ClientStore, InSetJob
  <2>2. field' \in [Mirrored -> Nat]
    BY <1>5 DEF ClientStore
  <2> QED
    BY <1>5, <2>1, <2>2 DEF ClientStore
<1>6. CASE ClientDisconnect
  BY <1>6 DEF ClientDisconnect
<1> QED
  BY <1>2, <1>3, <1>4, <1>5, <1>6 DEF Client

\* Type correctness: a tick of sampleLoop.
LEMMA SamplerType ==
    ASSUME StatsTypeOK, WindowInv, Sampler
    PROVE  StatsTypeOK'
<1> USE StatsAssumption DEF StatsTypeOK, jobVars, callVars
<1>1. UNCHANGED <<jobVars, wst, TotalHashes, now, cancelled, done, callVars>>
  BY DEF Sampler
<1>2. CASE SampleTick
  BY <1>1, <1>2 DEF SampleTick
<1>3. CASE SampleRecord
  <2>1. stick \in Nat
    BY <1>3 DEF SampleRecord, WindowInv
  <2>2. points' \in [0..Window - 1 -> [at: Nat, hashes: Nat]]
    BY <1>3, <2>1 DEF SampleRecord, Sample
  <2>3. next' \in 0..Window - 1
    BY <1>3, NextSlot DEF SampleRecord, Sample
  <2>4. sst' = "select" /\ stick' = NoTick /\ samples' \in Nat /\ tick' = tick
    BY <1>3 DEF SampleRecord, Sample
  <2> QED
    BY <1>1, <2>2, <2>3, <2>4
<1>4. CASE SampleExit
  BY <1>1, <1>4 DEF SampleExit
<1> QED
  BY <1>2, <1>3, <1>4 DEF Sampler

\* A rate is a quotient with a nonnegative divisor.
LEMMA RateType ==
    ASSUME StatsTypeOK
    PROVE  WindowRate(at, TotalHashes) \in Rate /\ ZeroRate \in Rate
<1> DEFINE old == points[next]
<1>1. old \in [at: Nat, hashes: Nat]
  BY DEF StatsTypeOK
<1>2. at \in Nat /\ TotalHashes \in Nat
  BY DEF StatsTypeOK
<1> HIDE DEF old
<1>3. ZeroRate \in Rate
  BY DEF ZeroRate, Rate
<1>4. CASE TotalHashes < old.hashes \/ at - old.at <= 0
  BY <1>3, <1>4 DEF WindowRate, old
<1>5. CASE ~(TotalHashes < old.hashes \/ at - old.at <= 0)
  <2>1. TotalHashes - old.hashes \in Nat /\ at - old.at \in Nat
    BY <1>1, <1>2, <1>5
  <2>2. WindowRate(at, TotalHashes) = [hashes |-> TotalHashes - old.hashes, secs |-> at - old.at]
    BY <1>5 DEF WindowRate, old
  <2> QED
    BY <1>3, <2>1, <2>2 DEF Rate
<1> QED
  BY <1>4, <1>5, <1>3

\* Type correctness: a step of a Stats call.
LEMMA CallerType ==
    ASSUME StatsTypeOK, ControlInv, CallInv, RateInv, Caller
    PROVE  StatsTypeOK'
<1> USE StatsAssumption, LenLoads DEF StatsTypeOK, jobVars
<1>1. UNCHANGED <<jobVars, wst, TotalHashes, sst, stick, now, tick, cancelled, done>>
  BY DEF Caller
<1>2. CASE StatsNow
  <2>1. floor' \in Nat
    BY <1>2 DEF StatsNow, ControlInv
  <2> QED
    BY <1>1, <1>2, <2>1 DEF StatsNow
<1>3. CASE StatsRunning
  <2>1. res' \in Result
    BY <1>3 DEF StatsRunning, running, Result
  <2> QED
    BY <1>1, <1>3, <2>1 DEF StatsRunning
<1>4. CASE StatsLocked
  <2>1. res' \in Result
    BY <1>4, RateType DEF StatsLocked, Result
  <2>2. rpc' = "load" /\ UNCHANGED <<nload, at, floor, last, points, next, samples>>
    BY <1>4 DEF StatsLocked
  <2>3. waited' \in Nat \cup {NotFull}
    BY <1>4 DEF StatsLocked, RateInv
  <2> QED
    BY <1>1, <2>1, <2>2, <2>3
<1>5. CASE StatsLoad
  <2> DEFINE f == Loads[nload]
             r == IF f = "Connected" THEN [res EXCEPT !.Connected = Connected]
                  ELSE [res EXCEPT !.mirror[f] = field[f]]
  <2>1. f = "Connected" \/ f \in Mirrored
    <3>1. nload \in 1..6
      BY LenLoads DEF StatsTypeOK
    <3> QED
      BY ONLY <3>1, LoadsIs
  <2>2. r \in Result
    BY <2>1 DEF Result
  <2>3. NoResult \in Result
    BY RateType DEF NoResult, Result
  <2>4. CASE nload < Len(Loads)
    <3>1. res' = r /\ nload' = nload + 1 /\ UNCHANGED <<rpc, at, waited, last, floor, points, next, samples>>
      BY <1>5, <2>4 DEF StatsLoad
    <3> HIDE DEF r
    <3> QED
      BY <1>1, <2>2, <2>4, <3>1
  <2>5. CASE ~(nload < Len(Loads))
    <3>1. last' = r /\ rpc' = "idle" /\ res' = NoResult /\ nload' = 1 /\ at' = 0
          /\ waited' = NotFull /\ UNCHANGED <<floor, points, next, samples>>
      BY <1>5, <2>5 DEF StatsLoad
    <3> HIDE DEF r
    <3> QED
      BY <1>1, <2>2, <2>3, <3>1
  <2> QED
    BY <2>4, <2>5
<1> QED
  BY <1>2, <1>3, <1>4, <1>5 DEF Caller

\* Type correctness: any step.
LEMMA StatsTypeStep ==
    ASSUME IInv, [Next]_vars
    PROVE  StatsTypeOK'
<1> USE DEF IInv
<1>1. CASE Client
  BY <1>1, ClientType
<1>2. CASE Sampler
  BY <1>2, SamplerType
<1>3. CASE Caller
  BY <1>3, CallerType
<1>4. CASE Workers
  BY <1>4 DEF Workers, WorkerFlush, WorkerExit, StatsTypeOK, jobVars, sampleVars, callVars
<1>5. CASE Clock
  BY <1>5 DEF Clock, StatsTypeOK, jobVars, sampleVars, callVars
<1>6. CASE Cancel
  BY <1>6 DEF Cancel, StatsTypeOK, jobVars, sampleVars, callVars
<1>7. CASE CloseDone
  BY <1>7 DEF CloseDone, StatsTypeOK, jobVars, sampleVars, callVars
<1>8. CASE UNCHANGED vars
  BY <1>8 DEF StatsTypeOK, vars, jobVars, sampleVars, callVars
<1> QED
  BY <1>1, <1>2, <1>3, <1>4, <1>5, <1>6, <1>7, <1>8 DEF Next

-----------------------------------------------------------------------------
(* The link, the counters and the end of the goroutines.                   *)

\* Every step keeps the order in which the goroutines end.
LEMMA ControlStep ==
    ASSUME StatsTypeOK, ControlInv, [Next]_vars
    PROVE  ControlInv'
<1> USE LenStores DEF StatsTypeOK, ControlInv, InSetJob
<1>1. CASE Client
  <2>1. UNCHANGED <<wst, sst, done>>
    BY <1>1 DEF Client, sampleVars
  <2>2. CASE ClientLoop
    BY <2>1, <2>2 DEF ClientLoop
  <2>3. CASE ClientDial
    BY <2>1, <2>3 DEF ClientDial
  <2>4. CASE ClientPush
    BY <2>1, <2>4 DEF ClientPush
  <2>5. CASE ClientStore
    BY <2>1, <2>5 DEF ClientStore
  <2>6. CASE ClientDisconnect
    BY <2>1, <2>6 DEF ClientDisconnect
  <2> QED
    BY <1>1, <2>2, <2>3, <2>4, <2>5, <2>6 DEF Client
<1>2. CASE Workers
  BY <1>2 DEF Workers, WorkerFlush, WorkerExit, jobVars, sampleVars
<1>3. CASE Sampler
  BY <1>3 DEF Sampler, SampleTick, SampleRecord, SampleExit, jobVars
<1>4. CASE Clock
  BY <1>4 DEF Clock, jobVars, sampleVars
<1>5. CASE Cancel
  BY <1>5 DEF Cancel, jobVars, sampleVars
<1>6. CASE CloseDone
  BY <1>6 DEF CloseDone, jobVars, sampleVars
<1>7. CASE Caller
  BY <1>7 DEF Caller, jobVars
<1>8. CASE UNCHANGED vars
  BY <1>8 DEF vars, jobVars, sampleVars
<1> QED
  BY <1>1, <1>2, <1>3, <1>4, <1>5, <1>6, <1>7, <1>8 DEF Next

\* Only the client's goroutine touches the link and the counters.
LEMMA OnlyClient ==
    ASSUME [Next]_vars, ~Client
    PROVE  UNCHANGED <<Connected, field, pushes, stored, cst>>
  BY DEF Next, Workers, Clock, Sampler, Cancel, CloseDone, Caller, vars, jobVars

\* Stores go in order, so the counters are at most one push apart; pushes that
\* are complete stay so.
LEMMA MirrorStep ==
    ASSUME StatsTypeOK, ControlInv, MirrorInv, [Next]_vars
    PROVE  MirrorInv' /\ Completed' >= Completed
<1> USE LenStores DEF StatsTypeOK, Completed, InSetJob
<1>1. CASE ~Client
  BY <1>1, OnlyClient DEF MirrorInv
<1>2. CASE ClientLoop \/ ClientDial \/ ClientDisconnect
  BY <1>2 DEF ClientLoop, ClientDial, ClientDisconnect, MirrorInv
<1>3. CASE ClientPush
  <2>1. pushes' = pushes + 1 /\ stored' = 0 /\ stored = 5 /\ field' = field
    BY <1>3 DEF ClientPush
  <2>2. \A i \in 1..5 : field[Stores[i]] = pushes
    BY <2>1 DEF MirrorInv
  <2>3. \A f \in Mirrored : field[f] = pushes
    BY <2>2, StoresIs
  <2> QED
    BY <2>1, <2>3, StoresIs DEF MirrorInv
<1>4. CASE ClientStore
  <2>1. stored' = stored + 1 /\ stored' \in 1..5 /\ pushes' = pushes
        /\ field' = [field EXCEPT ![Stores[stored']] = pushes]
    BY <1>4 DEF ClientStore
  <2>2. ASSUME NEW i \in 1..5, i <= stored' PROVE field'[Stores[i]] = pushes'
    <3>1. Stores[i] \in Mirrored
      BY StoresIs
    <3>2. CASE Stores[i] = Stores[stored']
      BY <2>1, <3>1, <3>2
    <3>3. CASE Stores[i] # Stores[stored']
      <4>1. i <= stored
        BY <2>1, <2>2, <3>3
      <4> QED
        BY <2>1, <3>1, <3>3, <4>1 DEF MirrorInv
    <3> QED
      BY <3>2, <3>3
  <2>3. \A f \in Mirrored : field'[f] >= pushes' - 1
    BY <2>1 DEF MirrorInv
  <2> QED
    BY <2>1, <2>2, <2>3 DEF MirrorInv
<1> QED
  BY <1>1, <1>2, <1>3, <1>4 DEF Client

\* Every counter is at least as recent as the last completed push.
LEMMA MirrorIsComplete ==
    ASSUME StatsTypeOK, MirrorInv, NEW f \in Mirrored
    PROVE  field[f] >= Completed
<1> USE LenStores DEF StatsTypeOK, Completed, InSetJob, MirrorInv
<1>1. PICK i \in 1..5 : Stores[i] = f
  BY StoresIs
<1> QED
  BY <1>1

-----------------------------------------------------------------------------
(* The call in progress.                                                   *)

\* A Stats call's variables are its own.
LEMMA OnlyCaller ==
    ASSUME [Next]_vars, ~Caller
    PROVE  UNCHANGED callVars
  BY DEF Next, Workers, Clock, Sampler, Cancel, CloseDone, Client, vars

\* One load: where it goes and what it takes.
LEMMA LoadResult ==
    ASSUME StatsTypeOK, StatsLoad
    PROVE  \E r \in Result :
              /\ r.running = res.running /\ r.hashes = res.hashes /\ r.rate = res.rate
              /\ r.Connected = IF nload = 1 THEN Connected ELSE res.Connected
              /\ \A f \in Mirrored :
                    r.mirror[f] = IF Loads[nload] = f THEN field[f] ELSE res.mirror[f]
              /\ \/ nload < 6 /\ res' = r /\ nload' = nload + 1 /\ UNCHANGED <<rpc, last>>
                 \/ nload = 6 /\ last' = r /\ rpc' = "idle" /\ res' = NoResult /\ nload' = 1
<1> DEFINE f == Loads[nload]
           r == IF f = "Connected" THEN [res EXCEPT !.Connected = Connected]
                ELSE [res EXCEPT !.mirror[f] = field[f]]
<1>1. nload \in 1..6 /\ res \in Result /\ Connected \in BOOLEAN /\ field \in [Mirrored -> Nat]
  BY LenLoads DEF StatsTypeOK
<1>2. (nload = 1 /\ f = "Connected") \/ (nload # 1 /\ f \in Mirrored /\ f # "Connected")
  BY <1>1, LoadsIs, ConnectedNotMirrored
<1>3. r \in Result
  BY <1>1, <1>2 DEF Result
<1>4. /\ r.running = res.running /\ r.hashes = res.hashes /\ r.rate = res.rate
      /\ r.Connected = IF nload = 1 THEN Connected ELSE res.Connected
  BY <1>1, <1>2 DEF Result
<1>5. \A g \in Mirrored :
         r.mirror[g] = IF f = g THEN field[g] ELSE res.mirror[g]
  BY <1>1, <1>2, ConnectedNotMirrored DEF Result
<1>6. \/ nload < 6 /\ res' = r /\ nload' = nload + 1 /\ UNCHANGED <<rpc, last>>
      \/ nload = 6 /\ last' = r /\ rpc' = "idle" /\ res' = NoResult /\ nload' = 1
  <2>1. CASE nload < Len(Loads)
    BY <2>1, LenLoads DEF StatsLoad
  <2>2. CASE ~(nload < Len(Loads))
    BY <1>1, <2>2, LenLoads DEF StatsLoad
  <2> QED
    BY <2>1, <2>2
<1> HIDE DEF r
<1> QED
  BY <1>3, <1>4, <1>5, <1>6

\* What a call has loaded is as recent as the last push complete before it.
LEMMA CallStep ==
    ASSUME StatsTypeOK, ControlInv, MirrorInv, CallInv, [Next]_vars
    PROVE  CallInv'
<1>0. floor \in Nat /\ Completed \in Int /\ Completed' \in Int /\ Completed' >= Completed
      /\ nload \in 1..6
  <2>1. pushes' \in Nat
    <3>1. CASE Client
      BY <3>1 DEF Client, ClientLoop, ClientDial, ClientPush, ClientStore, ClientDisconnect,
                  StatsTypeOK
    <3> QED
      BY <3>1, OnlyClient DEF StatsTypeOK
  <2>2. Completed \in Int /\ Completed' \in Int /\ floor \in Nat
    BY <2>1 DEF StatsTypeOK, Completed
  <2>3. Completed' >= Completed
    BY MirrorStep
  <2>4. nload \in 1..6
    BY LenLoads DEF StatsTypeOK
  <2> QED
    BY <2>2, <2>3, <2>4
<1>1. CASE ~Caller
  <2>1. UNCHANGED callVars
    BY <1>1, OnlyCaller
  <2> QED
    BY <1>0, <2>1 DEF callVars, CallInv, FieldsAreFresh
<1>2. CASE StatsNow /\ Caller
  <2>1. floor' = Completed /\ rpc' = "running" /\ UNCHANGED <<nload, res, last>> /\ rpc = "idle"
    BY <1>2 DEF StatsNow, Completed
  <2> QED
    BY <1>0, <2>1 DEF CallInv, FieldsAreFresh
<1>3. CASE StatsRunning
  BY <1>0, <1>3 DEF StatsRunning, CallInv, FieldsAreFresh
<1>4. CASE StatsLocked
  <2>1. nload' = 1 /\ floor' = floor /\ rpc' = "load" /\ last' = last
    BY <1>4 DEF StatsLocked, CallInv
  <2> QED
    BY <1>0, <2>1 DEF CallInv, FieldsAreFresh
<1>5. CASE StatsLoad
  <2>1. rpc = "load" /\ floor' = floor
    BY <1>5 DEF StatsLoad
  <2>2. PICK r \in Result :
              /\ \A f \in Mirrored :
                    r.mirror[f] = IF Loads[nload] = f THEN field[f] ELSE res.mirror[f]
              /\ \/ nload < 6 /\ res' = r /\ nload' = nload + 1 /\ UNCHANGED <<rpc, last>>
                 \/ nload = 6 /\ last' = r /\ rpc' = "idle" /\ res' = NoResult /\ nload' = 1
    BY <1>5, LoadResult
  <2>3. \A j \in 2..6 : j < nload + 1 => r.mirror[Loads[j]] >= floor
    <3> SUFFICES ASSUME NEW j \in 2..6, j < nload + 1 PROVE r.mirror[Loads[j]] >= floor
      OBVIOUS
    <3>1. Loads[j] \in Mirrored
      BY LoadsIs
    <3>2. field[Loads[j]] >= floor
      BY <1>0, <3>1, MirrorIsComplete DEF CallInv, StatsTypeOK
    <3>3. CASE Loads[nload] = Loads[j]
      BY <2>2, <3>1, <3>2, <3>3
    <3>4. CASE Loads[nload] # Loads[j]
      <4>1. j < nload
        BY <1>0, <3>4
      <4> QED
        BY <2>1, <2>2, <3>1, <3>4, <4>1 DEF CallInv
    <3> QED
      BY <3>3, <3>4
  <2>4. CASE nload < 6
    BY <1>0, <2>1, <2>2, <2>3, <2>4 DEF CallInv, FieldsAreFresh
  <2>5. CASE nload = 6
    <3>1. \A f \in Mirrored : r.mirror[f] >= floor
      BY <2>3, <2>5, LoadsIs
    <3> QED
      BY <1>0, <2>1, <2>2, <2>5, <3>1 DEF CallInv, FieldsAreFresh
  <2> QED
    BY <1>0, <2>4, <2>5
<1> QED
  BY <1>1, <1>2, <1>3, <1>4, <1>5 DEF Caller

-----------------------------------------------------------------------------
(* A stopped engine.                                                       *)

\* After done nothing moves any more.
LEMMA StoppedIsStill ==
    ASSUME StatsTypeOK, ControlInv, done, [Next]_vars
    PROVE  done' /\ UNCHANGED <<Connected, field, TotalHashes>> /\ ~Connected
<1>1. wst = "gone" /\ cst = "gone" /\ sst = "gone" /\ ~InSetJob /\ ~Connected
  BY DEF ControlInv
<1>2. ~Client
  BY <1>1 DEF Client, ClientLoop, ClientDial, ClientPush, ClientStore, ClientDisconnect
<1>3. ~Workers
  BY <1>1 DEF Workers, WorkerFlush, WorkerExit
<1>4. UNCHANGED <<Connected, field>>
  BY <1>2, OnlyClient
<1>5. done' /\ UNCHANGED TotalHashes
  BY <1>2, <1>3 DEF Next, Clock, Sampler, Cancel, CloseDone, Caller, vars
<1> QED
  BY <1>1, <1>4, <1>5

\* A call that found the engine stopped loads what no longer changes.
LEMMA FinalStep ==
    ASSUME StatsTypeOK, ControlInv, CallInv, FinalInv, [Next]_vars
    PROVE  FinalInv'
<1>0. done \in BOOLEAN /\ nload \in 1..6
  BY LenLoads DEF StatsTypeOK
<1>1. CASE ~Caller
  <2>1. UNCHANGED callVars
    BY <1>1, OnlyCaller
  <2>2. CASE done
    BY <2>1, <2>2, StoppedIsStill DEF callVars, FinalInv, FinalWhenStopped
  <2>3. CASE ~done
    BY <2>1, <2>3 DEF callVars, FinalInv, FinalWhenStopped
  <2> QED
    BY <2>2, <2>3
<1>2. CASE Caller
  <2>0. UNCHANGED <<Connected, field, TotalHashes, done>>
    BY <1>2 DEF Caller, jobVars
  <2>1. CASE StatsNow
    BY <2>0, <2>1 DEF StatsNow, FinalInv, FinalWhenStopped
  <2>2. CASE StatsRunning
    <3>1. res \in Result
      BY DEF StatsTypeOK
    <3>2. res'.running = ~done /\ rpc' = "lock" /\ last' = last
      BY <2>2, <3>1 DEF StatsRunning, running, Result
    <3> QED
      BY <2>0, <3>2 DEF FinalInv, FinalWhenStopped
  <2>3. CASE StatsLocked
    <3>1. res \in Result
      BY DEF StatsTypeOK
    <3>2. /\ res'.running = res.running /\ res'.hashes = TotalHashes
          /\ res'.rate = IF res.running THEN WindowRate(at, TotalHashes) ELSE ZeroRate
          /\ last' = last /\ nload' = 1
      BY <2>3, <3>1 DEF StatsLocked, Result, CallInv
    <3> QED
      BY <2>0, <3>2 DEF FinalInv, FinalWhenStopped
  <2>4. CASE StatsLoad
    <3>1. PICK r \in Result :
              /\ r.running = res.running /\ r.hashes = res.hashes /\ r.rate = res.rate
              /\ r.Connected = IF nload = 1 THEN Connected ELSE res.Connected
              /\ \A f \in Mirrored :
                    r.mirror[f] = IF Loads[nload] = f THEN field[f] ELSE res.mirror[f]
              /\ \/ nload < 6 /\ res' = r /\ nload' = nload + 1 /\ UNCHANGED <<rpc, last>>
                 \/ nload = 6 /\ last' = r /\ rpc' = "idle" /\ res' = NoResult /\ nload' = 1
      BY <2>4, LoadResult
    <3>2. rpc = "load"
      BY <2>4 DEF StatsLoad
    <3>3. ASSUME ~r.running
          PROVE  /\ done /\ r.hashes = TotalHashes /\ r.rate = ZeroRate /\ ~r.Connected
                 /\ \A j \in 2..6 : j < nload + 1 => r.mirror[Loads[j]] = field[Loads[j]]
      <4>1. done /\ r.hashes = TotalHashes /\ r.rate = ZeroRate
        BY <3>1, <3>2, <3>3 DEF FinalInv
      <4>2. ~r.Connected
        BY <1>0, <3>1, <3>2, <3>3, <4>1, StoppedIsStill DEF FinalInv
      <4>3. ASSUME NEW j \in 2..6, j < nload + 1 PROVE r.mirror[Loads[j]] = field[Loads[j]]
        <5>1. Loads[j] \in Mirrored
          BY LoadsIs
        <5>2. CASE Loads[nload] = Loads[j]
          BY <3>1, <5>1, <5>2
        <5>3. CASE Loads[nload] # Loads[j]
          <6>1. j < nload
            BY <1>0, <4>3, <5>3
          <6> QED
            BY <3>1, <3>2, <3>3, <5>1, <5>3, <6>1 DEF FinalInv
        <5> QED
          BY <5>2, <5>3
      <4> QED
        BY <4>1, <4>2, <4>3
    <3>4. CASE nload < 6
      BY <1>0, <2>0, <3>1, <3>2, <3>3, <3>4 DEF FinalInv, FinalWhenStopped
    <3>5. CASE nload = 6
      <4>1. last' = r /\ rpc' = "idle" /\ res' = NoResult /\ r \in Result
        BY <3>1, <3>5
      <4>2. res'.running
        BY <4>1 DEF NoResult
      <4>3. ~r.running => r.mirror = field
        <5> SUFFICES ASSUME ~r.running PROVE r.mirror = field
          OBVIOUS
        <5>1. \A f \in Mirrored : r.mirror[f] = field[f]
          BY <3>3, <3>5, LoadsIs
        <5>2. r.mirror \in [Mirrored -> Nat] /\ field \in [Mirrored -> Nat]
          BY <4>1 DEF Result, StatsTypeOK
        <5> QED
          BY <5>1, <5>2
      <4> QED
        BY <2>0, <3>3, <4>1, <4>2, <4>3 DEF FinalInv, FinalWhenStopped
    <3> QED
      BY <1>0, <3>4, <3>5
  <2> QED
    BY <1>2, <2>1, <2>2, <2>3, <2>4 DEF Caller
<1> QED
  BY <1>1, <1>2

-----------------------------------------------------------------------------
(* The window.                                                             *)

\* Points of the ring keep the distance of their slots in seconds.
LEMMA WindowStep ==
    ASSUME StatsTypeOK, WindowInv, [Next]_vars
    PROVE  WindowInv'
<1> USE StatsAssumption
<1>0. /\ now \in Nat /\ tick \in Nat \cup {NoTick} /\ stick \in Nat \cup {NoTick}
      /\ points \in [0..Window - 1 -> [at: Nat, hashes: Nat]]
      /\ next \in 0..Window - 1 /\ samples \in Nat /\ NoTick = -1
  BY DEF StatsTypeOK, NoTick
<1>1. Newest \in Nat
  BY <1>0 DEF Newest
<1>2. CASE UNCHANGED <<sampleVars, now, tick>>
  BY <1>2 DEF WindowInv, sampleVars, Newest, Order
<1>3. CASE Clock
  <2>1. UNCHANGED sampleVars /\ now' = now + 1 /\ tick' = IF tick = NoTick THEN now' ELSE tick
    BY <1>3 DEF Clock
  <2>2. Newest' = Newest /\ UNCHANGED <<sst, stick, points, samples>>
    BY <2>1 DEF sampleVars, Newest
  <2>3. \A i \in 0..Window - 1 : Order(i)' = Order(i)
    BY <2>1 DEF sampleVars, Order
  <2>4. \A i \in 0..Window - 1 :
           Order(i)' >= Window - samples' =>
               points'[i].at + (Window - 1 - Order(i)') <= Newest'
    BY <2>2, <2>3 DEF WindowInv
  <2>5. tick' # NoTick => /\ Newest' < tick' /\ tick' <= now'
                          /\ stick' # NoTick => stick' < tick'
    BY <1>0, <1>1, <2>1, <2>2 DEF WindowInv
  <2>6. /\ sst' = "lock" => stick' # NoTick
        /\ Newest' <= now'
        /\ stick' # NoTick => Newest' < stick' /\ stick' <= now'
    BY <1>0, <1>1, <2>1, <2>2 DEF WindowInv
  <2> QED
    BY <2>4, <2>5, <2>6 DEF WindowInv
<1>4. CASE Sampler /\ ~SampleRecord
  <2>1. UNCHANGED <<points, next, samples, now>>
    BY <1>4 DEF Sampler, SampleTick, SampleExit
  <2>2. Newest' = Newest /\ \A i \in 0..Window - 1 : Order(i)' = Order(i)
    BY <2>1 DEF Newest, Order
  <2>3. CASE SampleTick
    <3>1. stick' = tick /\ tick' = NoTick /\ tick # NoTick
      BY <2>3 DEF SampleTick
    <3>2. stick' # NoTick /\ Newest' < stick' /\ stick' <= now'
      BY <2>1, <2>2, <3>1 DEF WindowInv
    <3>3. \A i \in 0..Window - 1 :
             Order(i)' >= Window - samples' =>
                 points'[i].at + (Window - 1 - Order(i)') <= Newest'
      BY <2>1, <2>2 DEF WindowInv
    <3> QED
      BY <2>1, <2>2, <3>1, <3>2, <3>3 DEF WindowInv
  <2>4. CASE SampleExit
    BY <2>1, <2>2, <2>4 DEF WindowInv, SampleExit
  <2> QED
    BY <1>4, <2>3, <2>4 DEF Sampler
<1>5. CASE Sampler /\ SampleRecord
  <2>1. /\ sst = "lock" /\ sst' = "select" /\ stick' = NoTick /\ tick' = tick /\ now' = now
        /\ points' = [points EXCEPT ![next] = [at |-> stick, hashes |-> TotalHashes]]
        /\ next' = (next + 1) % Window
        /\ samples' = samples + 1
    BY <1>5 DEF Sampler, SampleRecord, Sample
  <2>2. stick \in Nat /\ Newest < stick /\ stick <= now
    BY <1>0, <2>1 DEF WindowInv
  <2>3. next' = IF next + 1 = Window THEN 0 ELSE next + 1
    BY <1>0, <2>1, NextSlot
  <2>4. (IF next' = 0 THEN Window - 1 ELSE next' - 1) = next
    BY <1>0, <2>3
  <2>5. Newest' = stick
    BY <1>0, <2>1, <2>4 DEF Newest
  <2>6. ASSUME NEW i \in 0..Window - 1, Order(i)' >= Window - samples'
        PROVE  points'[i].at + (Window - 1 - Order(i)') <= Newest'
    <3>1. CASE i = next
      <4>1. Order(i)' = Window - 1
        BY <1>0, <2>3, <3>1 DEF Order
      <4>2. points'[i].at = stick
        BY <1>0, <2>1, <3>1
      <4> QED
        BY <2>2, <2>5, <4>1, <4>2
    <3>2. CASE i # next
      <4>1. Order(i)' = Order(i) - 1 /\ Order(i) \in 1..Window
        BY <1>0, <2>3, <3>2 DEF Order
      <4>2. Order(i) >= Window - samples
        BY <1>0, <2>1, <2>6, <4>1
      <4>3. points[i].at + (Window - 1 - Order(i)) <= Newest
        BY <4>2 DEF WindowInv
      <4>4. points'[i].at = points[i].at /\ points[i].at \in Nat
        BY <1>0, <2>1, <3>2
      <4> QED
        BY <1>1, <2>2, <2>5, <4>1, <4>3, <4>4
    <3> QED
      BY <3>1, <3>2
  <2>7. tick # NoTick => stick < tick /\ tick <= now
    BY <1>0, <2>1, <2>2 DEF WindowInv
  <2> QED
    BY <1>0, <2>1, <2>2, <2>5, <2>6, <2>7 DEF WindowInv
<1>6. CASE Caller
  BY <1>2, <1>6 DEF Caller, StatsNow, StatsRunning, StatsLocked, StatsLoad, sampleVars
<1>7. CASE ~Clock /\ ~Sampler /\ ~Caller
  BY <1>2, <1>7 DEF Next, Client, Workers, Cancel, CloseDone, vars, sampleVars
<1> QED
  BY <1>3, <1>4, <1>5, <1>6, <1>7

-----------------------------------------------------------------------------
(* The rate.                                                               *)

\* The slot that is overwritten next is as old as the ring is long.
LEMMA RingIsWide ==
    ASSUME StatsTypeOK, WindowInv, samples >= Window
    PROVE  now - points[next].at >= Window - 1
<1>1. /\ next \in 0..Window - 1 /\ samples \in Nat /\ now \in Nat
      /\ points[next].at \in Nat
  BY DEF StatsTypeOK
<1>2. Order(next) = 0
  BY <1>1 DEF Order
<1>3. points[next].at + (Window - 1) <= Newest /\ Newest <= now
  BY <1>1, <1>2, StatsAssumption DEF WindowInv
<1>4. Newest \in Nat
  BY <1>1, StatsAssumption DEF StatsTypeOK, Newest
<1> QED
  BY <1>1, <1>3, <1>4, StatsAssumption

\* Time and the hash count only grow, and a point records the count of its moment.
LEMMA PointsLag ==
    ASSUME StatsTypeOK, RateInv, [Next]_vars, ~Caller
    PROVE  now' >= now /\ \A i \in 0..Window - 1 : points'[i].hashes <= TotalHashes'
<1> USE DEF StatsTypeOK, RateInv
<1>0. now \in Nat
  OBVIOUS
<1>1. CASE Sampler
  <2>1. UNCHANGED <<now, TotalHashes>>
    BY <1>1 DEF Sampler
  <2>2. CASE SampleRecord
    <3>1. points' = [points EXCEPT ![next] = [at |-> stick, hashes |-> TotalHashes]]
      BY <2>2 DEF SampleRecord, Sample
    <3>2. \A i \in 0..Window - 1 :
             points'[i].hashes = IF i = next THEN TotalHashes ELSE points[i].hashes
      BY <3>1
    <3> QED
      BY <2>1, <3>2
  <2>3. CASE SampleTick \/ SampleExit
    <3>1. points' = points
      BY <2>3 DEF SampleTick, SampleExit
    <3> QED
      BY <1>0, <2>1, <3>1
  <2> QED
    BY <1>1, <2>2, <2>3 DEF Sampler
<1>2. CASE Workers
  <2>1. points' = points /\ now' = now /\ TotalHashes' >= TotalHashes /\ TotalHashes' \in Nat
    BY <1>2 DEF Workers, WorkerFlush, WorkerExit, sampleVars
  <2>2. \A i \in 0..Window - 1 : points[i].hashes \in Nat
    OBVIOUS
  <2> QED
    BY <2>1, <2>2
<1>3. CASE Clock
  BY <1>3 DEF Clock, sampleVars
<1>4. CASE Client \/ Cancel \/ CloseDone \/ UNCHANGED vars
  <2>1. UNCHANGED <<now, TotalHashes, points>>
    BY <1>4 DEF Client, Cancel, CloseDone, vars, sampleVars
  <2> QED
    BY <1>0, <2>1
<1> QED
  BY <1>1, <1>2, <1>3, <1>4 DEF Next

\* A call measures the ring less what it waited, and keeps what it measured.
LEMMA RateStep ==
    ASSUME StatsTypeOK, WindowInv, RateInv, [Next]_vars
    PROVE  RateInv'
<1>0. now \in Nat /\ at \in Nat /\ NotFull = -1
  BY DEF StatsTypeOK, NotFull
<1>1. CASE ~Caller
  <2>1. UNCHANGED callVars
    BY <1>1, OnlyCaller
  <2>2. now' >= now /\ now' \in Int
    BY <1>0, <1>1, PointsLag DEF Next, Client, Workers, Clock, Sampler, Cancel, CloseDone, vars
  <2> QED
    BY <1>0, <1>1, <2>1, <2>2, PointsLag DEF callVars, RateInv, RateIsWide
<1>2. CASE Caller
  <2>0. UNCHANGED <<now, points, TotalHashes>>
    BY <1>2 DEF Caller, StatsNow, StatsRunning, StatsLocked, StatsLoad
  <2>1. CASE StatsNow
    BY <1>0, <2>0, <2>1 DEF StatsNow, RateInv, RateIsWide
  <2>2. CASE StatsRunning
    BY <2>0, <2>2 DEF StatsRunning, RateInv, RateIsWide
  <2>3. CASE StatsLocked
    <3>1. /\ rpc' = "load" /\ at' = at
          /\ waited' = IF samples >= Window THEN now - at ELSE NotFull
      BY <2>3 DEF StatsLocked
    <3>2. ASSUME samples >= Window, res'.running
          PROVE  res'.rate.secs + (now - at) >= Window - 1
      <4> DEFINE rate == WindowRate(at, TotalHashes)
      <4>1. res'.running = res.running /\ res'.rate = IF res.running THEN rate ELSE ZeroRate
        BY <2>3 DEF StatsLocked, StatsTypeOK, Result
      <4>2. /\ points[next].at \in Nat /\ points[next].hashes \in Nat
            /\ TotalHashes \in Nat /\ next \in 0..Window - 1
        BY DEF StatsTypeOK
      <4>3. points[next].hashes <= TotalHashes
        BY <4>2 DEF RateInv
      <4>4. rate.secs = IF at - points[next].at <= 0 THEN 0 ELSE at - points[next].at
        BY <4>2, <4>3 DEF WindowRate, ZeroRate
      <4>5. now - points[next].at >= Window - 1
        BY <3>2, RingIsWide
      <4> HIDE DEF rate
      <4> QED
        BY <1>0, <3>2, <4>1, <4>2, <4>4, <4>5, StatsAssumption
    <3> QED
      BY <1>0, <2>0, <3>1, <3>2 DEF RateInv, RateIsWide
  <2>4. CASE StatsLoad
    <3>1. PICK r \in Result :
             /\ r.running = res.running /\ r.rate = res.rate
             /\ \/ nload < 6 /\ res' = r /\ UNCHANGED rpc
                \/ nload = 6 /\ rpc' = "idle"
      BY <2>4, LoadResult
    <3>2. \/ nload < 6 /\ UNCHANGED <<at, waited>>
          \/ nload = 6 /\ at' = 0 /\ waited' = NotFull
      BY <2>4, LenLoads DEF StatsLoad, StatsTypeOK
    <3>3. rpc = "load"
      BY <2>4 DEF StatsLoad
    <3> QED
      BY <1>0, <2>0, <3>1, <3>2, <3>3 DEF RateInv, RateIsWide
  <2> QED
    BY <1>2, <2>1, <2>2, <2>3, <2>4 DEF Caller
<1> QED
  BY <1>1, <1>2

-----------------------------------------------------------------------------
(* The theorems.                                                           *)

\* The inductive invariant holds when the engine starts.
LEMMA StatsInit == Init => IInv
<1> SUFFICES ASSUME Init PROVE IInv
  OBVIOUS
<1> USE StatsAssumption, LenStores, LenLoads DEF Init
<1>1. \A f \in Mirrored : field[f] = 0 /\ last.mirror[f] = 0
  BY DEF NoResult
<1>2. NoResult \in Result /\ NoResult.running
  BY DEF NoResult, Result, ZeroRate, Rate
<1>3. StatsTypeOK
  <2>1. field \in [Mirrored -> Nat] /\ points \in [0..Window - 1 -> [at: Nat, hashes: Nat]]
    OBVIOUS
  <2>2. next \in 0..Window - 1 /\ nload \in 1..Len(Loads) /\ stored \in 0..Len(Stores)
    OBVIOUS
  <2> QED
    BY <1>2, <2>1, <2>2 DEF StatsTypeOK, NoTick
<1>4. ControlInv
  BY DEF ControlInv, InSetJob
<1>5. MirrorInv
  BY <1>1, StoresIs DEF MirrorInv
<1>6. CallInv
  BY <1>1 DEF CallInv, FieldsAreFresh, Completed, InSetJob
<1>7. FinalInv
  BY <1>2 DEF FinalInv, FinalWhenStopped
<1>8. WindowInv
  <2>1. Newest = 0
    BY DEF Newest
  <2>2. \A i \in 0..Window - 1 : Order(i) < Window - samples
    BY DEF Order
  <2>3. \A i \in 0..Window - 1 : Order(i) \in Int
    BY DEF Order
  <2> QED
    BY <2>1, <2>2, <2>3 DEF WindowInv, NoTick
<1>9. RateInv
  BY DEF RateInv, RateIsWide
<1> QED
  BY <1>3, <1>4, <1>5, <1>6, <1>7, <1>8, <1>9 DEF IInv

\* Every step keeps it.
LEMMA StatsStep == IInv /\ [Next]_vars => IInv'
<1> SUFFICES ASSUME IInv, [Next]_vars PROVE IInv'
  OBVIOUS
<1> USE DEF IInv
<1>1. StatsTypeOK'
  BY StatsTypeStep
<1>2. ControlInv' /\ MirrorInv' /\ CallInv' /\ FinalInv' /\ WindowInv' /\ RateInv'
  BY ControlStep, MirrorStep, CallStep, FinalStep, WindowStep, RateStep
<1> QED
  BY <1>1, <1>2

\* The inductive invariant of the statistics.
LEMMA StatsInvariant == Spec => []IInv
  BY StatsInit, StatsStep, PTL DEF Spec

\* Every variable of the statistics model keeps its type.
THEOREM StatsTypeCorrect == Spec => []StatsTypeOK
<1>1. IInv => StatsTypeOK
  BY DEF IInv
<1> QED
  BY <1>1, StatsInvariant, PTL

\* A result with Running false is final, whatever the window and however often
\* Stats is called (engine.go, Stats: running() is read before everything else).
THEOREM StoppedResultIsFinal == Spec => []FinalWhenStopped
<1>1. IInv => FinalWhenStopped
  BY DEF IInv, FinalInv
<1> QED
  BY <1>1, StatsInvariant, PTL

\* No counter of a result is older than the last push mirrored before the call
\* (state.go, SetJob's stores; engine.go, Stats' loads).
THEOREM ResultIsFresh == Spec => []FieldsAreFresh
<1>1. IInv => FieldsAreFresh
  BY DEF IInv, CallInv
<1> QED
  BY <1>1, StatsInvariant, PTL

\* Once the ring is full, the rate of a running engine spans at least its length in
\* seconds, less one and less what the call waited for e.mu (engine.go, Stats and
\* hashrateWindow: only sampleLoop records points).
THEOREM RateSpansWindow == Spec => []RateIsWide
<1>1. IInv => RateIsWide
  BY DEF IInv, RateInv
<1> QED
  BY <1>1, StatsInvariant, PTL

=============================================================================
