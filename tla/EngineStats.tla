----------------------------- MODULE EngineStats -----------------------------
(***************************************************************************)
(* Engine.Stats and the 1 Hz sampler of pkg/engine/engine.go, against what *)
(* moves under them: the counters SetJob mirrors one store at a time after *)
(* it has released State.mu, the client's Connected flag, the workers'     *)
(* TotalHashes, and the end of every goroutine before done is closed.      *)
(*                                                                         *)
(* A mirrored counter is represented by the number of the push it comes    *)
(* from, so "older" and "newer" can be told apart.  Workers are one        *)
(* process: only the sum they add to is read here.  Time is whole seconds  *)
(* of the monotonic clock.                                                 *)
(***************************************************************************)
EXTENDS Integers, Sequences

CONSTANTS Window,     \* len(hashrateWindow.points)
          MaxPushes,  \* bound: SetJob calls
          MaxHashes,  \* bound: TotalHashes
          MaxTime     \* bound: seconds

ASSUME StatsAssumption ==
    /\ Window \in Nat \ {0}
    /\ MaxPushes \in Nat
    /\ MaxHashes \in Nat
    /\ MaxTime \in Nat

VARIABLES cst,         \* the client: "down", "dial", "up", "gone"
          Connected,   \* Client.Connected
          field,       \* the five mirrored counters, by push number
          pushes,      \* SetJob calls begun
          stored,      \* stores the SetJob in progress has made
          wst,         \* the workers: "run", "gone"
          TotalHashes,
          sst, stick,  \* the sampler: "select", "lock", "gone", and its tick
          now, tick,   \* the clock and the ticker's one-slot channel
          points, next,   \* hashrateWindow
          samples,     \* history: samples recorded
          cancelled, done,
          rpc,         \* where the Stats call is
          nload,       \* the load it makes next
          at,          \* its time.Now()
          res,         \* what it has read so far
          floor,       \* history: pushes mirrored completely before the call
          waited,      \* history: seconds from time.Now() to e.mu, the ring being full
          last         \* the result of the latest call that returned

jobVars == <<cst, Connected, field, pushes, stored>>
sampleVars == <<sst, stick, points, next, samples>>
callVars == <<rpc, nload, at, res, floor, waited, last>>
vars == <<jobVars, wst, TotalHashes, sampleVars, now, tick, cancelled, done, callVars>>

\* The order of SetJob's stores, and of Stats' loads.
Stores == <<"Height", "Diff", "Blocks", "MiniBlocks", "Rejected">>
Loads  == <<"Connected", "MiniBlocks", "Blocks", "Rejected", "Height", "Diff">>

Mirrored == {Stores[i] : i \in 1..Len(Stores)}

NoTick == -1
NotFull == -1

Rate == [hashes: Nat, secs: Nat]    \* H/s as a quotient; secs = 0 stands for rate 0
ZeroRate == [hashes |-> 0, secs |-> 0]

Result == [running: BOOLEAN, hashes: Nat, rate: Rate, Connected: BOOLEAN,
           mirror: [Mirrored -> Nat]]

NoResult == [running |-> TRUE, hashes |-> 0, rate |-> ZeroRate,
             Connected |-> FALSE, mirror |-> [f \in Mirrored |-> 0]]

\* Every variable has its type; the ring index stays inside the ring.
StatsTypeOK ==
    /\ cst \in {"down", "dial", "up", "gone"}
    /\ Connected \in BOOLEAN
    /\ field \in [Mirrored -> Nat]
    /\ pushes \in Nat
    /\ stored \in 0..Len(Stores)
    /\ wst \in {"run", "gone"}
    /\ TotalHashes \in Nat
    /\ sst \in {"select", "lock", "gone"}
    /\ stick \in Nat \cup {NoTick}
    /\ now \in Nat
    /\ tick \in Nat \cup {NoTick}
    /\ points \in [0..Window - 1 -> [at: Nat, hashes: Nat]]
    /\ next \in 0..Window - 1
    /\ samples \in Nat
    /\ cancelled \in BOOLEAN /\ done \in BOOLEAN
    /\ rpc \in {"idle", "running", "lock", "load"}
    /\ nload \in 1..Len(Loads)
    /\ at \in Nat
    /\ res \in Result /\ last \in Result
    /\ floor \in Nat
    /\ waited \in Nat \cup {NotFull}

Init ==
    /\ cst = "down" /\ Connected = FALSE
    /\ field = [f \in Mirrored |-> 0] /\ pushes = 0 /\ stored = Len(Stores)
    /\ wst = "run" /\ TotalHashes = 0
    /\ sst = "select" /\ stick = NoTick
    /\ now = 0 /\ tick = NoTick
    /\ points = [i \in 0..Window - 1 |-> [at |-> 0, hashes |-> 0]]
    /\ next = 0 /\ samples = 0
    /\ cancelled = FALSE /\ done = FALSE
    /\ rpc = "idle" /\ nload = 1 /\ at = 0 /\ res = NoResult /\ floor = 0
    /\ waited = NotFull /\ last = NoResult

-----------------------------------------------------------------------------
(* The client's goroutine, as far as Stats can see it.                     *)

InSetJob == stored < Len(Stores)

\* Run's loop head: no dial after the context is done.
ClientLoop ==
    /\ cst = "down"
    /\ cst' = IF cancelled THEN "gone" ELSE "dial"
    /\ UNCHANGED <<Connected, field, pushes, stored>>

ClientDial ==
    /\ cst = "dial"
    /\ \/ cst' = "up" /\ Connected' = TRUE
       \/ cst' = "down" /\ UNCHANGED Connected
    /\ UNCHANGED <<field, pushes, stored>>

ClientPush ==
    /\ cst = "up" /\ ~InSetJob
    /\ pushes < MaxPushes
    /\ pushes' = pushes + 1 /\ stored' = 0
    /\ UNCHANGED <<cst, Connected, field>>

\* A variant of ClientStore (below) that forgets the last counter.
ClientStoreFour ==
    /\ InSetJob
    /\ stored' = stored + 1
    /\ field' = IF stored' = Len(Stores) THEN field
                ELSE [field EXCEPT ![Stores[stored']] = pushes]
    /\ UNCHANGED <<cst, Connected, pushes>>

\* SetJob's next Store.
ClientStore ==
    /\ InSetJob
    /\ stored' = stored + 1
    /\ field' = [field EXCEPT ![Stores[stored']] = pushes]
    /\ UNCHANGED <<cst, Connected, pushes>>

ClientDisconnect ==
    /\ cst = "up" /\ ~InSetJob
    /\ cst' = "down" /\ Connected' = FALSE
    /\ UNCHANGED <<field, pushes, stored>>

Client ==
    /\ ClientLoop \/ ClientDial \/ ClientPush \/ ClientStore \/ ClientDisconnect
    /\ UNCHANGED <<wst, TotalHashes, sampleVars, now, tick, cancelled, done, callVars>>

WorkerFlush ==
    /\ wst = "run" /\ TotalHashes < MaxHashes
    /\ TotalHashes' = TotalHashes + 1
    /\ UNCHANGED wst

WorkerExit ==
    /\ wst = "run" /\ cancelled
    /\ wst' = "gone"
    /\ UNCHANGED TotalHashes

Workers ==
    /\ WorkerFlush \/ WorkerExit
    /\ UNCHANGED <<jobVars, sampleVars, now, tick, cancelled, done, callVars>>

-----------------------------------------------------------------------------
(* The sampler.                                                            *)

\* A second passes; the ticker drops the tick when its slot is taken.
Clock ==
    /\ now < MaxTime
    /\ now' = now + 1
    /\ tick' = IF tick = NoTick THEN now' ELSE tick
    /\ UNCHANGED <<jobVars, wst, TotalHashes, sampleVars, cancelled, done, callVars>>

SampleTick ==
    /\ sst = "select" /\ tick # NoTick
    /\ stick' = tick /\ tick' = NoTick
    /\ sst' = "lock"
    /\ UNCHANGED <<points, next, samples>>

\* A variant of Sample (below) that never wraps around.
SampleNoWrap(t) ==
    /\ points' = [points EXCEPT ![next] = [at |-> t, hashes |-> TotalHashes]]
    /\ next' = next + 1
    /\ samples' = samples + 1

\* hashrateWindow.sample
Sample(t) ==
    /\ points' = [points EXCEPT ![next] = [at |-> t, hashes |-> TotalHashes]]
    /\ next' = (next + 1) % Window
    /\ samples' = samples + 1

SampleRecord ==
    /\ sst = "lock"
    /\ Sample(stick)
    /\ sst' = "select" /\ stick' = NoTick
    /\ UNCHANGED tick

SampleExit ==
    /\ sst = "select" /\ cancelled
    /\ sst' = "gone"
    /\ UNCHANGED <<stick, points, next, samples, tick>>

Sampler ==
    /\ SampleTick \/ SampleRecord \/ SampleExit
    /\ UNCHANGED <<jobVars, wst, TotalHashes, now, cancelled, done, callVars>>

Cancel ==
    /\ ~cancelled /\ cancelled' = TRUE
    /\ UNCHANGED <<jobVars, wst, TotalHashes, sampleVars, now, tick, done, callVars>>

\* wg.Wait() covers the workers, the client and the sampler.
CloseDone ==
    /\ ~done /\ wst = "gone" /\ cst = "gone" /\ sst = "gone"
    /\ done' = TRUE
    /\ UNCHANGED <<jobVars, wst, TotalHashes, sampleVars, now, tick, cancelled, callVars>>

-----------------------------------------------------------------------------
(* A Stats call: time.Now(), running(), the locked section, then one load  *)
(* after the other.  One caller at a time is followed.                     *)

StatsNow ==
    /\ rpc = "idle"
    /\ at' = now
    /\ floor' = IF InSetJob THEN pushes - 1 ELSE pushes
    /\ rpc' = "running"
    /\ UNCHANGED <<nload, res, waited, last, points, next, samples>>

\* A variant of running (below) that asks the context.
RunningWhileNotCancelled == ~cancelled

running == ~done

StatsRunning ==
    /\ rpc = "running"
    /\ res' = [res EXCEPT !.running = running]
    /\ rpc' = "lock"
    /\ UNCHANGED <<nload, at, floor, waited, last, points, next, samples>>

\* hashrateWindow.rate, measured from the slot sample would overwrite next.
WindowRate(t, h) ==
    LET old == points[next] IN
    IF h < old.hashes \/ t - old.at <= 0 THEN ZeroRate
    ELSE [hashes |-> h - old.hashes, secs |-> t - old.at]

\* A variant of StatsLocked (below) that records what it measures.
StatsLockedSamples ==
    /\ rpc = "lock"
    /\ res' = [res EXCEPT
                 !.hashes = TotalHashes,
                 !.rate = IF res.running THEN WindowRate(at, TotalHashes) ELSE ZeroRate]
    /\ Sample(at)
    /\ waited' = IF samples >= Window THEN now - at ELSE NotFull
    /\ rpc' = "load"
    /\ UNCHANGED <<nload, at, floor, last>>

\* e.mu keeps the sampler out between the load and the rate.
StatsLocked ==
    /\ rpc = "lock"
    /\ res' = [res EXCEPT
                 !.hashes = TotalHashes,
                 !.rate = IF res.running THEN WindowRate(at, TotalHashes) ELSE ZeroRate]
    /\ waited' = IF samples >= Window THEN now - at ELSE NotFull
    /\ rpc' = "load"
    /\ UNCHANGED <<nload, at, floor, last, points, next, samples>>

StatsLoad ==
    /\ rpc = "load"
    /\ LET f == Loads[nload]
           r == IF f = "Connected" THEN [res EXCEPT !.Connected = Connected]
                ELSE [res EXCEPT !.mirror[f] = field[f]]
       IN IF nload < Len(Loads)
            THEN res' = r /\ nload' = nload + 1 /\ UNCHANGED <<rpc, at, waited, last>>
            ELSE /\ last' = r /\ rpc' = "idle" /\ res' = NoResult
                 /\ nload' = 1 /\ at' = 0 /\ waited' = NotFull
    /\ UNCHANGED floor
    /\ UNCHANGED <<points, next, samples>>

Caller ==
    /\ StatsNow \/ StatsRunning \/ StatsLocked \/ StatsLoad
    /\ UNCHANGED <<jobVars, wst, TotalHashes, sst, stick, now, tick, cancelled, done>>

Next == Client \/ Workers \/ Clock \/ Sampler \/ Cancel \/ CloseDone \/ Caller

Spec == Init /\ [][Next]_vars

-----------------------------------------------------------------------------
\* engine.go calls Stats "an atomic snapshot of engine activity": one push's
\* counters, never a mixture of two.
StatsIsSnapshot == \A f, g \in Mirrored : last.mirror[f] = last.mirror[g]

\* A result with Running false is final: the link is down, and hashes and
\* counters are the ones the engine will show for ever, because running() is
\* read before everything else and done is closed after everything else.
FinalWhenStopped ==
    ~last.running =>
        /\ ~last.Connected
        /\ last.hashes = TotalHashes
        /\ last.mirror = field
        /\ last.rate = ZeroRate

\* No field is older than the last push mirrored completely before the call.
FieldsAreFresh ==
    rpc = "idle" => \A f \in Mirrored : last.mirror[f] >= floor

\* Once the ring is full the rate of a running engine spans at least Window - 1
\* seconds, however often Stats is called, as only the sampler advances the window;
\* less the seconds the call waited between its time.Now() and e.mu, in which
\* samples later than that may have been recorded.  So a call that waits less is
\* never told a rate of zero for want of a span.
RateIsWide ==
    waited # NotFull /\ res.running => res.rate.secs + waited >= Window - 1

=============================================================================
