-------------------------- MODULE FakeGetworkProofs --------------------------
(***************************************************************************)
(* Theorems about FakeGetwork, for any set of connections, any number of   *)
(* goroutines that call Close and a pass of any length.                    *)
(***************************************************************************)
EXTENDS FakeGetwork, Induction

(* The handlers between track and Done: the WaitGroup counts these.        *)
Tracked == {"push", "pause", "hold", "every", "shut", "untrack", "uncount"}
Counted == {c \in Conns : hpc[c] \in Tracked}

CountInv == IsFiniteSet(Counted) /\ handlers = Cardinality(Counted)

\* A reader that still runs has a handler that has yet to wait for it.
ReaderInv ==
    \A c \in Conns :
        /\ hpc[c] \in {"none", "request", "upgraded"} => rpc[c] = "none"
        /\ rpc[c] \notin {"none", "done"} => hpc[c] \in Tracked \ {"untrack", "uncount"}

\* What a Close call has seen to, at each of its steps.
CloseInv ==
    \A k \in Closers :
        /\ kpc[k] # "idle" => closed
        /\ kpc[k] \in {"srvclose", "srvwait", "returned"} => Counted = {}
        /\ kpc[k] \in {"srvwait", "returned"} => ~listening
        /\ kpc[k] = "returned" => \A c \in Conns : hpc[c] # "request"

FInv == ServerTypeOK /\ CountInv /\ ReaderInv /\ CloseInv

-----------------------------------------------------------------------------
\* The invariant holds when the server starts.
THEOREM ServerInit == Init => FInv
<1> SUFFICES ASSUME Init PROVE FInv
  OBVIOUS
<1> USE DEF Init
<1>1. ServerTypeOK
  <2>1. 1 \in 1..Jobs + 1
    BY ServerAssumption
  <2>2. job \in [Conns -> 1..Jobs + 1] /\ frames \in [Conns -> Nat]
    BY <2>1
  <2>3. submissions \in Seq(Submission) /\ called \in Seq(Submission)
    OBVIOUS
  <2> QED
    BY <2>2, <2>3 DEF ServerTypeOK, HandlerPCs, ReaderPCs, CloserPCs
<1>2. CountInv
  <2>1. Counted = {}
    BY DEF Counted, Tracked
  <2> QED
    BY <2>1, FS_EmptySet DEF CountInv
<1>3. ReaderInv
  BY DEF ReaderInv
<1>4. CloseInv
  BY DEF CloseInv
<1> QED
  BY <1>1, <1>2, <1>3, <1>4 DEF FInv

-----------------------------------------------------------------------------
(* The type invariant, one half at a time.                                 *)
HandlerTypes ==
    /\ hpc \in [Conns -> HandlerPCs]
    /\ sock \in [Conns -> {"open", "peer", "closed"}]
    /\ job \in [Conns -> 1..Jobs + 1]
    /\ conns \subseteq Conns
    /\ handlers \in Nat

ReaderTypes ==
    /\ rpc \in [Conns -> ReaderPCs]
    /\ frames \in [Conns -> Nat]
    /\ submissions \in Seq(Submission) /\ called \in Seq(Submission)
    /\ cbMu \in Conns \cup {None}

CloserTypes ==
    /\ opts \in Timings
    /\ closed \in BOOLEAN
    /\ kpc \in [Closers -> CloserPCs]
    /\ kconns \in [Closers -> SUBSET Conns]
    /\ listening \in BOOLEAN

\* The type invariant has a part for the handlers, the readers and the closers.
LEMMA Thirds == ServerTypeOK <=> HandlerTypes /\ ReaderTypes /\ CloserTypes
  BY DEF ServerTypeOK, HandlerTypes, ReaderTypes, CloserTypes

\* Steps of others keep the readers' types.
LEMMA ReaderTypesKept == ReaderTypes /\ UNCHANGED readVars => ReaderTypes'
  BY DEF ReaderTypes, readVars

\* Steps of others keep the closers' types.
LEMMA CloserTypesKept == CloserTypes /\ UNCHANGED closeVars => CloserTypes'
  BY DEF CloserTypes, closeVars

\* Steps of others keep the handlers' types.
LEMMA HandlerTypesKept == HandlerTypes /\ UNCHANGED connVars => HandlerTypes'
  BY DEF HandlerTypes, connVars

\* What Close has seen stays true while no handler gets counted or starts late.
LEMMA CloseInvKept ==
    ASSUME CloseInv, UNCHANGED <<kpc, closed, listening>>, Counted' \subseteq Counted,
           \A c \in Conns : hpc'[c] = "request" => hpc[c] = "request"
    PROVE  CloseInv'
  BY DEF CloseInv

-----------------------------------------------------------------------------
(* The handler.                                                            *)

\* A step of one handler from a state before track to another of these.
LEMMA BeforeTrack ==
    ASSUME FInv, NEW c \in Conns, NEW to \in {"request", "upgraded", "gone"},
           hpc[c] \in {"none", "request", "upgraded"},
           hpc' = [hpc EXCEPT ![c] = to],
           to = "request" => hpc[c] = "none" /\ listening,
           sock' \in [Conns -> {"open", "peer", "closed"}],
           UNCHANGED <<job, conns, handlers, readVars, closeVars>>
    PROVE  FInv'
<1>1. /\ hpc \in [Conns -> HandlerPCs] /\ HandlerTypes /\ ReaderTypes /\ CloserTypes
      /\ ReaderInv /\ CloseInv /\ CountInv
  BY Thirds DEF FInv, HandlerTypes
<1>2. HandlerTypes'
  BY <1>1 DEF HandlerTypes, HandlerPCs
<1>3. ReaderTypes' /\ CloserTypes'
  BY <1>1, ReaderTypesKept, CloserTypesKept
<1>4. Counted' = Counted
  BY <1>1 DEF Counted, Tracked
<1>5. CountInv'
  BY <1>1, <1>4 DEF CountInv
<1>6. rpc' = rpc /\ kpc' = kpc /\ closed' = closed /\ listening' = listening
  BY DEF readVars, closeVars
<1>7. ReaderInv'
  BY <1>1, <1>6 DEF ReaderInv, Tracked
<1>8. CloseInv'
  BY <1>1, <1>4, <1>6 DEF CloseInv
<1> QED
  BY <1>2, <1>3, <1>5, <1>7, <1>8 DEF FInv, ServerTypeOK, HandlerTypes, ReaderTypes, CloserTypes

\* A step of one handler from a state the WaitGroup counts to another of these.
LEMMA WhileTracked ==
    ASSUME FInv, NEW c \in Conns, NEW to \in Tracked,
           hpc[c] \in Tracked, hpc' = [hpc EXCEPT ![c] = to],
           to \in {"untrack", "uncount"} => rpc[c] \in {"none", "done"},
           sock' \in [Conns -> {"open", "peer", "closed"}],
           job' \in [Conns -> 1..Jobs + 1],
           conns' \subseteq Conns,
           UNCHANGED <<handlers, readVars, closeVars>>
    PROVE  FInv'
<1>1. /\ hpc \in [Conns -> HandlerPCs] /\ HandlerTypes /\ ReaderTypes /\ CloserTypes
      /\ ReaderInv /\ CloseInv /\ CountInv
  BY Thirds DEF FInv, HandlerTypes
<1>2. HandlerTypes'
  BY <1>1 DEF HandlerTypes, HandlerPCs, Tracked
<1>3. ReaderTypes' /\ CloserTypes'
  BY <1>1, ReaderTypesKept, CloserTypesKept
<1>4. Counted' = Counted
  BY <1>1 DEF Counted
<1>5. CountInv'
  BY <1>1, <1>4 DEF CountInv
<1>6. rpc' = rpc /\ kpc' = kpc /\ closed' = closed /\ listening' = listening
  BY DEF readVars, closeVars
<1>7. ReaderInv'
  BY <1>1, <1>6 DEF ReaderInv, Tracked
<1>8. CloseInv'
  BY <1>1, <1>4, <1>6 DEF CloseInv, Tracked
<1> QED
  BY <1>2, <1>3, <1>5, <1>7, <1>8 DEF FInv, ServerTypeOK, HandlerTypes, ReaderTypes, CloserTypes

\* A request arrives; only while the listener is open.
LEMMA ArriveKeeps == ASSUME FInv, NEW c \in Conns, Arrive(c) PROVE FInv'
<1>1. sock' \in [Conns -> {"open", "peer", "closed"}]
  BY DEF Arrive, FInv, ServerTypeOK
<1> QED
  BY <1>1, BeforeTrack DEF Arrive, HGoto

\* The request becomes a websocket that nobody tracks yet.
LEMMA UpgradeKeeps == ASSUME FInv, NEW c \in Conns, Upgrade(c) PROVE FInv'
<1>1. sock' \in [Conns -> {"open", "peer", "closed"}]
  BY DEF Upgrade, FInv, ServerTypeOK
<1> QED
  BY <1>1, BeforeTrack DEF Upgrade, HGoto

\* A client goes away without a word.
LEMMA ClientLeavesKeeps == ASSUME FInv, NEW c \in Conns, ClientLeaves(c) PROVE FInv'
<1>1. HandlerTypes /\ ReaderTypes /\ CloserTypes /\ ReaderInv /\ CloseInv /\ CountInv
  BY Thirds DEF FInv
<1>2. HandlerTypes' /\ ReaderTypes' /\ CloserTypes'
  BY <1>1, ReaderTypesKept, CloserTypesKept DEF ClientLeaves, HandlerTypes
<1>3. Counted' = Counted
  BY DEF ClientLeaves, Counted
<1>4. CountInv' /\ ReaderInv' /\ CloseInv'
  BY <1>1, <1>3 DEF ClientLeaves, CountInv, ReaderInv, CloseInv, readVars, closeVars
<1> QED
  BY <1>2, <1>4 DEF FInv, ServerTypeOK, HandlerTypes, ReaderTypes, CloserTypes

\* track adds to the WaitGroup and starts the reader, unless closed is set.
LEMMA TrackKeeps == ASSUME FInv, NEW c \in Conns, Track(c) PROVE FInv'
<1>1. /\ hpc \in [Conns -> HandlerPCs] /\ HandlerTypes /\ ReaderTypes /\ CloserTypes
      /\ ReaderInv /\ CloseInv /\ CountInv
  BY Thirds DEF FInv, HandlerTypes
<1>2. CASE closed
  <2>1. /\ hpc' = [hpc EXCEPT ![c] = "gone"] /\ sock' = [sock EXCEPT ![c] = "closed"]
        /\ UNCHANGED <<job, conns, handlers, readVars, closeVars>>
    BY <1>2 DEF Track, HGoto, readVars
  <2>2. sock' \in [Conns -> {"open", "peer", "closed"}]
    BY <1>1, <2>1 DEF HandlerTypes
  <2> QED
    BY <2>1, <2>2, BeforeTrack DEF Track
<1>3. CASE ~closed
  <2>1. /\ hpc[c] = "upgraded"
        /\ hpc' = [hpc EXCEPT ![c] = "push"] /\ rpc' = [rpc EXCEPT ![c] = "read"]
        /\ conns' = conns \cup {c} /\ handlers' = handlers + 1
        /\ sock' = sock /\ job' = job /\ frames' = frames
        /\ submissions' = submissions /\ cbMu' = cbMu /\ called' = called
        /\ UNCHANGED closeVars
    BY <1>3 DEF Track, HGoto, RGoto
  <2>2. HandlerTypes'
    BY <1>1, <2>1 DEF HandlerTypes, HandlerPCs
  <2>3. ReaderTypes'
    BY <1>1, <2>1 DEF ReaderTypes, ReaderPCs
  <2>4. CloserTypes'
    BY <1>1, <2>1, CloserTypesKept
  <2>5. Counted' = Counted \cup {c} /\ c \notin Counted
    BY <1>1, <2>1 DEF Counted, Tracked
  <2>6. CountInv'
    BY <1>1, <2>1, <2>5, FS_AddElement DEF CountInv
  <2>7. ReaderInv'
    BY <1>1, <2>1 DEF ReaderInv, ReaderTypes, Tracked
  <2>8. CloseInv'
    <3>1. \A k \in Closers : kpc'[k] = "idle"
      BY <1>1, <1>3, <2>1 DEF CloseInv, closeVars
    <3> QED
      BY <3>1 DEF CloseInv
  <2> QED
    BY <2>2, <2>3, <2>4, <2>6, <2>7, <2>8
       DEF FInv, ServerTypeOK, HandlerTypes, ReaderTypes, CloserTypes
<1> QED
  BY <1>2, <1>3

\* A job is pushed, or cannot be, or a pass is over.
LEMMA PushKeeps ==
    ASSUME FInv, NEW c \in Conns, PushOK(c) \/ PushFail(c) \/ EndOfPass(c) PROVE FInv'
<1>1. sock \in [Conns -> {"open", "peer", "closed"}] /\ job \in [Conns -> 1..Jobs + 1]
      /\ conns \subseteq Conns
  BY DEF FInv, ServerTypeOK
<1>2. CASE PushOK(c)
  <2>1. job' \in [Conns -> 1..Jobs + 1]
    BY <1>1, <1>2, ServerAssumption DEF PushOK
  <2>2. PICK to \in {"pause", "push"} : hpc' = [hpc EXCEPT ![c] = to]
    BY <1>2 DEF PushOK, HGoto
  <2>3. to \in Tracked /\ hpc[c] \in Tracked
    BY <1>2 DEF PushOK, Tracked
  <2> QED
    BY <1>1, <1>2, <2>1, <2>2, <2>3, WhileTracked DEF PushOK
<1>3. CASE PushFail(c)
  BY <1>1, <1>3, WhileTracked DEF PushFail, HGoto, Tracked
<1>4. CASE EndOfPass(c)
  <2>1. PICK to \in {"every", "hold"} : hpc' = [hpc EXCEPT ![c] = to]
    BY <1>4 DEF EndOfPass, HGoto
  <2>2. to \in Tracked /\ hpc[c] \in Tracked
    BY <1>4 DEF EndOfPass, Tracked
  <2> QED
    BY <1>1, <1>4, <2>1, <2>2, WhileTracked DEF EndOfPass
<1> QED
  BY <1>2, <1>3, <1>4

\* The handler's select takes the timer or the end of its reader.
LEMMA WaitKeeps ==
    ASSUME FInv, NEW c \in Conns, Timer(c) \/ ReaderGone(c) PROVE FInv'
<1>1. sock \in [Conns -> {"open", "peer", "closed"}] /\ job \in [Conns -> 1..Jobs + 1]
      /\ conns \subseteq Conns
  BY DEF FInv, ServerTypeOK
<1>2. CASE Timer(c)
  <2>1. job' \in [Conns -> 1..Jobs + 1]
    BY <1>1, <1>2, ServerAssumption DEF Timer
  <2>2. "push" \in Tracked /\ hpc[c] \in Tracked
    BY <1>2 DEF Timer, Tracked
  <2> QED
    BY <1>1, <1>2, <2>1, <2>2, WhileTracked DEF Timer, HGoto
<1>3. CASE ReaderGone(c)
  BY <1>1, <1>3, WhileTracked DEF ReaderGone, HGoto, Tracked
<1> QED
  BY <1>2, <1>3

\* The handler closes its socket and forgets the connection.
LEMMA ShutKeeps == ASSUME FInv, NEW c \in Conns, Shut(c) \/ Untrack(c) PROVE FInv'
<1>1. sock \in [Conns -> {"open", "peer", "closed"}] /\ job \in [Conns -> 1..Jobs + 1]
      /\ conns \subseteq Conns
  BY DEF FInv, ServerTypeOK
<1>2. CASE Shut(c)
  <2>1. sock' \in [Conns -> {"open", "peer", "closed"}]
    BY <1>1, <1>2 DEF Shut
  <2>2. PICK to \in {"untrack", "shut"} :
           hpc' = [hpc EXCEPT ![c] = to] /\ (to = "untrack" => rpc[c] = "done")
    BY <1>2 DEF Shut, HGoto
  <2>3. to \in Tracked /\ hpc[c] \in Tracked /\ (to \in {"untrack", "uncount"} => rpc[c] = "done")
    BY <1>2, <2>2 DEF Shut, Tracked
  <2> QED
    BY <1>1, <1>2, <2>1, <2>2, <2>3, WhileTracked DEF Shut
<1>3. CASE Untrack(c)
  <2>1. rpc[c] \in {"none", "done"}
    BY <1>3 DEF Untrack, FInv, ReaderInv, Tracked
  <2>2. conns' \subseteq Conns
    BY <1>1, <1>3 DEF Untrack
  <2> QED
    BY <1>1, <1>3, <2>1, <2>2, WhileTracked DEF Untrack, HGoto, Tracked
<1> QED
  BY <1>2, <1>3

\* Done takes away exactly the one that track added.
LEMMA UncountKeeps == ASSUME FInv, NEW c \in Conns, Uncount(c) PROVE FInv'
<1>1. /\ hpc \in [Conns -> HandlerPCs] /\ HandlerTypes /\ ReaderTypes /\ CloserTypes
      /\ ReaderInv /\ CloseInv /\ CountInv
  BY Thirds DEF FInv, HandlerTypes
<1>2. /\ hpc[c] = "uncount" /\ hpc' = [hpc EXCEPT ![c] = "gone"] /\ handlers' = handlers - 1
      /\ sock' = sock /\ job' = job /\ conns' = conns
      /\ UNCHANGED readVars /\ UNCHANGED closeVars
  BY DEF Uncount, HGoto
<1>3. Counted' = Counted \ {c} /\ c \in Counted
  BY <1>1, <1>2 DEF Counted, Tracked
<1>4. CountInv'
  BY <1>1, <1>2, <1>3, FS_RemoveElement DEF CountInv
<1>5. handlers' \in Nat
  BY <1>4, FS_CardinalityType DEF CountInv
<1>6. HandlerTypes'
  BY <1>1, <1>2, <1>5 DEF HandlerTypes, HandlerPCs
<1>7. ReaderTypes' /\ CloserTypes'
  BY <1>1, <1>2, ReaderTypesKept, CloserTypesKept
<1>8. ReaderInv'
  BY <1>1, <1>2 DEF ReaderInv, readVars, Tracked
<1>9. CloseInv'
  BY <1>1, <1>2, <1>3 DEF CloseInv, closeVars
<1> QED
  BY <1>4, <1>6, <1>7, <1>8, <1>9 DEF FInv, ServerTypeOK, HandlerTypes, ReaderTypes, CloserTypes

-----------------------------------------------------------------------------
(* The reader leaves everything but its own state alone, and starts nothing *)
(* the handler would not wait for.                                         *)
LEMMA ReaderKeeps == ASSUME FInv, NEW c \in Conns, Reader(c) PROVE FInv'
<1>1. HandlerTypes /\ ReaderTypes /\ CloserTypes /\ ReaderInv /\ CloseInv /\ CountInv
  BY Thirds DEF FInv
<1>2. UNCHANGED connVars /\ UNCHANGED closeVars
  BY DEF Reader, ReadSubmit, ReadIgnored, ReadFail, AddSubmission, CallbackBegin, CallbackEnd
<1>3. PICK to \in ReaderPCs \ {"none"} : rpc' = [rpc EXCEPT ![c] = to] /\ rpc[c] \notin {"none", "done"}
  <2>1. CASE ReadIgnored(c)
    BY <1>1, <2>1 DEF ReadIgnored, ReaderTypes, ReaderPCs
  <2>2. CASE ReadSubmit(c) \/ ReadFail(c)
    BY <2>2 DEF ReadSubmit, ReadFail, RGoto, ReaderPCs
  <2>3. CASE AddSubmission(c)
    BY <2>3 DEF AddSubmission, RGoto, ReaderPCs
  <2>4. CASE CallbackBegin(c) \/ CallbackEnd(c)
    BY <2>4 DEF CallbackBegin, CallbackEnd, RGoto, ReaderPCs
  <2> QED
    BY <2>1, <2>2, <2>3, <2>4 DEF Reader
<1>4. frames' \in [Conns -> Nat]
  BY <1>1 DEF Reader, ReadSubmit, ReadIgnored, ReadFail, AddSubmission, CallbackBegin,
              CallbackEnd, ReaderTypes
<1>5. [conn |-> c, n |-> frames[c]] \in Submission
  BY <1>1 DEF ReaderTypes, Submission
<1>6. submissions' \in Seq(Submission) /\ called' \in Seq(Submission)
  <2>1. submissions \in Seq(Submission) /\ called \in Seq(Submission)
    BY <1>1 DEF ReaderTypes
  <2>2. /\ Append(submissions, [conn |-> c, n |-> frames[c]]) \in Seq(Submission)
        /\ Append(called, [conn |-> c, n |-> frames[c]]) \in Seq(Submission)
    BY <1>5, <2>1
  <2>3. submissions' \in {submissions, Append(submissions, [conn |-> c, n |-> frames[c]])}
    BY DEF Reader, ReadSubmit, ReadIgnored, ReadFail, AddSubmission, CallbackBegin, CallbackEnd
  <2>4. called' \in {called, Append(called, [conn |-> c, n |-> frames[c]])}
    BY DEF Reader, ReadSubmit, ReadIgnored, ReadFail, AddSubmission, CallbackBegin, CallbackEnd
  <2> QED
    BY <2>1, <2>2, <2>3, <2>4
<1>7. cbMu' \in Conns \cup {None}
  BY <1>1 DEF Reader, ReadSubmit, ReadIgnored, ReadFail, AddSubmission, CallbackBegin,
              CallbackEnd, ReaderTypes
<1>8. ReaderTypes'
  BY <1>1, <1>3, <1>4, <1>6, <1>7 DEF ReaderTypes
<1>9. HandlerTypes' /\ CloserTypes'
  BY <1>1, <1>2, HandlerTypesKept, CloserTypesKept
<1>10. hpc' = hpc /\ handlers' = handlers /\ kpc' = kpc /\ closed' = closed /\ listening' = listening
  BY <1>2 DEF connVars, closeVars
<1>11. Counted' = Counted
  BY <1>10 DEF Counted
<1>12. CountInv' /\ CloseInv'
  BY <1>1, <1>10, <1>11 DEF CountInv, CloseInv
<1>13. ReaderInv'
  BY <1>1, <1>3, <1>10 DEF ReaderInv, ReaderTypes, Tracked
<1> QED
  BY <1>8, <1>9, <1>12, <1>13 DEF FInv, ServerTypeOK, HandlerTypes, ReaderTypes, CloserTypes

-----------------------------------------------------------------------------
(* Close.                                                                  *)
LEMMA CloserKeeps == ASSUME FInv, NEW k \in Closers, Closer(k) PROVE FInv'
<1>1. HandlerTypes /\ ReaderTypes /\ CloserTypes /\ ReaderInv /\ CloseInv /\ CountInv
  BY Thirds DEF FInv
<1>2. /\ hpc' = hpc /\ job' = job /\ handlers' = handlers /\ UNCHANGED readVars /\ opts' = opts
  BY DEF Closer, CloseBegin, CloseConn, CloseWait, SrvClose, SrvWait, connVars
<1>3. ReaderTypes'
  BY <1>1, <1>2, ReaderTypesKept
<1>4. Counted' = Counted
  BY <1>2 DEF Counted
<1>5. CountInv'
  BY <1>1, <1>2, <1>4 DEF CountInv
<1>6. ReaderInv'
  BY <1>1, <1>2 DEF ReaderInv, readVars
<1>7. CASE CloseBegin(k)
  <2>1. HandlerTypes' /\ CloserTypes'
    BY <1>1, <1>2, <1>7 DEF CloseBegin, KGoto, HandlerTypes, CloserTypes, CloserPCs
  <2>2. CloseInv'
    BY <1>1, <1>2, <1>4, <1>7 DEF CloseBegin, KGoto, CloserTypes, CloseInv
  <2> QED
    BY <1>3, <1>5, <1>6, <2>1, <2>2
       DEF FInv, ServerTypeOK, HandlerTypes, ReaderTypes, CloserTypes
<1>8. CASE CloseConn(k)
  <2>1. HandlerTypes' /\ CloserTypes'
    BY <1>1, <1>2, <1>8 DEF CloseConn, KGoto, HandlerTypes, CloserTypes, CloserPCs
  <2>2. CloseInv'
    BY <1>1, <1>2, <1>4, <1>8 DEF CloseConn, KGoto, CloserTypes, CloseInv
  <2> QED
    BY <1>3, <1>5, <1>6, <2>1, <2>2
       DEF FInv, ServerTypeOK, HandlerTypes, ReaderTypes, CloserTypes
<1>9. CASE CloseWait(k)
  <2>1. HandlerTypes' /\ CloserTypes'
    BY <1>1, <1>2, <1>9, HandlerTypesKept DEF CloseWait, KGoto, CloserTypes, CloserPCs
  <2>2. Counted = {}
    BY <1>1, <1>9, FS_EmptySet DEF CloseWait, CountInv
  <2>3. CloseInv'
    BY <1>1, <1>2, <1>4, <1>9, <2>2 DEF CloseWait, KGoto, CloserTypes, CloseInv
  <2> QED
    BY <1>3, <1>5, <1>6, <2>1, <2>3
       DEF FInv, ServerTypeOK, HandlerTypes, ReaderTypes, CloserTypes
<1>10. CASE SrvClose(k) \/ SrvWait(k)
  <2>1. HandlerTypes' /\ CloserTypes'
    BY <1>1, <1>2, <1>10, HandlerTypesKept
       DEF SrvClose, SrvWait, KGoto, CloserTypes, CloserPCs
  <2>2. CloseInv'
    BY <1>1, <1>2, <1>4, <1>10 DEF SrvClose, SrvWait, KGoto, CloserTypes, CloseInv
  <2> QED
    BY <1>3, <1>5, <1>6, <2>1, <2>2
       DEF FInv, ServerTypeOK, HandlerTypes, ReaderTypes, CloserTypes
<1> QED
  BY <1>7, <1>8, <1>9, <1>10 DEF Closer

-----------------------------------------------------------------------------
\* Every step of the server, its clients and its closers keeps the invariant.
THEOREM ServerStep == FInv /\ [Next]_vars => FInv'
<1> SUFFICES ASSUME FInv, [Next]_vars PROVE FInv'
  OBVIOUS
<1>1. ASSUME NEW c \in Conns, Client(c) \/ HandlerRuns(c) \/ PushOK(c) \/ Reader(c)
      PROVE  FInv'
  BY <1>1, ArriveKeeps, ClientLeavesKeeps, UpgradeKeeps, TrackKeeps, PushKeeps, WaitKeeps,
     ShutKeeps, UncountKeeps, ReaderKeeps DEF Client, HandlerRuns
<1>2. ASSUME NEW k \in Closers, Closer(k) PROVE FInv'
  BY <1>2, CloserKeeps
<1>3. CASE UNCHANGED vars
  <2>1. HandlerTypes' /\ ReaderTypes' /\ CloserTypes'
    BY <1>3, Thirds, HandlerTypesKept, ReaderTypesKept, CloserTypesKept DEF FInv, vars
  <2>2. Counted' = Counted
    BY <1>3 DEF vars, connVars, Counted
  <2>3. CountInv' /\ ReaderInv' /\ CloseInv'
    BY <1>3, <2>2 DEF FInv, vars, connVars, readVars, closeVars, CountInv, ReaderInv, CloseInv
  <2> QED
    BY <2>1, <2>3 DEF FInv, ServerTypeOK, HandlerTypes, ReaderTypes, CloserTypes
<1> QED
  BY <1>1, <1>2, <1>3 DEF Next

\* The inductive invariant of the test server.
THEOREM ServerInvariant == Spec => []FInv
  BY ServerInit, ServerStep, PTL DEF Spec

\* Every variable keeps its type, and handlers never goes negative: no handler
\* calls Done that did not Add.
THEOREM ServerTypeCorrect == Spec => []ServerTypeOK
<1>1. FInv => ServerTypeOK
  BY DEF FInv
<1> QED
  BY ServerInvariant, <1>1, PTL

\* Once a Close has returned, every handler and every reader has ended or was
\* turned away, however many connections there were and whoever else called Close.
THEOREM CloseLeavesQuiet == Spec => []QuietAfterClose
<1>1. FInv => QuietAfterClose
  <2> SUFFICES ASSUME FInv, NEW k \in Closers, kpc[k] = "returned", NEW c \in Conns
               PROVE  hpc[c] \in {"none", "upgraded", "gone"} /\ rpc[c] \in {"none", "done"}
    BY DEF QuietAfterClose
  <2>1. Counted = {} /\ hpc[c] # "request" /\ hpc[c] \in HandlerPCs
    BY DEF FInv, CloseInv, ServerTypeOK
  <2>2. hpc[c] \notin Tracked
    BY <2>1 DEF Counted
  <2>3. hpc[c] \in {"none", "upgraded", "gone"}
    BY <2>1, <2>2 DEF HandlerPCs, Tracked
  <2> QED
    BY <2>2, <2>3 DEF FInv, ReaderInv, Tracked
<1> QED
  BY ServerInvariant, <1>1, PTL

-----------------------------------------------------------------------------
(* Of: what a connection's share of a sequence is, entry by entry.         *)

IsOf(f, seq, c) ==
    /\ f \in [0..Len(seq) -> Seq(Submission)]
    /\ f[0] = <<>>
    /\ \A i \in 1..Len(seq) :
          f[i] = IF seq[i].conn = c THEN Append(f[i - 1], seq[i]) ELSE f[i - 1]

\* Of is a fold that appends the submissions of one connection in order.
LEMMA OfIs ==
    ASSUME NEW seq \in Seq(Submission), NEW c
    PROVE  \E f : IsOf(f, seq, c) /\ Of(seq, c) = f[Len(seq)]
<1> DEFINE n == Len(seq)
           T == Seq(Submission)
           V(i, x) == IF seq[i].conn = c THEN Append(x, seq[i]) ELSE x
           step == [i \in 1..n |-> [x \in T |-> V(i, x)]]
<1>1. n \in Nat /\ <<>> \in T
  OBVIOUS
<1>2. \A i \in 1..n, x \in T : V(i, x) \in T
  OBVIOUS
<1>3. /\ step \in [1..n -> [T -> T]]
      /\ \A i \in 1..n, x \in T : step[i][x] = V(i, x)
  <2> HIDE DEF V, T
  <2> QED
    BY <1>2
<1>4. PICK f : Recursion(f, n, T, <<>>, step)
  <2> HIDE DEF T, n, step
  <2> QED
    BY <1>1, <1>3, RecursionExists
<1>5. f \in [0..n -> T] /\ f[0] = <<>> /\ \A i \in 1..n : f[i] = step[i][f[i - 1]]
  <2> HIDE DEF T, n, step
  <2> QED
    BY <1>4 DEF Recursion
<1>6. \A i \in 1..n : f[i] = V(i, f[i - 1])
  <2> SUFFICES ASSUME NEW i \in 1..n PROVE f[i] = V(i, f[i - 1])
    OBVIOUS
  <2>1. i - 1 \in 0..n
    BY <1>1
  <2> HIDE DEF V, T, step
  <2>2. f[i - 1] \in T
    BY <1>5, <2>1
  <2> QED
    BY <1>3, <1>5, <2>2
<1> DEFINE Rec(g) == g = [i \in 0..n |-> IF i = 0 THEN <<>>
                                         ELSE IF seq[i].conn = c THEN Append(g[i - 1], seq[i])
                                         ELSE g[i - 1]]
<1>7. Rec(f)
  <2>1. \A i \in 0..n : f[i] = IF i = 0 THEN <<>>
                               ELSE IF seq[i].conn = c THEN Append(f[i - 1], seq[i])
                               ELSE f[i - 1]
    <3>1. \A i \in 0..n : i # 0 => i \in 1..n
      BY <1>1
    <3> HIDE DEF n
    <3> QED
      BY <1>5, <1>6, <3>1
  <2> HIDE DEF T
  <2> QED
    BY <1>5, <2>1
<1> DEFINE h == CHOOSE g : Rec(g)
<1>8. Rec(h)
  <2> HIDE DEF Rec
  <2> QED
    BY <1>7
<1>9. Of(seq, c) = h[n]
  BY DEF Of
<1>10. h[0] = <<>> /\ \A i \in 1..n : h[i] = V(i, h[i - 1])
  <2> HIDE DEF h, n
  <2>1. 0 \in 0..n /\ \A i \in 1..n : i \in 0..n /\ i # 0
    BY <1>1
  <2> QED
    BY <1>8, <2>1
<1>11. \A i \in 0..n : h[i] \in T
  <2> DEFINE P == {i \in Nat : i <= n => h[i] \in T}
  <2> HIDE DEF h, T, V, n
  <2>1. 0 \in P
    BY <1>1, <1>10
  <2>2. ASSUME NEW i \in Nat, i \in P PROVE i + 1 \in P
    <3> SUFFICES ASSUME i + 1 <= n PROVE h[i + 1] \in T
      OBVIOUS
    <3>1. i + 1 \in 1..n /\ (i + 1) - 1 = i /\ h[i] \in T
      BY <1>1, <2>2
    <3> QED
      BY <1>2, <1>10, <3>1
  <2>3. Nat \subseteq P
    <3> HIDE DEF P
    <3> QED
      BY <2>1, <2>2, SetInduction
  <2> QED
    BY <1>1, <2>3
<1>12. h \in [0..n -> T]
  <2> HIDE DEF h, T
  <2> QED
    BY <1>8, <1>11
<1> QED
  <2> HIDE DEF h
  <2>1. IsOf(h, seq, c)
    BY <1>10, <1>12 DEF IsOf
  <2> QED
    BY <1>9, <2>1

\* Nothing submitted is nothing of a connection.
LEMMA OfEmpty == ASSUME NEW c PROVE Of(<<>>, c) = <<>>
<1>1. <<>> \in Seq(Submission) /\ Len(<<>>) = 0
  OBVIOUS
<1>2. PICK f : IsOf(f, <<>>, c) /\ Of(<<>>, c) = f[Len(<<>>)]
  BY <1>1, OfIs
<1> QED
  BY <1>1, <1>2 DEF IsOf

\* A connection's part of the submissions is a sequence of submissions.
LEMMA OfType ==
    ASSUME NEW seq \in Seq(Submission), NEW c PROVE Of(seq, c) \in Seq(Submission)
<1>1. PICK f : IsOf(f, seq, c) /\ Of(seq, c) = f[Len(seq)]
  BY OfIs
<1> QED
  BY <1>1 DEF IsOf

\* An entry more is an entry more of its own connection, and of no other.
LEMMA OfAppend ==
    ASSUME NEW seq \in Seq(Submission), NEW s \in Submission, NEW c
    PROVE  Of(Append(seq, s), c) = IF s.conn = c THEN Append(Of(seq, c), s) ELSE Of(seq, c)
<1> DEFINE n == Len(seq)
           longer == Append(seq, s)
<1>1. PICK f : IsOf(f, seq, c) /\ Of(seq, c) = f[n]
  BY OfIs
<1>2. longer \in Seq(Submission) /\ Len(longer) = n + 1 /\ n \in Nat
  OBVIOUS
<1>3. PICK g : IsOf(g, longer, c) /\ Of(longer, c) = g[n + 1]
  <2>1. \E g : IsOf(g, longer, c) /\ Of(longer, c) = g[Len(longer)]
    BY ONLY <1>2, OfIs
  <2> QED
    BY <1>2, <2>1
<1>4. longer[n + 1] = s /\ \A i \in 1..n : longer[i] = seq[i]
  OBVIOUS
<1>5. /\ g[0] = <<>> /\ f[0] = <<>>
      /\ \A i \in 1..n + 1 :
            g[i] = IF longer[i].conn = c THEN Append(g[i - 1], longer[i]) ELSE g[i - 1]
      /\ \A i \in 1..n :
            f[i] = IF seq[i].conn = c THEN Append(f[i - 1], seq[i]) ELSE f[i - 1]
  BY <1>1, <1>2, <1>3 DEF IsOf
<1> HIDE DEF longer
<1> DEFINE P == {i \in Nat : i <= n => g[i] = f[i]}
<1>6. 0 \in P
  BY <1>5
<1>7. ASSUME NEW i \in Nat, i \in P PROVE i + 1 \in P
  <2> SUFFICES ASSUME i + 1 <= n PROVE g[i + 1] = f[i + 1]
    OBVIOUS
  <2>1. i + 1 \in 1..n /\ i + 1 \in 1..n + 1 /\ (i + 1) - 1 = i /\ g[i] = f[i]
    BY <1>2, <1>7
  <2>2. longer[i + 1] = seq[i + 1]
    BY <1>4, <2>1
  <2> QED
    BY <1>5, <2>1, <2>2
<1>8. Nat \subseteq P
  <2> HIDE DEF P
  <2> QED
    BY <1>6, <1>7, SetInduction
<1>9. g[n] = f[n]
  BY <1>2, <1>8
<1>10. n + 1 \in 1..n + 1 /\ (n + 1) - 1 = n
  BY <1>2
<1>11. g[n + 1] = IF s.conn = c THEN Append(g[n], s) ELSE g[n]
  BY <1>4, <1>5, <1>10
<1> QED
  BY <1>1, <1>3, <1>9, <1>11 DEF longer

-----------------------------------------------------------------------------
(* The callbacks.                                                          *)

\* A connection's callbacks lag its submissions by the one its reader holds
\* between addSubmission's two locks, and by nothing else.
OrderInv ==
    \A c \in Conns :
        IF OnSubmit
          THEN Of(submissions, c) =
                 IF rpc[c] = "cblock"
                   THEN Append(Of(called, c), [conn |-> c, n |-> frames[c]])
                   ELSE Of(called, c)
          ELSE rpc[c] \notin {"cblock", "callback"} /\ Of(called, c) = <<>>

\* Nothing has been submitted or called back.
LEMMA OrderInit == Init => OrderInv
<1> SUFFICES ASSUME Init, NEW c \in Conns
             PROVE  /\ rpc[c] = "none"
                    /\ Of(submissions, c) = <<>> /\ Of(called, c) = <<>>
  BY DEF OrderInv
<1> QED
  BY OfEmpty DEF Init

\* A step that leaves the reader's place, its frame and both sequences alone.
LEMMA OrderKept ==
    ASSUME OrderInv, UNCHANGED <<frames, submissions, called>>,
           \A c \in Conns : \/ rpc'[c] = rpc[c]
                            \/ rpc[c] # "cblock" /\ rpc'[c] \notin {"cblock", "callback"}
    PROVE  OrderInv'
  BY DEF OrderInv

\* Every step keeps a connection's callbacks behind its submissions by at most
\* the one its reader has in hand.
LEMMA OrderStep == FInv /\ OrderInv /\ [Next]_vars => OrderInv'
<1> SUFFICES ASSUME FInv, OrderInv, [Next]_vars PROVE OrderInv'
  OBVIOUS
<1> USE DEF RGoto
<1>1. /\ rpc \in [Conns -> ReaderPCs] /\ frames \in [Conns -> Nat]
      /\ submissions \in Seq(Submission) /\ called \in Seq(Submission)
  BY DEF FInv, ServerTypeOK
<1>2. ASSUME NEW c \in Conns, Client(c) \/ PushOK(c) \/ HandlerRuns(c) PROVE OrderInv'
  <2>1. UNCHANGED <<frames, submissions, called>>
    BY <1>2 DEF Client, Arrive, ClientLeaves, PushOK, HandlerRuns, Upgrade, Track, PushFail,
                EndOfPass, Timer, ReaderGone, Shut, Untrack, Uncount, readVars
  <2>2. rpc' = rpc \/ Track(c)
    BY <1>2 DEF Client, Arrive, ClientLeaves, PushOK, HandlerRuns, Upgrade, PushFail,
                EndOfPass, Timer, ReaderGone, Shut, Untrack, Uncount, readVars
  <2>3. rpc' = rpc \/ (rpc[c] = "none" /\ rpc' = [rpc EXCEPT ![c] = "read"])
    BY <2>2 DEF Track, FInv, ReaderInv
  <2>4. \A d \in Conns : \/ rpc'[d] = rpc[d]
                         \/ rpc[d] # "cblock" /\ rpc'[d] \notin {"cblock", "callback"}
    BY <1>1, <2>3
  <2> QED
    BY <2>1, <2>4, OrderKept
<1>3. ASSUME NEW c \in Conns, ReadFail(c) \/ CallbackEnd(c) PROVE OrderInv'
  <2>1. UNCHANGED <<frames, submissions, called>>
    BY <1>3 DEF ReadFail, CallbackEnd
  <2>2. \A d \in Conns : \/ rpc'[d] = rpc[d]
                         \/ rpc[d] # "cblock" /\ rpc'[d] \notin {"cblock", "callback"}
    BY <1>1, <1>3 DEF ReadFail, CallbackEnd
  <2> QED
    BY <2>1, <2>2, OrderKept
<1>4. ASSUME NEW c \in Conns, ReadSubmit(c) \/ ReadIgnored(c) PROVE OrderInv'
  <2>1. /\ submissions' = submissions /\ called' = called
        /\ rpc[c] = "read" /\ rpc'[c] \in {"read", "append"}
        /\ \A d \in Conns \ {c} : rpc'[d] = rpc[d] /\ frames'[d] = frames[d]
    BY <1>1, <1>4 DEF ReadSubmit, ReadIgnored
  <2> QED
    BY <2>1 DEF OrderInv
<1>5. ASSUME NEW c \in Conns, AddSubmission(c) PROVE OrderInv'
  <2> DEFINE x == [conn |-> c, n |-> frames[c]]
  <2>1. /\ rpc[c] = "append" /\ called' = called /\ frames' = frames
        /\ submissions' = Append(submissions, x)
        /\ rpc'[c] = IF OnSubmit THEN "cblock" ELSE "read"
        /\ \A d \in Conns \ {c} : rpc'[d] = rpc[d]
    BY <1>1, <1>5 DEF AddSubmission
  <2>2. x \in Submission /\ x.conn = c
    BY <1>1 DEF Submission
  <2>3. \A d : Of(submissions', d) = IF x.conn = d THEN Append(Of(submissions, d), x)
                                                  ELSE Of(submissions, d)
    <3> HIDE DEF x
    <3> QED
      BY <1>1, <2>1, <2>2, OfAppend
  <2>4. ASSUME NEW d \in Conns, OnSubmit
        PROVE  Of(submissions', d) = IF rpc'[d] = "cblock"
                                       THEN Append(Of(called', d), [conn |-> d, n |-> frames'[d]])
                                       ELSE Of(called', d)
    <3>1. CASE d = c
      BY <2>1, <2>2, <2>3, <2>4, <3>1 DEF OrderInv
    <3>2. CASE d # c
      BY <2>1, <2>2, <2>3, <2>4, <3>2 DEF OrderInv
    <3> QED
      BY <3>1, <3>2
  <2>5. ASSUME NEW d \in Conns, ~OnSubmit
        PROVE  rpc'[d] \notin {"cblock", "callback"} /\ Of(called', d) = <<>>
    BY <2>1, <2>5 DEF OrderInv
  <2> QED
    BY <2>4, <2>5, ServerAssumption DEF OrderInv
<1>6. ASSUME NEW c \in Conns, CallbackBegin(c) PROVE OrderInv'
  <2> DEFINE x == [conn |-> c, n |-> frames[c]]
  <2>1. /\ rpc[c] = "cblock" /\ submissions' = submissions /\ frames' = frames
        /\ called' = Append(called, x)
        /\ rpc'[c] = "callback"
        /\ \A d \in Conns \ {c} : rpc'[d] = rpc[d]
    BY <1>1, <1>6 DEF CallbackBegin
  <2>2. x \in Submission /\ x.conn = c
    BY <1>1 DEF Submission
  <2>3. \A d : Of(called', d) = IF x.conn = d THEN Append(Of(called, d), x)
                                             ELSE Of(called, d)
    <3> HIDE DEF x
    <3> QED
      BY <1>1, <2>1, <2>2, OfAppend
  <2>4. OnSubmit
    BY <2>1 DEF OrderInv
  <2>5. ASSUME NEW d \in Conns
        PROVE  Of(submissions', d) = IF rpc'[d] = "cblock"
                                       THEN Append(Of(called', d), [conn |-> d, n |-> frames'[d]])
                                       ELSE Of(called', d)
    <3>1. CASE d = c
      BY <2>1, <2>2, <2>3, <2>4, <3>1 DEF OrderInv
    <3>2. CASE d # c
      BY <2>1, <2>2, <2>3, <2>4, <3>2 DEF OrderInv
    <3> QED
      BY <3>1, <3>2
  <2> QED
    BY <2>4, <2>5 DEF OrderInv
<1>7. ASSUME NEW k \in Closers, Closer(k) PROVE OrderInv'
  <2>1. UNCHANGED <<frames, submissions, called, rpc>>
    BY <1>7 DEF Closer, CloseBegin, CloseConn, CloseWait, SrvClose, SrvWait, readVars
  <2> QED
    BY <2>1, OrderKept
<1>8. CASE UNCHANGED vars
  BY <1>8, OrderKept DEF vars, readVars
<1> QED
  BY <1>2, <1>3, <1>4, <1>5, <1>6, <1>7, <1>8 DEF Next, Reader

\* A reader that runs OnSubmit holds cbMu.
LockInv == \A c \in Conns : rpc[c] = "callback" => cbMu = c

\* No reader runs when the server starts.
LEMMA LockInit == Init => LockInv
  BY DEF Init, LockInv

\* A step that leaves the lock alone and brings no reader into OnSubmit.
LEMMA LockKept ==
    ASSUME LockInv, cbMu' = cbMu,
           \A c \in Conns : rpc'[c] = "callback" => rpc[c] = "callback"
    PROVE  LockInv'
  BY DEF LockInv

\* Every step keeps the lock with the reader that runs OnSubmit.
LEMMA LockStep == FInv /\ LockInv /\ [Next]_vars => LockInv'
<1> SUFFICES ASSUME FInv, LockInv, [Next]_vars PROVE LockInv'
  OBVIOUS
<1> USE DEF RGoto
<1>1. rpc \in [Conns -> ReaderPCs]
  BY DEF FInv, ServerTypeOK
<1>2. ASSUME NEW c \in Conns, Client(c) \/ PushOK(c) \/ HandlerRuns(c) PROVE LockInv'
  <2>1. cbMu' = cbMu /\ (rpc' = rpc \/ rpc' = [rpc EXCEPT ![c] = "read"])
    BY <1>2 DEF Client, Arrive, ClientLeaves, PushOK, HandlerRuns, Upgrade, Track, PushFail,
                EndOfPass, Timer, ReaderGone, Shut, Untrack, Uncount, readVars
  <2>2. \A d \in Conns : rpc'[d] = "callback" => rpc[d] = "callback"
    BY <1>1, <2>1
  <2> QED
    BY <2>1, <2>2, LockKept
<1>3. ASSUME NEW c \in Conns, ReadSubmit(c) \/ ReadIgnored(c) \/ ReadFail(c) \/ AddSubmission(c)
      PROVE  LockInv'
  <2>1. cbMu' = cbMu
    BY <1>3 DEF ReadSubmit, ReadIgnored, ReadFail, AddSubmission
  <2>2. \A d \in Conns : rpc'[d] = "callback" => rpc[d] = "callback"
    BY <1>1, <1>3 DEF ReadSubmit, ReadIgnored, ReadFail, AddSubmission
  <2> QED
    BY <2>1, <2>2, LockKept
<1>4. ASSUME NEW c \in Conns, CallbackBegin(c) PROVE LockInv'
  <2>1. cbMu = None /\ cbMu' = c /\ rpc' = [rpc EXCEPT ![c] = "callback"]
    BY <1>4 DEF CallbackBegin
  <2>2. \A d \in Conns : rpc[d] # "callback"
    BY <2>1, ServerAssumption DEF LockInv
  <2> QED
    BY <1>1, <2>1, <2>2 DEF LockInv
<1>5. ASSUME NEW c \in Conns, CallbackEnd(c) PROVE LockInv'
  <2>1. rpc[c] = "callback" /\ rpc' = [rpc EXCEPT ![c] = "read"]
    BY <1>5 DEF CallbackEnd
  <2>2. \A d \in Conns \ {c} : rpc[d] # "callback"
    BY <2>1 DEF LockInv
  <2> QED
    BY <1>1, <2>1, <2>2 DEF LockInv
<1>6. ASSUME NEW k \in Closers, Closer(k) PROVE LockInv'
  BY <1>6, LockKept DEF Closer, CloseBegin, CloseConn, CloseWait, SrvClose, SrvWait, readVars
<1>7. CASE UNCHANGED vars
  BY <1>7, LockKept DEF vars, readVars
<1> QED
  BY <1>2, <1>3, <1>4, <1>5, <1>6, <1>7 DEF Next, Reader

\* addSubmission's two locks keep the order of a connection: OnSubmit is called
\* once for each recorded submission, after it is recorded and in its order,
\* however many readers overtake each other between mu and cbMu; and cbMu keeps
\* any two calls apart.
THEOREM CallbacksAreOrdered == Spec => []CallbacksFollowSubmissions
<1>1. ASSUME FInv, OrderInv, NEW c \in Conns
      PROVE  IsPrefix(Of(called, c), Of(submissions, c))
  <2> DEFINE A == Of(called, c)
             B == Of(submissions, c)
  <2>1. A \in Seq(Submission) /\ B \in Seq(Submission)
    BY <1>1, OfType DEF FInv, ServerTypeOK
  <2>2. \/ A = B
        \/ B = Append(A, [conn |-> c, n |-> frames[c]])
        \/ A = <<>>
    BY <1>1 DEF OrderInv
  <2> HIDE DEF A, B
  <2>3. [conn |-> c, n |-> frames[c]] \in Submission
    BY <1>1 DEF FInv, ServerTypeOK, Submission
  <2>4. Len(A) \in Nat /\ Len(B) \in Nat
    BY <2>1
  <2>5. /\ Len(A) <= Len(B)
        /\ \A i \in 1..Len(A) : A[i] = B[i]
    BY <2>1, <2>2, <2>3
  <2>6. SubSeq(A, 1, Len(A)) = SubSeq(B, 1, Len(A))
    BY <2>1, <2>4, <2>5
  <2> QED
    BY <2>5, <2>6 DEF IsPrefix, A, B
<1>2. LockInv => \A c, d \in Conns : rpc[c] = "callback" /\ rpc[d] = "callback" => c = d
  BY DEF LockInv
<1>3. FInv /\ OrderInv /\ LockInv => CallbacksFollowSubmissions
  BY <1>1, <1>2 DEF CallbacksFollowSubmissions
<1> QED
  BY ServerInvariant, OrderInit, OrderStep, LockInit, LockStep, <1>3, PTL DEF Spec

=============================================================================
