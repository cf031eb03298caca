-------------------------- MODULE BenchDaemonProofs --------------------------
(***************************************************************************)
(* Theorems about BenchDaemon, for any set of connections and any number   *)
(* of jobs and submissions.                                                *)
(***************************************************************************)
EXTENDS BenchDaemon, FiniteSetTheorems, TLAPS

(* The invariant.  A handler's job is newer than all it has written before; *)
(* current is the last one written, or between the write and the store the  *)
(* one before; finitely many submissions are in hands.                     *)
PushInvOf(c) ==
    /\ hpc[c] = "write" => pushing[c] # 0 /\ \A j \in sent[c] : j < pushing[c]
    /\ hpc[c] = "store" => /\ pushing[c] \in sent[c] /\ IsLatest(c, pushing[c])
                           /\ IsPrevious(c, current[c])
    /\ hpc[c] # "store" => IsLatest(c, current[c])

PushInv == current \in [Conns -> 0..height] /\ \A c \in Conns : PushInvOf(c)

CountInv == IsFiniteSet(InHands) /\ SubmitsAccounted

BInv == DaemonTypeOK /\ PushInv /\ CountInv /\ VerdictsLagOneJob

\* The half of the type invariant that the pushers are about, and the readers'.
PushTypes ==
    /\ hpc \in [Conns -> {"none", "tick", "write", "store", "gone"}]
    /\ height \in Nat
    /\ pushing \in [Conns -> 0..height]
    /\ sent \in [Conns -> SUBSET (1..height)]
    /\ \A c \in Conns : current[c] \in sent[c] \cup {0}
    /\ jobsSent \in Nat

ReadTypes ==
    /\ reading \in [Conns -> {Nothing, Garbage} \cup 0..height]
    /\ readerUp \in [Conns -> BOOLEAN]
    /\ submits \in Nat /\ stale \in Nat /\ badJSON \in Nat
    /\ fresh \in Nat /\ wrong \in Nat

\* The type invariant has a half for the handlers and one for the readers.
LEMMA Halves == DaemonTypeOK <=> PushTypes /\ ReadTypes
  BY DEF DaemonTypeOK, PushTypes, ReadTypes

\* A step of others leaves a connection as it is.
LEMMA OthersKeep ==
    ASSUME NEW c \in Conns, PushInvOf(c), hpc'[c] = hpc[c], pushing'[c] = pushing[c],
           sent'[c] = sent[c], current'[c] = current[c]
    PROVE  PushInvOf(c)'
  BY DEF PushInvOf, IsLatest, IsPrevious

-----------------------------------------------------------------------------
\* The invariant holds before anything connects.
THEOREM DaemonInit == Init => BInv
<1> SUFFICES ASSUME Init PROVE BInv
  OBVIOUS
<1> USE DEF Init
<1>1. DaemonTypeOK
  BY DEF DaemonTypeOK, Nothing
<1>2. PushInv
  BY DEF PushInv, PushInvOf, IsLatest
<1>3. CountInv
  <2>1. InHands = {}
    BY DEF InHands
  <2>2. IsFiniteSet(InHands) /\ Cardinality(InHands) = 0
    BY <2>1, FS_EmptySet
  <2> QED
    BY <2>2 DEF CountInv, SubmitsAccounted
<1> QED
  BY <1>1, <1>2, <1>3 DEF BInv, VerdictsLagOneJob

-----------------------------------------------------------------------------
(* The pusher leaves the reader's variables alone.                         *)
LEMMA PushersDoNotCount ==
    ASSUME BInv, UNCHANGED readVars
    PROVE  CountInv' /\ VerdictsLagOneJob'
<1>1. InHands' = InHands
  BY DEF InHands, readVars
<1> QED
  BY <1>1 DEF BInv, CountInv, SubmitsAccounted, VerdictsLagOneJob, readVars

\* ... and Upgrade only starts a reader.
LEMMA UpgradeKeeps == ASSUME BInv, NEW c \in Conns, Upgrade(c) PROVE BInv'
<1> USE DEF Upgrade
<1>1. DaemonTypeOK'
  BY DEF BInv, DaemonTypeOK
<1>2. PushInv'
  BY DEF BInv, DaemonTypeOK, PushInv, PushInvOf, IsLatest, IsPrevious
<1>3. InHands' = InHands
  BY DEF InHands
<1> QED
  BY <1>1, <1>2, <1>3 DEF BInv, CountInv, SubmitsAccounted, VerdictsLagOneJob

\* Taking the next height for a job (handle, before its write).
LEMMA MintKeeps == ASSUME BInv, NEW c \in Conns, Mint(c) PROVE BInv'
<1>1. PushTypes /\ ReadTypes /\ PushInv
  BY Halves DEF BInv
<1>2. height' = height + 1 /\ height \in Nat
  BY <1>1 DEF Mint, PushTypes
<1>3. /\ pushing' = [pushing EXCEPT ![c] = height'] /\ hpc' = [hpc EXCEPT ![c] = "write"]
      /\ sent' = sent /\ current' = current /\ jobsSent' = jobsSent
  BY DEF Mint
<1>4. 0..height \subseteq 0..height' /\ 1..height \subseteq 1..height' /\ height' \in 0..height'
      /\ height' # 0
  BY <1>2
<1>5. PushTypes'
  <2>1. pushing' \in [Conns -> 0..height']
    BY <1>1, <1>3, <1>4 DEF PushTypes
  <2>2. sent' \in [Conns -> SUBSET (1..height')]
    BY <1>1, <1>3, <1>4 DEF PushTypes
  <2> QED
    BY <1>1, <1>2, <1>3, <2>1, <2>2 DEF PushTypes
<1>6. ReadTypes'
  <2>1. reading' \in [Conns -> {Nothing, Garbage} \cup 0..height']
    BY <1>1, <1>4 DEF Mint, readVars, ReadTypes
  <2> QED
    BY <1>1, <2>1 DEF Mint, readVars, ReadTypes
<1>7. PushInv'
  <2>1. current' \in [Conns -> 0..height']
    BY <1>1, <1>3, <1>4 DEF PushInv
  <2>2. \A j \in sent[c] : j < height'
    BY <1>1, <1>2 DEF PushTypes
  <2>3. ASSUME NEW d \in Conns PROVE PushInvOf(d)'
    <3>1. CASE d = c
      <4>1. /\ hpc'[c] = "write" /\ pushing'[c] = height' /\ hpc[c] = "tick"
            /\ sent'[c] = sent[c] /\ current'[c] = current[c]
        BY <1>1, <1>3 DEF PushTypes, Mint
      <4> QED
        BY <1>1, <1>4, <2>2, <3>1, <4>1 DEF PushInv, PushInvOf, IsLatest
    <3>2. CASE d # c
      <4>1. UNCHANGED <<hpc[d], pushing[d], sent[d], current[d]>>
        BY <1>1, <1>3, <3>2 DEF PushTypes
      <4> QED
        BY <1>1, <4>1, OthersKeep DEF PushInv
    <3> QED
      BY <3>1, <3>2
  <2> QED
    BY <2>1, <2>3 DEF PushInv
<1>8. CountInv' /\ VerdictsLagOneJob'
  BY PushersDoNotCount DEF Mint
<1> QED
  BY <1>5, <1>6, <1>7, <1>8 DEF BInv, DaemonTypeOK, PushTypes, ReadTypes

\* A job written to its connection: from now on it may be answered.
LEMMA WriteKeeps == ASSUME BInv, NEW c \in Conns, Write(c) PROVE BInv'
<1> USE DEF Write
<1>1. PushTypes /\ ReadTypes /\ PushInv
  BY Halves DEF BInv
<1>2. pushing[c] \in 1..height
  BY <1>1 DEF PushTypes, PushInv, PushInvOf
<1>3. PushTypes'
  BY <1>1, <1>2 DEF PushTypes
<1>4. ReadTypes'
  BY <1>1 DEF readVars, ReadTypes
<1>5. PushInv'
  <2> DEFINE p == pushing[c]
             cur == current[c]
  <2>1. /\ \A j \in sent[c] : j < p /\ j \in Int
        /\ cur \in sent[c] \cup {0} /\ \A j \in sent[c] : j <= cur
    BY <1>1 DEF PushInv, PushInvOf, PushTypes, IsLatest
  <2>2. /\ sent'[c] = sent[c] \cup {p} /\ pushing'[c] = p /\ current'[c] = cur
        /\ hpc'[c] = "store" /\ p \in Int /\ p > 0
    BY <1>1, <1>2 DEF PushTypes
  <2>3. p \in sent'[c] /\ \A j \in sent'[c] : j <= p
    BY <2>1, <2>2
  <2>4. cur < p /\ \A j \in sent'[c] : j <= cur \/ j = p
    BY <2>1, <2>2
  <2>5. PushInvOf(c)'
    <3> HIDE DEF p, cur
    <3>1. pushing'[c] \in sent'[c] /\ IsLatest(c, pushing[c])'
      BY <2>2, <2>3 DEF IsLatest
    <3>2. IsPrevious(c, current[c])'
      BY <2>1, <2>2, <2>3, <2>4 DEF IsPrevious
    <3> QED
      BY <2>2, <3>1, <3>2 DEF PushInvOf
  <2>6. ASSUME NEW d \in Conns \ {c} PROVE PushInvOf(d)'
    <3>1. UNCHANGED <<hpc[d], pushing[d], sent[d], current[d]>>
      BY <1>1 DEF PushTypes
    <3> QED
      BY <1>1, <3>1, OthersKeep DEF PushInv
  <2> QED
    BY <1>1, <2>5, <2>6 DEF PushInv
<1>6. CountInv' /\ VerdictsLagOneJob'
  BY PushersDoNotCount
<1> QED
  BY <1>3, <1>4, <1>5, <1>6 DEF BInv, DaemonTypeOK, PushTypes, ReadTypes

\* A write that fails ends the handler; what it minted is nobody's job.
LEMMA WriteFailKeeps == ASSUME BInv, NEW c \in Conns, WriteFail(c) PROVE BInv'
<1> USE DEF WriteFail
<1>1. PushTypes /\ ReadTypes /\ PushInv
  BY Halves DEF BInv
<1>2. PushTypes' /\ ReadTypes'
  BY <1>1 DEF PushTypes, readVars, ReadTypes
<1>3. PushInv'
  BY <1>1 DEF PushInv, PushInvOf, PushTypes, IsLatest, IsPrevious
<1>4. CountInv' /\ VerdictsLagOneJob'
  BY PushersDoNotCount
<1> QED
  BY <1>2, <1>3, <1>4 DEF BInv, DaemonTypeOK, PushTypes, ReadTypes

\* The job just written becomes the connection's current one.
LEMMA StoreKeeps == ASSUME BInv, NEW c \in Conns, Store(c) PROVE BInv'
<1> USE DEF Store
<1>1. PushTypes /\ ReadTypes /\ PushInv
  BY Halves DEF BInv
<1>2. pushing[c] \in sent[c] /\ pushing[c] \in 0..height
  BY <1>1 DEF PushTypes, PushInv, PushInvOf
<1>3. PushTypes'
  <2>1. current \in [Conns -> 0..height]
    BY <1>1 DEF PushInv
  <2> QED
    BY <1>1, <1>2, <2>1 DEF PushTypes
<1>4. ReadTypes'
  BY <1>1 DEF readVars, ReadTypes
<1>5. PushInv'
  <2>1. current \in [Conns -> 0..height] /\ IsLatest(c, pushing[c])
    BY <1>1 DEF PushInv, PushInvOf
  <2>2. /\ current'[c] = pushing[c] /\ hpc'[c] \in {"tick", "gone"} /\ sent'[c] = sent[c]
        /\ current' \in [Conns -> 0..height'] /\ height' = height
    BY <1>1, <1>2, <2>1 DEF PushTypes
  <2>3. PushInvOf(c)'
    BY <2>1, <2>2 DEF PushInvOf, IsLatest
  <2>4. ASSUME NEW d \in Conns \ {c} PROVE PushInvOf(d)'
    <3>1. UNCHANGED <<hpc[d], pushing[d], sent[d], current[d]>>
      BY <1>1, <2>1 DEF PushTypes
    <3> QED
      BY <1>1, <3>1, OthersKeep DEF PushInv
  <2> QED
    BY <2>2, <2>3, <2>4 DEF PushInv
<1>6. CountInv' /\ VerdictsLagOneJob'
  BY PushersDoNotCount
<1> QED
  BY <1>3, <1>4, <1>5, <1>6 DEF BInv, DaemonTypeOK, PushTypes, ReadTypes

-----------------------------------------------------------------------------
(* The reader leaves the pusher's variables alone.                         *)
LEMMA ReadersDoNotPush ==
    ASSUME BInv, UNCHANGED pushVars
    PROVE  PushTypes' /\ PushInv'
  BY Halves DEF BInv, PushTypes, PushInv, PushInvOf, IsLatest, IsPrevious, pushVars

\* A read that fails ends the reader, which holds no submission then.
LEMMA ReadFailKeeps == ASSUME BInv, NEW c \in Conns, ReadFail(c) PROVE BInv'
<1> USE DEF ReadFail
<1>1. PushTypes' /\ PushInv'
  BY ReadersDoNotPush
<1>2. ReadTypes'
  BY Halves DEF BInv, ReadTypes, pushVars
<1>3. InHands' = InHands
  BY DEF InHands
<1>4. CountInv' /\ VerdictsLagOneJob'
  BY <1>3 DEF BInv, CountInv, SubmitsAccounted, VerdictsLagOneJob
<1> QED
  BY <1>1, <1>2, <1>4 DEF BInv, DaemonTypeOK, PushTypes, ReadTypes

\* What a miner can send: nonsense, or a job it has been written.
LEMMA MessagesAre == BInv => Messages \subseteq {Garbage} \cup 0..height
<1> SUFFICES ASSUME BInv, NEW m \in Messages PROVE m \in {Garbage} \cup 0..height
  OBVIOUS
<1>1. PushTypes
  BY Halves DEF BInv
<1>2. CASE m \in {0, Garbage}
  BY <1>1, <1>2 DEF PushTypes
<1>3. CASE \E c \in Conns : m \in sent[c]
  BY <1>1, <1>3 DEF PushTypes
<1>4. m \in {0, Garbage} \/ \E c \in Conns : m \in sent[c]
  <2>1. m \in UNION {sent[c] : c \in Conns} \/ m \in {0, Garbage}
    BY DEF Messages
  <2> QED
    BY <2>1, Zenon
<1> QED
  BY <1>2, <1>3, <1>4

\* A submission that is read joins those in hands.
LEMMA ReadKeeps ==
    ASSUME BInv, NEW c \in Conns, NEW m \in Messages, Read(c, m)
    PROVE  BInv'
<1>1. PushTypes' /\ PushInv'
  BY ReadersDoNotPush DEF Read
<1>2. PushTypes /\ ReadTypes /\ height' = height
  BY Halves DEF BInv, Read, pushVars
<1>3. m \in {Garbage} \cup 0..height /\ m # Nothing
  <2>1. m \in {Garbage} \cup 0..height
    BY MessagesAre
  <2> QED
    BY <2>1, <1>2 DEF Garbage, Nothing, PushTypes
<1>4. ReadTypes'
  BY <1>2, <1>3 DEF Read, ReadTypes
<1>5. c \notin InHands /\ InHands' = InHands \cup {c}
  BY <1>2, <1>3 DEF Read, InHands, ReadTypes
<1>6. IsFiniteSet(InHands') /\ Cardinality(InHands') = Cardinality(InHands) + 1
      /\ Cardinality(InHands) \in Nat
  BY <1>5, FS_AddElement, FS_CardinalityType DEF BInv, CountInv
<1>7. submits' = submits + 1 /\ UNCHANGED <<stale, badJSON, fresh, wrong>>
  BY DEF Read
<1>8. SubmitsAccounted'
  BY <1>2, <1>6, <1>7 DEF BInv, CountInv, SubmitsAccounted, ReadTypes
<1>9. CountInv' /\ VerdictsLagOneJob'
  BY <1>6, <1>7, <1>8 DEF BInv, CountInv, VerdictsLagOneJob
<1> QED
  BY <1>1, <1>4, <1>9 DEF BInv, DaemonTypeOK, PushTypes, ReadTypes

\* A judgement takes one out of them and counts it once.
LEMMA JudgeKeeps == ASSUME BInv, NEW c \in Conns, Judge(c) PROVE BInv'
<1>1. PushTypes' /\ PushInv'
  BY ReadersDoNotPush DEF Judge
<1>2. PushTypes /\ ReadTypes /\ height' = height
  BY Halves DEF BInv, Judge, pushVars
<1>3. /\ submits' = submits /\ readerUp' = readerUp
      /\ reading' = [reading EXCEPT ![c] = Nothing] /\ reading[c] # Nothing
  BY DEF Judge
<1>4. \/ badJSON' = badJSON + 1 /\ UNCHANGED <<stale, fresh>>
      \/ stale' = stale + 1 /\ UNCHANGED <<badJSON, fresh>>
      \/ fresh' = fresh + 1 /\ UNCHANGED <<badJSON, stale>>
  BY DEF Judge
<1>5. wrong' = wrong
  <2> DEFINE m == reading[c]
  <2>1. /\ hpc[c] = "store" => IsPrevious(c, current[c])
        /\ hpc[c] # "store" => IsLatest(c, current[c])
    BY DEF BInv, PushInv, PushInvOf
  <2>2. IsLatest(c, m) /\ IsLatest(c, current[c]) => m = current[c]
    BY <1>2 DEF IsLatest, PushTypes
  <2> QED
    BY <2>1, <2>2 DEF Judge
<1>6. ReadTypes'
  BY <1>2, <1>3, <1>4, <1>5 DEF ReadTypes
<1>7. c \in InHands /\ InHands' = InHands \ {c}
  BY <1>2, <1>3 DEF InHands, ReadTypes
<1>8. IsFiniteSet(InHands') /\ Cardinality(InHands') = Cardinality(InHands) - 1
      /\ Cardinality(InHands) \in Nat
  BY <1>7, FS_RemoveElement, FS_CardinalityType DEF BInv, CountInv
<1>9. SubmitsAccounted'
  BY <1>2, <1>3, <1>4, <1>8 DEF BInv, CountInv, SubmitsAccounted, ReadTypes
<1>10. CountInv' /\ VerdictsLagOneJob'
  BY <1>5, <1>8, <1>9 DEF BInv, CountInv, VerdictsLagOneJob
<1> QED
  BY <1>1, <1>6, <1>10 DEF BInv, DaemonTypeOK, PushTypes, ReadTypes

-----------------------------------------------------------------------------
\* Every step of the daemon and of its miners keeps the invariant.
THEOREM DaemonStep == BInv /\ [Next]_vars => BInv'
<1> SUFFICES ASSUME BInv, [Next]_vars PROVE BInv'
  OBVIOUS
<1>1. ASSUME NEW c \in Conns, Upgrade(c) \/ Mint(c) \/ Write(c) \/ WriteFail(c) \/ Store(c)
      PROVE  BInv'
  BY <1>1, UpgradeKeeps, MintKeeps, WriteKeeps, WriteFailKeeps, StoreKeeps
<1>2. ASSUME NEW c \in Conns, ReadFail(c) \/ Judge(c) \/ \E m \in Messages : Read(c, m)
      PROVE  BInv'
  BY <1>2, ReadFailKeeps, JudgeKeeps, ReadKeeps
<1>3. CASE UNCHANGED vars
  BY <1>3 DEF vars, BInv, DaemonTypeOK, PushInv, PushInvOf, IsLatest, IsPrevious,
              CountInv, SubmitsAccounted, InHands, VerdictsLagOneJob
<1> QED
  BY <1>1, <1>2, <1>3 DEF Next

\* The inductive invariant of the daemon.
THEOREM DaemonInvariant == Spec => []BInv
  BY DaemonInit, DaemonStep, PTL DEF Spec

\* Every variable keeps its type, and a connection's current job is always one it
\* has been sent (tools/fakegetwork/main.go, handle).
THEOREM DaemonTypeCorrect == Spec => []DaemonTypeOK
<1>1. BInv => DaemonTypeOK
  BY DEF BInv
<1> QED
  BY <1>1, DaemonInvariant, PTL

\* Every submission is judged exactly once, for any number of connections
\* (tools/fakegetwork/main.go, the reader in handle).
THEOREM EverySubmissionIsCounted == Spec => []SubmitsAccounted
<1>1. BInv => SubmitsAccounted
  BY DEF BInv, CountInv
<1> QED
  BY <1>1, DaemonInvariant, PTL

\* A submission counts as live exactly when it is for the job last written to its
\* own connection, but for a lag of one job between that write and its store, for
\* any number of sessions and jobs (tools/fakegetwork/main.go, the comparison with
\* current).
THEOREM VerdictsAreOfTheSession == Spec => []VerdictsLagOneJob
<1>1. BInv => VerdictsLagOneJob
  BY DEF BInv
<1> QED
  BY <1>1, DaemonInvariant, PTL

=============================================================================
