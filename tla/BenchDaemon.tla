----------------------------- MODULE BenchDaemon -----------------------------
(***************************************************************************)
(* The measuring daemon of tools/fakegetwork/main.go: per connection a     *)
(* pusher (the handler) and a reader that counts submissions and calls     *)
(* some of them stale, and the counters loaded at shutdown.                *)
(*                                                                         *)
(* Job ids are numbers in the order they are minted; the code uses the     *)
(* nanosecond clock, which two connections do not read at the same instant *)
(* (pushes are half a second apart).  A miner may submit any job it has    *)
(* been sent, on this connection or on an earlier one, or no jobid at all. *)
(***************************************************************************)
EXTENDS Integers, FiniteSets

CONSTANTS Conns,        \* connections
          MaxJobs,      \* bound: jobs minted
          MaxSubmits    \* bound: submissions read

ASSUME DaemonAssumption == MaxJobs \in Nat /\ MaxSubmits \in Nat

VARIABLES hpc,          \* each handler: "none", "tick", "write", "store", "gone"
          height,       \* server.height, which numbers the jobs
          pushing,      \* the job a handler is pushing
          sent,         \* the jobs written to each connection
          current,      \* the handler's `current` (0: the empty string)
          reading,      \* what the reader holds between its counters: a jobid
          readerUp,     \* readerDone is not closed
          jobsSent, submits, stale, badJSON,   \* the server's counters
          fresh,        \* history: submissions found to be current
          wrong         \* history: verdicts the handler's own lag does not explain

vars == <<hpc, height, pushing, sent, current, reading, readerUp, jobsSent,
          submits, stale, badJSON, fresh, wrong>>

\* m is the job last written to connection c (0 before any), ...
IsLatest(c, m) ==
    /\ m \in sent[c] \cup {0}
    /\ \A j \in sent[c] : j <= m

\* ... or the one written before that.
IsPrevious(c, m) ==
    /\ m \in sent[c] \cup {0}
    /\ \E l \in sent[c] : m < l /\ \A j \in sent[c] : j <= m \/ j = l

Nothing == -1    \* the reader waits in ReadMessage
Garbage == -2    \* a message that is not JSON

\* Every variable has its type, and `current` is a job of its own connection.
DaemonTypeOK ==
    /\ hpc \in [Conns -> {"none", "tick", "write", "store", "gone"}]
    /\ height \in Nat
    /\ pushing \in [Conns -> 0..height]
    /\ sent \in [Conns -> SUBSET (1..height)]
    /\ \A c \in Conns : current[c] \in sent[c] \cup {0}
    /\ reading \in [Conns -> {Nothing, Garbage} \cup 0..height]
    /\ readerUp \in [Conns -> BOOLEAN]
    /\ jobsSent \in Nat /\ submits \in Nat /\ stale \in Nat /\ badJSON \in Nat
    /\ fresh \in Nat /\ wrong \in Nat

Init ==
    /\ hpc = [c \in Conns |-> "none"]
    /\ height = 0
    /\ pushing = [c \in Conns |-> 0]
    /\ sent = [c \in Conns |-> {}]
    /\ current = [c \in Conns |-> 0]
    /\ reading = [c \in Conns |-> Nothing]
    /\ readerUp = [c \in Conns |-> FALSE]
    /\ jobsSent = 0 /\ submits = 0 /\ stale = 0 /\ badJSON = 0
    /\ fresh = 0 /\ wrong = 0

readVars == <<reading, readerUp, submits, stale, badJSON, fresh, wrong>>
pushVars == <<hpc, height, pushing, sent, current, jobsSent>>

-----------------------------------------------------------------------------
(* handle: the pusher.                                                     *)

Upgrade(c) ==
    /\ hpc[c] = "none"
    /\ hpc' = [hpc EXCEPT ![c] = "tick"]
    /\ readerUp' = [readerUp EXCEPT ![c] = TRUE]
    /\ UNCHANGED <<height, pushing, sent, current, jobsSent, reading, submits,
                   stale, badJSON, fresh, wrong>>

\* A tick: take the next height under mu and build the job.
Mint(c) ==
    /\ hpc[c] = "tick" /\ height < MaxJobs
    /\ height' = height + 1
    /\ pushing' = [pushing EXCEPT ![c] = height']
    /\ hpc' = [hpc EXCEPT ![c] = "write"]
    /\ UNCHANGED <<sent, current, jobsSent, readVars>>

\* The write: the miner can have the job, and answer it, from here on ...
Write(c) ==
    /\ hpc[c] = "write"
    /\ sent' = [sent EXCEPT ![c] = @ \cup {pushing[c]}]
    /\ hpc' = [hpc EXCEPT ![c] = "store"]
    /\ UNCHANGED <<height, pushing, current, jobsSent, readVars>>

\* (a failed write ends the handler)
WriteFail(c) ==
    /\ hpc[c] = "write"
    /\ hpc' = [hpc EXCEPT ![c] = "gone"]
    /\ UNCHANGED <<height, pushing, sent, current, jobsSent, readVars>>

\* A variant of Store (below) with one `current` for the whole server.
StoreShared(c) ==
    /\ hpc[c] = "store"
    /\ jobsSent' = jobsSent + 1
    /\ current' = [d \in Conns |-> pushing[c]]
    /\ hpc' = [hpc EXCEPT ![c] = IF readerUp[c] THEN "tick" ELSE "gone"]
    /\ UNCHANGED <<height, pushing, sent, readVars>>

\* ... but `current` shows it only now.  Then look whether the reader is gone.
Store(c) ==
    /\ hpc[c] = "store"
    /\ jobsSent' = jobsSent + 1
    /\ current' = [current EXCEPT ![c] = pushing[c]]
    /\ hpc' = [hpc EXCEPT ![c] = IF readerUp[c] THEN "tick" ELSE "gone"]
    /\ UNCHANGED <<height, pushing, sent, readVars>>

-----------------------------------------------------------------------------
(* The reader.                                                             *)

\* ReadMessage fails: the miner is gone, or the handler closed the connection.
ReadFail(c) ==
    /\ readerUp[c] /\ reading[c] = Nothing
    /\ readerUp' = [readerUp EXCEPT ![c] = FALSE]
    /\ UNCHANGED <<pushVars, reading, submits, stale, badJSON, fresh, wrong>>

\* A message: submits.Add(1).
Read(c, m) ==
    /\ readerUp[c] /\ reading[c] = Nothing /\ submits < MaxSubmits
    /\ submits' = submits + 1
    /\ reading' = [reading EXCEPT ![c] = m]
    /\ UNCHANGED <<pushVars, readerUp, stale, badJSON, fresh, wrong>>

\* A variant of Judge (below): bad JSON falls through to the comparison.
JudgeFallsThrough(c) ==
    /\ reading[c] # Nothing
    /\ reading' = [reading EXCEPT ![c] = Nothing]
    /\ badJSON' = IF reading[c] = Garbage THEN badJSON + 1 ELSE badJSON
    /\ IF reading[c] # current[c]
         THEN stale' = stale + 1 /\ UNCHANGED fresh
         ELSE fresh' = fresh + 1 /\ UNCHANGED stale
    /\ UNCHANGED <<pushVars, readerUp, submits, wrong>>

\* Not JSON, a jobid this connection is not issuing, or the live one.
Judge(c) ==
    LET m == reading[c] IN
    /\ m # Nothing
    /\ reading' = [reading EXCEPT ![c] = Nothing]
    /\ \/ /\ m = Garbage
          /\ badJSON' = badJSON + 1
          /\ UNCHANGED <<stale, fresh, wrong>>
       \/ /\ m # Garbage /\ m # current[c]
          /\ stale' = stale + 1
          /\ wrong' = IF IsLatest(c, m) /\ hpc[c] # "store" THEN wrong + 1 ELSE wrong
          /\ UNCHANGED <<badJSON, fresh>>
       \/ /\ m # Garbage /\ m = current[c]
          /\ fresh' = fresh + 1
          /\ wrong' = IF IsLatest(c, m) \/ (IsPrevious(c, m) /\ hpc[c] = "store")
                      THEN wrong ELSE wrong + 1
          /\ UNCHANGED <<badJSON, stale>>
    /\ UNCHANGED <<pushVars, readerUp, submits>>

-----------------------------------------------------------------------------
\* What a miner may send: any job it was ever sent, an empty jobid, or garbage.
Messages == {0, Garbage} \cup UNION {sent[c] : c \in Conns}

Next ==
    \E c \in Conns :
        \/ Upgrade(c) \/ Mint(c) \/ Write(c) \/ WriteFail(c) \/ Store(c)
        \/ ReadFail(c) \/ Judge(c)
        \/ \E m \in Messages : Read(c, m)

Spec == Init /\ [][Next]_vars

-----------------------------------------------------------------------------
InHands == {c \in Conns : reading[c] # Nothing}

\* Every submission is judged exactly once.
SubmitsAccounted == submits = stale + badJSON + fresh + Cardinality(InHands)

\* A submission counts as live exactly when it is for the job last written to its
\* own connection: a share that survived a reconnect, or one for an older job, is
\* stale.  Only between the write of a job and its store as current does the
\* verdict lag, and then by one job: the new one is called stale, the one before
\* it live.
VerdictsLagOneJob == wrong = 0

=============================================================================
