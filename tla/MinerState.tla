----------------------------- MODULE MinerState -----------------------------
(***************************************************************************)
(* The shared job snapshot of internal/miner/state.go.                     *)
(*                                                                         *)
(* State.mu guards blob, jobid and target; epoch and active are atomics    *)
(* that workers and the socket writer read without the lock.  blob, jobid  *)
(* and target are one value here, `job`: SetJob compares all three and     *)
(* writes all three, so only "the same work" and "other work" matter.      *)
(*                                                                         *)
(* SetJob and Invalidate are only called from the getwork client's own     *)
(* goroutine (OnJob and OnDisconnect), so one program counter, spc, is     *)
(* enough for the call in progress.  Each is split at every point where a  *)
(* reader of the atomics can see a half-done call.                         *)
(***************************************************************************)
EXTENDS Integers, Sequences

CONSTANTS Work,      \* what a valid push asks for: (blob, jobid, target)
          NoWork     \* the zero blob of a State nobody has written yet

ASSUME WorkAssumption == NoWork \notin Work

VARIABLES mu,        \* State.mu is held by the call in progress
          job,       \* State.blob, State.jobid, State.target
          epoch,     \* State.epoch
          active,    \* State.active
          mirror,    \* Height, Diff, Blocks, MiniBlocks, Rejected: the push they show
          spc,       \* what is left of the SetJob or Invalidate in progress
          arg,       \* the work SetJob was called with
          installed  \* history: for each epoch, its work and its session

stateVars == <<mu, job, epoch, active, mirror, spc, arg, installed>>

-----------------------------------------------------------------------------
(* A pushed frame, by what SetJob's validation tells apart.                *)

Errors == {"ErrBadBlob", "ErrBadJobID", "ErrBadVersion", "ErrBadDiff"}

Push == [blobOK: BOOLEAN, jobidOK: BOOLEAN, versionOK: BOOLEAN,
         diffOK: BOOLEAN, work: Work]

\* The first check that fails decides the error: a frame that is not a job at
\* all (short blob) is never reported as a version problem.
Validate(p) ==
    IF ~p.blobOK THEN "ErrBadBlob"
    ELSE IF ~p.jobidOK THEN "ErrBadJobID"
    ELSE IF ~p.versionOK THEN "ErrBadVersion"
    ELSE IF ~p.diffOK THEN "ErrBadDiff"
    ELSE "ok"

-----------------------------------------------------------------------------
StateTypeOK ==
    /\ mu \in BOOLEAN
    /\ job \in Work \cup {NoWork}
    /\ epoch \in Nat
    /\ active \in BOOLEAN
    /\ mirror \in Work \cup {NoWork}
    /\ spc \in {"idle", "bump", "activate", "mirror", "invbump"}
    /\ arg \in Work \cup {NoWork}
    /\ installed \in Seq([work: Work \cup {NoWork}, session: Nat])

StateInit ==
    /\ mu = FALSE
    /\ job = NoWork
    /\ epoch = 0
    /\ active = FALSE
    /\ mirror = NoWork
    /\ spc = "idle"
    /\ arg = NoWork
    /\ installed = <<>>

\* A variant of SetJobWrite (below) that forgets that an inactive State always
\* counts as changed.
SetJobWriteSameWorkUnchanged(w) ==
    /\ spc = "idle"
    /\ ~mu
    /\ mu' = TRUE
    /\ arg' = w
    /\ IF w # job
         THEN job' = w /\ spc' = "bump"
         ELSE job' = job /\ spc' = "activate"
    /\ UNCHANGED <<epoch, active, mirror, installed>>

\* SetJob, called with a frame that passed validation: lock; if the work
\* changed, write the snapshot.  An inactive State counts as changed even when
\* the same work comes back.
SetJobWrite(w) ==
    /\ spc = "idle"
    /\ ~mu
    /\ mu' = TRUE
    /\ arg' = w
    /\ IF ~active \/ w # job
         THEN job' = w /\ spc' = "bump"
         ELSE job' = job /\ spc' = "activate"
    /\ UNCHANGED <<epoch, active, mirror, installed>>

\* epoch.Add(1), in the session that delivered the work.
SetJobBump(session) ==
    /\ spc = "bump"
    /\ epoch' = epoch + 1
    /\ installed' = Append(installed, [work |-> job, session |-> session])
    /\ spc' = "activate"
    /\ UNCHANGED <<mu, job, active, mirror, arg>>

\* active.Store(true) and unlock.
SetJobActivate ==
    /\ spc = "activate"
    /\ active' = TRUE
    /\ mu' = FALSE
    /\ spc' = "mirror"
    /\ UNCHANGED <<job, epoch, mirror, arg, installed>>

\* The five counters the daemon reports, stored after the unlock.  No actor of
\* the pipeline reads them, so the five stores are one step here; EngineStats
\* takes them one by one.
SetJobMirror ==
    /\ spc = "mirror"
    /\ mirror' = arg
    /\ arg' = NoWork
    /\ spc' = "idle"
    /\ UNCHANGED <<mu, job, epoch, active, installed>>

\* Invalidate: lock and active.Swap(false); the epoch moves only if there was
\* a live job.
InvalidateSwap ==
    /\ spc = "idle"
    /\ ~mu
    /\ active' = FALSE
    /\ IF active THEN mu' = TRUE /\ spc' = "invbump"
                 ELSE UNCHANGED <<mu, spc>>
    /\ UNCHANGED <<job, epoch, mirror, arg, installed>>

\* epoch.Add(1) and unlock.  No work belongs to the new epoch.
InvalidateBump(session) ==
    /\ spc = "invbump"
    /\ epoch' = epoch + 1
    /\ installed' = Append(installed, [work |-> NoWork, session |-> session])
    /\ mu' = FALSE
    /\ spc' = "idle"
    /\ UNCHANGED <<job, active, mirror, arg>>

\* A variant of CanSnapshot (below): Job() without the lock.
SnapshotWithoutLock == TRUE

\* Job() waits for the lock, then reads job and epoch together.
CanSnapshot == ~mu

=============================================================================
