------------------------------ MODULE StatusRow ------------------------------
(***************************************************************************)
(* The live row of the CLI on a terminal: statusLoop and OnJob of main.go, *)
(* throttledLogf, Console.Logf (which erases the row) and Console.Status   *)
(* (which paints it), with the client's log lines around them.             *)
(*                                                                         *)
(* What is on the screen is `row`: whether a status row is the last thing  *)
(* written.  Time counts only for the throttle, so it is kept as `age`,    *)
(* the seconds since the last forwarded rejection, up to Interval.  The    *)
(* number of suppressed repeats only changes the text of a line and is     *)
(* left out.                                                               *)
(***************************************************************************)
EXTENDS Integers

CONSTANT Interval    \* the throttle's interval, in seconds

ASSUME IntervalAssumption == Interval \in Nat

VARIABLES cst,         \* the client's goroutine
          served,      \* jobs > 0 in this session
          Connected,   \* Client.Connected
          active,      \* State.Active()
          everJob,     \* State.Epoch() > 0
          row,         \* a status row is on the screen
          lastMsg, age,   \* throttledLogf
          spc,         \* statusLoop: "wait", "active", "epoch", "paint"
          skipped      \* history: the last tick suppressed the row

clientVars == <<cst, served, Connected, active, everJob>>
throttleVars == <<lastMsg, age>>
loopVars == <<spc, skipped>>
vars == <<clientVars, throttleVars, loopVars, row>>

Messages == {"bad version", "non-job frame"}

Init ==
    /\ cst = "redial" /\ served = FALSE
    /\ Connected = FALSE /\ active = FALSE /\ everJob = FALSE
    /\ row = FALSE
    /\ lastMsg = "" /\ age = Interval
    /\ spc = "wait" /\ skipped = FALSE

-----------------------------------------------------------------------------
\* Console.Logf clears the row before the line.
Logf == row' = FALSE

\* A variant of Throttled (below) that restarts the interval on every repeat.
ThrottledRestarts(msg) ==
    IF msg = lastMsg /\ age < Interval
      THEN age' = 0 /\ UNCHANGED <<row, lastMsg>>
      ELSE Logf /\ lastMsg' = msg /\ age' = 0

\* throttledLogf: a repeat inside the interval writes nothing.
Throttled(msg) ==
    IF msg = lastMsg /\ age < Interval
      THEN UNCHANGED <<row, throttleVars>>
      ELSE Logf /\ lastMsg' = msg /\ age' = 0

-----------------------------------------------------------------------------
(* The client: Run, connectAndServe and OnJob.                             *)

LogConnecting ==
    /\ cst = "redial" /\ cst' = "dial"
    /\ Logf
    /\ UNCHANGED <<served, Connected, active, everJob, throttleVars, loopVars>>

DialFail ==
    /\ cst = "dial" /\ cst' = "redial"
    /\ Logf        \* "Connection failed", "Retrying"
    /\ UNCHANGED <<served, Connected, active, everJob, throttleVars, loopVars>>

DialOK ==
    /\ cst = "dial" /\ cst' = "connected"
    /\ Connected' = TRUE
    /\ UNCHANGED <<served, active, everJob, throttleVars, loopVars, row>>

LogConnected ==
    /\ cst = "connected" /\ cst' = "up"
    /\ Logf
    /\ UNCHANGED <<served, Connected, active, everJob, throttleVars, loopVars>>

GoodPush ==
    /\ cst = "up"
    /\ active' = TRUE /\ everJob' = TRUE /\ served' = TRUE
    /\ UNCHANGED <<cst, Connected, throttleVars, loopVars, row>>

\* A frame that is not a job: one throttled line.
Keepalive ==
    /\ cst = "up"
    /\ Throttled("non-job frame")
    /\ UNCHANGED <<clientVars, loopVars>>

\* A wrong version: Invalidate, ...
BadVersion ==
    /\ cst = "up" /\ cst' = "reject"
    /\ active' = FALSE
    /\ UNCHANGED <<served, Connected, everJob, throttleVars, loopVars, row>>

\* ... then one throttled line.
RejectLog ==
    /\ cst = "reject" /\ cst' = "up"
    /\ Throttled("bad version")
    /\ UNCHANGED <<served, Connected, active, everJob, loopVars>>

\* The session ends (an error, or the read deadline): Connected.Store(false), ...
Disconnect ==
    /\ cst = "up" /\ cst' = "invalidate"
    /\ Connected' = FALSE
    /\ UNCHANGED <<served, active, everJob, throttleVars, loopVars, row>>

\* ... OnDisconnect, ...
OnDisconnect ==
    /\ cst = "invalidate" /\ cst' = "ended"
    /\ active' = FALSE
    /\ UNCHANGED <<served, Connected, everJob, throttleVars, loopVars, row>>

\* ... and Run: redial at once if jobs came, or log "Retrying" and wait.
EndSession ==
    /\ cst = "ended" /\ cst' = "redial"
    /\ served' = FALSE
    /\ IF served THEN UNCHANGED row ELSE Logf
    /\ UNCHANGED <<Connected, active, everJob, throttleVars, loopVars>>

Second ==
    /\ age < Interval /\ age' = age + 1
    /\ UNCHANGED <<clientVars, lastMsg, loopVars, row>>

-----------------------------------------------------------------------------
(* statusLoop: one tick is three atomic reads and then the row.            *)

Skip == spc' = "wait" /\ skipped' = TRUE

TickConnected ==
    /\ spc = "wait"
    /\ IF Connected THEN spc' = "active" /\ UNCHANGED skipped ELSE Skip
    /\ UNCHANGED <<clientVars, throttleVars, row>>

TickActive ==
    /\ spc = "active"
    /\ IF active THEN spc' = "epoch" /\ UNCHANGED skipped ELSE Skip
    /\ UNCHANGED <<clientVars, throttleVars, row>>

TickEpoch ==
    /\ spc = "epoch"
    /\ IF everJob THEN spc' = "paint" /\ UNCHANGED skipped ELSE Skip
    /\ UNCHANGED <<clientVars, throttleVars, row>>

\* Console.Status.  The link may have died since the reads.
Paint ==
    /\ spc = "paint" /\ spc' = "wait"
    /\ skipped' = FALSE
    /\ row' = TRUE
    /\ UNCHANGED <<clientVars, throttleVars>>

\* Steps the client takes by itself: a dial ends with the handshake timeout at
\* the latest, a session that hears nothing with the read timeout.
ClientRuns ==
    \/ LogConnecting \/ DialFail \/ DialOK \/ LogConnected \/ RejectLog
    \/ OnDisconnect \/ EndSession

ReadReturns == GoodPush \/ Keepalive \/ BadVersion \/ Disconnect

StatusLoop == TickConnected \/ TickActive \/ TickEpoch \/ Paint

Next == ClientRuns \/ ReadReturns \/ Second \/ StatusLoop

Spec == Init /\ [][Next]_vars

FairSpec ==
    /\ Spec
    /\ WF_vars(ClientRuns) /\ WF_vars(ReadReturns)
    /\ WF_vars(Second) /\ WF_vars(StatusLoop)

-----------------------------------------------------------------------------
\* A stale row does not stay: without a live job it is erased by some log line,
\* however long the daemon keeps repeating frames the throttle suppresses.
StaleRowGoes == (row /\ ~active) ~> (~row \/ active)

\* statusRowHasSomethingToSay's comment: suppressing is enough "because the
\* transitions are already logged ... so a log line erases whatever row is on
\* screen instead of leaving a stale one behind".  At a tick that suppresses
\* the row, while the client waits for its next frame, none is on the screen.
SuppressedRowIsGone == skipped /\ spc = "wait" /\ cst = "up" /\ ~active => ~row

=============================================================================
