----------------------------- MODULE ShareRelay -----------------------------
(***************************************************************************)
(* What the miner promises the daemon, with nothing of how it keeps it.    *)
(* Epochs are numbered as they begin; each either publishes work of the    *)
(* current session or withdraws it.  A share is written only to the        *)
(* session that published its work, names that work, and is never older    *)
(* than a share written before it.                                         *)
(***************************************************************************)
EXTENDS Integers, Sequences

CONSTANTS Work, NoWork

VARIABLES history,   \* for each epoch, its work and its session
          session,   \* sessions so far
          wire       \* shares written

rvars == <<history, session, wire>>

RInit == history = <<>> /\ session = 0 /\ wire = {}

Connect == session' = session + 1 /\ UNCHANGED <<history, wire>>

Begin(w) ==
    /\ history' = Append(history, [work |-> w, session |-> session])
    /\ UNCHANGED <<session, wire>>

Deliver(e) ==
    /\ history[e].session = session
    /\ history[e].work # NoWork
    /\ \A r \in wire : r.share.epoch <= e
    /\ wire' = wire \cup {[share |-> [work |-> history[e].work, epoch |-> e],
                           session |-> session]}
    /\ UNCHANGED <<history, session>>

RNext ==
    \/ Connect
    \/ \E w \in Work \cup {NoWork} : Begin(w)
    \/ \E e \in 1..Len(history) : Deliver(e)

RSpec == RInit /\ [][RNext]_rvars

=============================================================================
