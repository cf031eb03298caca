------------------------------ MODULE HostDial ------------------------------
(***************************************************************************)
(* dialContextDNSFallback and resolveHost of internal/getwork/dns.go, as   *)
(* the websocket dialer calls them: under a context that ends after the    *)
(* handshake timeout, or when the miner stops.                             *)
(*                                                                         *)
(* Time is whole seconds since the dial began.  What a resolver answers,   *)
(* what an address does and how long each takes is the environment's       *)
(* choice, within the deadline the code gives it.                          *)
(***************************************************************************)
EXTENDS Integers, Sequences

CONSTANT MaxAddrs    \* bound: addresses in an answer

ASSUME AddrsAssumption == MaxAddrs \in Nat \ {0}

VARIABLES pc,         \* "split", "resolve", "dial", "done"
          now,        \* seconds since the dial began
          cancelled,  \* the miner stops
          asked,      \* resolvers asked, each with the seconds it was given and its answer
          addrs,      \* addresses to try
          tried,      \* addresses tried
          err,        \* firstErr of the loop in progress
          result      \* "conn", an error, or "nil" while dialling

vars == <<pc, now, cancelled, asked, addrs, tried, err, result>>

handshakeTimeout == 10

\* A variant of lookupTimeout (below): the value that once left nothing to the
\* third resolver.
lookupTimeoutFive == 5

lookupTimeout == 3

\* The system resolver and the two public fallbacks.
Lookups == 3

CtxDone == cancelled \/ now >= handshakeTimeout

Remaining == IF cancelled THEN 0 ELSE handshakeTimeout - now

LookupBudget == IF Remaining < lookupTimeout THEN Remaining ELSE lookupTimeout

Answers == {"addresses", "none", "error"}
Question == [given : Nat, answer : Answers]

\* Every variable has its type; no step outlives the context's deadline.
DialTypeOK ==
    /\ pc \in {"split", "resolve", "dial", "done"}
    /\ now \in 0..handshakeTimeout
    /\ cancelled \in BOOLEAN
    /\ asked \in Seq(Question)
    /\ Len(asked) <= Lookups
    /\ addrs \in 0..MaxAddrs
    /\ tried \in 0..addrs
    /\ err \in {"nil", "resolver 1", "resolver 2", "resolver 3", "dial 1", "dial later"}
    /\ result \in {"nil", "conn", "bad address", "no addresses", "resolver 1", "resolver 2",
                   "resolver 3", "dial 1", "dial later"}

Init ==
    /\ pc = "split" /\ now = 0 /\ cancelled = FALSE
    /\ asked = <<>> /\ addrs = 0 /\ tried = 0
    /\ err = "nil" /\ result = "nil"

Return(r) == pc' = "done" /\ result' = r

-----------------------------------------------------------------------------
\* SplitHostPort: an error, an IP literal (one address, nothing to resolve) or a
\* host name.
SplitHostPort ==
    /\ pc = "split"
    /\ \/ Return("bad address") /\ UNCHANGED addrs
       \/ pc' = "dial" /\ addrs' = 1 /\ UNCHANGED result
       \/ pc' = "resolve" /\ UNCHANGED <<addrs, result>>
    /\ UNCHANGED <<now, cancelled, asked, tried, err>>

ResolverErr == <<"resolver 1", "resolver 2", "resolver 3">>

\* A variant of ResolveErr (below) that keeps the latest error.
ResolveErrLatest(answer) ==
    IF answer = "error" THEN ResolverErr[Len(asked) + 1] ELSE err

\* firstErr is kept.
ResolveErr(answer) ==
    IF answer = "error" /\ err = "nil" THEN ResolverErr[Len(asked) + 1] ELSE err

TotalFailure(e) == IF e = "nil" THEN "no addresses" ELSE e

\* One turn of resolveHost's loop: a lookup that takes d seconds; one that uses
\* up its time ends with an error.
Lookup(d, answer) ==
    /\ pc = "resolve"
    /\ d <= LookupBudget
    /\ d = LookupBudget => answer = "error"
    /\ now' = now + d /\ UNCHANGED cancelled
    /\ asked' = Append(asked, [given |-> LookupBudget, answer |-> answer])
    /\ \/ /\ answer = "addresses"
          /\ \E n \in 1..MaxAddrs : addrs' = n
          /\ pc' = "dial" /\ err' = "nil"
          /\ UNCHANGED result
       \/ /\ answer # "addresses"
          /\ err' = ResolveErr(answer)
          /\ IF Len(asked') = Lookups \/ CtxDone'
               THEN Return(TotalFailure(err'))
               ELSE UNCHANGED <<pc, result>>
          /\ UNCHANGED addrs
    /\ UNCHANGED tried

\* One turn of the address loop: a connection, or an error after d seconds.  An
\* address that does not answer at all takes the rest of the handshake.
DialAddr(d, ok) ==
    /\ pc = "dial"
    /\ d <= Remaining
    /\ d = Remaining => ~ok
    /\ now' = now + d /\ UNCHANGED cancelled
    /\ tried' = tried + 1
    /\ IF ok THEN Return("conn") /\ UNCHANGED err
       ELSE /\ err' = IF err = "nil" THEN (IF tried = 0 THEN "dial 1" ELSE "dial later") ELSE err
            /\ IF tried' = addrs \/ CtxDone' THEN Return(err')
                                             ELSE UNCHANGED <<pc, result>>
    /\ UNCHANGED <<asked, addrs>>

\* The miner stops; a lookup or a dial in progress ends with an error next.
Cancel ==
    /\ ~cancelled /\ pc # "done" /\ cancelled' = TRUE
    /\ UNCHANGED <<pc, now, asked, addrs, tried, err, result>>

Next ==
    \/ SplitHostPort
    \/ \E d \in 0..handshakeTimeout, a \in Answers : Lookup(d, a)
    \/ \E d \in 0..handshakeTimeout, ok \in BOOLEAN : DialAddr(d, ok)
    \/ Cancel

Spec == Init /\ [][Next]_vars

-----------------------------------------------------------------------------
\* lookupTimeout's comment: three resolvers fit into the handshake, with room
\* left.  No resolver is born expired or cut short, and whenever one of them
\* answers there is time left to connect.
ResolversFit ==
    ~cancelled =>
        /\ \A i \in 1..Len(asked) : asked[i].given = lookupTimeout
        /\ pc = "dial" /\ tried = 0 => now < handshakeTimeout

\* The system resolver, which is asked first, had an error.
SystemFailed(qs) == qs # <<>> /\ qs[1].answer = "error"

\* A dial without a connection gives an error (without one the dialer would use a
\* nil connection), and when no resolver has answered it is the system resolver's,
\* if that one had an error.
FailureIsReported ==
    pc = "done" =>
        /\ result # "nil"
        /\ addrs = 0 /\ SystemFailed(asked) => result = "resolver 1"

=============================================================================
