--------------------------- MODULE HostDialProofs ---------------------------
(***************************************************************************)
(* Theorems about HostDial, for any number of addresses in an answer.      *)
(***************************************************************************)
EXTENDS HostDial, TLAPS

(* The invariant.  While the miner is not stopping, the lookups so far     *)
(* have each had, and used at most, lookupTimeout; firstErr is the system  *)
(* resolver's from the moment it had one.                                  *)
InTime(qs) == \A i \in 1..Len(qs) : qs[i].given = lookupTimeout

TimeInv ==
    ~cancelled =>
        /\ InTime(asked)
        /\ pc = "split" => now = 0
        /\ pc = "resolve" => now <= lookupTimeout * Len(asked)
        /\ pc = "dial" /\ tried = 0 => now < handshakeTimeout

ErrInv ==
    /\ pc \in {"split", "resolve"} => addrs = 0 /\ tried = 0
    /\ pc = "split" => asked = <<>> /\ err = "nil"
    /\ pc = "resolve" => /\ Len(asked) < Lookups
                         /\ asked = <<>> => err = "nil"
                         /\ SystemFailed(asked) => err = "resolver 1"
    /\ pc = "dial" => tried < addrs
    /\ FailureIsReported

DInv == DialTypeOK /\ TimeInv /\ ErrInv

\* The type invariant by kinds of values.
Errors == {"nil", "resolver 1", "resolver 2", "resolver 3", "dial 1", "dial later"}

Words ==
    /\ pc \in {"split", "resolve", "dial", "done"}
    /\ cancelled \in BOOLEAN
    /\ err \in Errors
    /\ result \in Errors \cup {"conn", "bad address", "no addresses"}

Numbers ==
    /\ now \in 0..handshakeTimeout
    /\ asked \in Seq(Question) /\ Len(asked) <= Lookups
    /\ addrs \in 0..MaxAddrs /\ tried \in 0..addrs

\* The type invariant has a part for words and one for numbers.
LEMMA Kinds == DialTypeOK <=> Words /\ Numbers
  BY DEF DialTypeOK, Words, Numbers, Errors

-----------------------------------------------------------------------------
(* One more question.                                                      *)
LEMMA NothingAsked ==
    /\ <<>> \in Seq(Question) /\ Len(<<>>) = 0
    /\ InTime(<<>>)
    /\ ~SystemFailed(<<>>)
  BY DEF InTime, SystemFailed

\* One more question in the list: its length, its time, its first failure.
LEMMA OneMore ==
    ASSUME NEW qs \in Seq(Question), NEW g \in Nat, NEW a \in Answers
    PROVE  LET more == Append(qs, [given |-> g, answer |-> a])
           IN  /\ more \in Seq(Question) /\ Len(more) = Len(qs) + 1 /\ more # <<>>
               /\ InTime(qs) /\ g = lookupTimeout => InTime(more)
               /\ qs # <<>> => (SystemFailed(more) <=> SystemFailed(qs))
               /\ qs = <<>> => (SystemFailed(more) <=> a = "error")
<1> DEFINE q    == [given |-> g, answer |-> a]
           more == Append(qs, q)
<1>1. q \in Question
  BY DEF Question
<1>2. more \in Seq(Question) /\ Len(more) = Len(qs) + 1 /\ Len(qs) \in Nat
  BY <1>1
<1>3. more[Len(qs) + 1] = q /\ \A i \in 1..Len(qs) : more[i] = qs[i]
  BY <1>1
<1>4. more # <<>>
  <2>1. Len(more) # 0
    BY <1>2
  <2> QED
    BY <2>1, NothingAsked
<1>5. InTime(qs) /\ g = lookupTimeout => InTime(more)
  BY <1>2, <1>3 DEF InTime
<1>6. qs # <<>> => (SystemFailed(more) <=> SystemFailed(qs))
  <2>1. qs # <<>> => Len(qs) >= 1
    OBVIOUS
  <2> QED
    BY <1>3, <1>4, <2>1 DEF SystemFailed
<1>7. qs = <<>> => (SystemFailed(more) <=> a = "error")
  BY <1>3, <1>4 DEF SystemFailed
<1> QED
  BY <1>2, <1>4, <1>5, <1>6, <1>7

-----------------------------------------------------------------------------
(* The steps.                                                              *)
LEMMA AtLeastOne == MaxAddrs \in Nat /\ MaxAddrs >= 1
  BY AddrsAssumption

\* The invariant holds when a dial begins.
THEOREM DialInit == Init => DInv
<1> SUFFICES ASSUME Init PROVE DInv
  OBVIOUS
<1>1. asked \in Seq(Question) /\ Len(asked) = 0 /\ InTime(asked)
  BY NothingAsked DEF Init
<1>2. /\ Len(asked) <= Lookups /\ now \in 0..handshakeTimeout
      /\ addrs \in 0..MaxAddrs /\ tried \in 0..addrs
  <2>1. now = 0 /\ addrs = 0 /\ tried = 0
    BY DEF Init
  <2> QED
    BY <1>1, <2>1, AtLeastOne DEF handshakeTimeout, Lookups
<1>3. DialTypeOK
  BY <1>1, <1>2 DEF Init, DialTypeOK
<1>4. TimeInv
  BY <1>1 DEF Init, TimeInv, handshakeTimeout
<1>5. ErrInv
  BY DEF Init, ErrInv, FailureIsReported
<1> QED
  BY <1>3, <1>4, <1>5 DEF DInv

\* Splitting host and port, with every early end it has.
LEMMA SplitKeeps == ASSUME DInv, SplitHostPort PROVE DInv'
<1>1. addrs = 0 /\ tried' = 0 /\ tried = 0 /\ now' = now
  BY DEF DInv, ErrInv, SplitHostPort
<1>2. err' = "nil" /\ cancelled' = cancelled
  BY DEF DInv, ErrInv, SplitHostPort
<1>3. /\ asked' \in Seq(Question) /\ Len(asked') = 0
      /\ InTime(asked') /\ ~SystemFailed(asked')
  <2>1. asked' = <<>>
    BY DEF DInv, ErrInv, SplitHostPort
  <2> QED
    BY <2>1, NothingAsked
<1>4. ~cancelled => now = 0
  BY DEF DInv, TimeInv, SplitHostPort
<1>5. now \in 0..handshakeTimeout /\ cancelled \in BOOLEAN
  BY DEF DInv, DialTypeOK
<1>6. CASE pc' = "done" /\ result' = "bad address" /\ addrs' = 0
  <2>1. DialTypeOK'
    <3>1. Numbers'
      <4>1. addrs' = 0
        BY <1>6
      <4> QED
        BY <1>1, <1>3, <1>5, <4>1, AtLeastOne DEF Numbers, Lookups
    <3>2. Words'
      BY <1>2, <1>5, <1>6, Kinds DEF DInv, Words, Errors
    <3> QED
      BY <3>1, <3>2 DEF DialTypeOK, Words, Numbers, Errors
  <2>2. TimeInv'
    BY <1>2, <1>3, <1>6 DEF TimeInv
  <2>3. ErrInv'
    BY <1>3, <1>6 DEF ErrInv, FailureIsReported
  <2> QED
    BY <2>1, <2>2, <2>3 DEF DInv
<1>7. CASE pc' = "dial" /\ result' = result /\ addrs' = 1
  <2>1. DialTypeOK'
    <3>1. Numbers'
      BY <1>1, <1>3, <1>5, <1>7, AtLeastOne DEF Numbers, Lookups
    <3>2. Words'
      BY <1>2, <1>5, <1>7, Kinds DEF DInv, Words, Errors
    <3> QED
      BY <3>1, <3>2 DEF DialTypeOK, Words, Numbers, Errors
  <2>2. TimeInv'
    BY <1>1, <1>2, <1>3, <1>4, <1>7 DEF TimeInv, handshakeTimeout
  <2>3. ErrInv'
    BY <1>1, <1>7 DEF ErrInv, FailureIsReported
  <2> QED
    BY <2>1, <2>2, <2>3 DEF DInv
<1>8. CASE pc' = "resolve" /\ result' = result /\ addrs' = 0
  <2>1. DialTypeOK'
    <3>1. Numbers'
      BY <1>1, <1>3, <1>5, <1>8, AtLeastOne DEF Numbers, Lookups
    <3>2. Words'
      BY <1>2, <1>5, <1>8, Kinds DEF DInv, Words, Errors
    <3> QED
      BY <3>1, <3>2 DEF DialTypeOK, Words, Numbers, Errors
  <2>2. TimeInv'
    BY <1>1, <1>2, <1>3, <1>4, <1>8 DEF TimeInv, lookupTimeout
  <2>3. ErrInv'
    BY <1>1, <1>2, <1>3, <1>8 DEF ErrInv, FailureIsReported, Lookups
  <2> QED
    BY <2>1, <2>2, <2>3 DEF DInv
<1> QED
  BY <1>1, <1>6, <1>7, <1>8 DEF SplitHostPort, Return

\* The caller cancels; from now on no time is promised.
LEMMA CancelKeeps == ASSUME DInv, Cancel PROVE DInv'
<1> USE DEF Cancel
<1>1. DialTypeOK'
  BY DEF DInv, DialTypeOK
<1>2. TimeInv'
  BY DEF TimeInv
<1>3. ErrInv'
  BY DEF DInv, ErrInv, FailureIsReported
<1> QED
  BY <1>1, <1>2, <1>3 DEF DInv

\* Where resolveHost is while it still has a resolver to ask.
LEMMA Resolving ==
    ASSUME DInv, pc = "resolve"
    PROVE  /\ Len(asked) \in Nat /\ Len(asked) < Lookups /\ asked \in Seq(Question)
           /\ now \in 0..handshakeTimeout /\ addrs = 0 /\ tried = 0
<1>1. asked \in Seq(Question) /\ now \in 0..handshakeTimeout
  BY Kinds DEF DInv, Numbers
<1>2. Len(asked) \in Nat
  BY <1>1
<1> QED
  BY <1>1, <1>2 DEF DInv, ErrInv

\* The resolvers' errors are three different ones, the system's first.
LEMMA ResolverErrs ==
    /\ ResolverErr[1] = "resolver 1"
    /\ \A i \in 1..3 : ResolverErr[i] \in Errors
<1>1. /\ ResolverErr[1] = "resolver 1"
      /\ ResolverErr[2] = "resolver 2"
      /\ ResolverErr[3] = "resolver 3"
  BY DEF ResolverErr
<1>2. ResolverErr[1] \in Errors /\ ResolverErr[2] \in Errors /\ ResolverErr[3] \in Errors
  BY <1>1 DEF Errors
<1>3. \A i \in 1..3 : i = 1 \/ i = 2 \/ i = 3
  OBVIOUS
<1> QED
  BY <1>1, <1>2, <1>3

\* A lookup has what the deadline leaves of lookupTimeout, and takes no longer.
LEMMA LookupTime ==
    ASSUME DInv, NEW d \in 0..handshakeTimeout, NEW a \in Answers, Lookup(d, a)
    PROVE  /\ LookupBudget \in Nat /\ now' = now + d /\ now' \in 0..handshakeTimeout
           /\ cancelled' = cancelled /\ tried' = tried
           /\ ~cancelled => /\ LookupBudget = lookupTimeout
                            /\ now' <= lookupTimeout * (Len(asked) + 1)
                            /\ d = LookupBudget \/ now' < handshakeTimeout
<1> USE DEF handshakeTimeout, lookupTimeout
<1>1. now \in 0..handshakeTimeout /\ Len(asked) \in Nat /\ Len(asked) < 3
  BY Resolving DEF Lookup, Lookups
<1>2. now' = now + d /\ d <= LookupBudget /\ cancelled' = cancelled /\ tried' = tried
  BY DEF Lookup
<1>3. ~cancelled => now <= lookupTimeout * Len(asked)
  BY DEF DInv, TimeInv, Lookup
<1>4. CASE cancelled
  <2>1. LookupBudget = 0
    BY <1>4 DEF LookupBudget, Remaining
  <2> QED
    BY <1>1, <1>2, <1>4, <2>1
<1>5. CASE ~cancelled
  <2>1. now <= 6
    BY <1>1, <1>3, <1>5
  <2>2. LookupBudget = 3
    BY <1>1, <1>5, <2>1 DEF LookupBudget, Remaining
  <2> QED
    BY <1>1, <1>2, <1>3, <1>5, <2>1, <2>2
<1> QED
  BY <1>4, <1>5

\* A lookup that finds addresses ends resolveHost.
LEMMA LookupAnswers ==
    ASSUME DInv, NEW d \in 0..handshakeTimeout, NEW a \in Answers, Lookup(d, a),
           a = "addresses"
    PROVE  DInv'
<1>1. /\ now' \in 0..handshakeTimeout /\ cancelled' = cancelled /\ tried' = 0
      /\ ~cancelled => LookupBudget = lookupTimeout /\ now' < handshakeTimeout
  BY LookupTime, Resolving DEF Lookup
<1>2. pc' = "dial" /\ err' = "nil" /\ result' = result
  BY DEF Lookup
<1>3. PICK n \in 1..MaxAddrs : addrs' = n
  BY DEF Lookup
<1>4. /\ asked' \in Seq(Question) /\ Len(asked') = Len(asked) + 1
      /\ InTime(asked) /\ LookupBudget = lookupTimeout => InTime(asked')
  BY LookupTime, OneMore DEF Lookup, DInv, DialTypeOK
<1>5. Len(asked) \in Nat /\ Len(asked) < Lookups /\ tried = 0
  BY Resolving DEF Lookup
<1>6. DialTypeOK'
  <2>1. Numbers'
    BY <1>1, <1>3, <1>4, <1>5, AtLeastOne DEF Numbers, Lookups
  <2>2. Words'
    BY <1>1, <1>2, Kinds DEF DInv, Words, Errors
  <2> QED
    BY <2>1, <2>2 DEF DialTypeOK, Words, Numbers, Errors
<1>7. TimeInv'
  BY <1>1, <1>2, <1>4 DEF DInv, TimeInv
<1>8. ErrInv'
  <2>1. tried' < addrs' /\ addrs' # 0
    BY <1>1, <1>3
  <2> QED
    BY <1>2, <2>1 DEF ErrInv, FailureIsReported
<1> QED
  BY <1>6, <1>7, <1>8 DEF DInv

\* A lookup that fails leaves the first error and asks the next resolver.
LEMMA LookupFails ==
    ASSUME DInv, NEW d \in 0..handshakeTimeout, NEW a \in Answers, Lookup(d, a),
           a # "addresses"
    PROVE  DInv'
<1>1. /\ now' \in 0..handshakeTimeout /\ cancelled' = cancelled /\ tried' = tried
      /\ ~cancelled => /\ LookupBudget = lookupTimeout
                       /\ now' <= lookupTimeout * (Len(asked) + 1)
  BY LookupTime
<1>2. /\ asked' \in Seq(Question) /\ Len(asked') = Len(asked) + 1 /\ asked' # <<>>
      /\ InTime(asked) /\ LookupBudget = lookupTimeout => InTime(asked')
      /\ asked # <<>> => (SystemFailed(asked') <=> SystemFailed(asked))
      /\ asked = <<>> => (SystemFailed(asked') <=> a = "error")
  BY ZenonT(30), LookupTime, OneMore DEF Lookup, DInv, DialTypeOK
<1>3. /\ Len(asked) \in Nat /\ Len(asked) < Lookups
      /\ addrs' = 0 /\ addrs = 0 /\ tried = 0
  <2>1. addrs' = addrs /\ pc = "resolve"
    BY DEF Lookup
  <2> QED
    BY <2>1, Resolving
<1>4. err' \in Errors /\ (SystemFailed(asked') => err' = "resolver 1")
  <2>1. err \in Errors /\ err' = ResolveErr(a)
    BY Kinds DEF DInv, Words, Lookup
  <2>2. CASE asked = <<>>
    <3>1. Len(asked) + 1 = 1 /\ err = "nil"
      BY <2>2, NothingAsked DEF DInv, ErrInv, Lookup
    <3>2. ResolverErr[Len(asked) + 1] = "resolver 1"
      BY <3>1, ResolverErrs
    <3> QED
      BY <1>2, <2>1, <2>2, <3>1, <3>2 DEF ResolveErr, Errors
  <2>3. CASE asked # <<>>
    <3>1. SystemFailed(asked) => err = "resolver 1"
      BY DEF DInv, ErrInv, Lookup
    <3>2. Len(asked) + 1 \in 1..3
      BY <1>3 DEF Lookups
    <3>3. ResolverErr[Len(asked) + 1] \in Errors
      BY <3>2, ResolverErrs
    <3> QED
      BY <1>2, <2>1, <2>3, <3>1, <3>3 DEF ResolveErr
  <2> QED
    BY <2>2, <2>3
<1>5. Numbers'
  BY <1>1, <1>2, <1>3, AtLeastOne DEF Numbers, Lookups
<1>6. CASE Len(asked') = Lookups \/ CtxDone'
  <2>1. pc' = "done" /\ result' = TotalFailure(err')
    BY <1>6 DEF Lookup, Return
  <2>2. /\ result' \in Errors \cup {"conn", "bad address", "no addresses"}
        /\ result' # "nil"
        /\ err' = "resolver 1" => result' = "resolver 1"
    BY <1>4, <2>1 DEF TotalFailure, Errors
  <2>3. Words'
    BY <1>1, <1>4, <2>1, <2>2, Kinds DEF DInv, Words
  <2>4. DialTypeOK'
    BY <1>5, <2>3 DEF DialTypeOK, Words, Numbers, Errors
  <2>5. TimeInv'
    BY <1>1, <1>2, <2>1 DEF DInv, TimeInv, Lookup
  <2>6. ErrInv'
    BY <1>4, <2>1, <2>2 DEF ErrInv, FailureIsReported
  <2> QED
    BY <2>4, <2>5, <2>6 DEF DInv
<1>7. CASE ~(Len(asked') = Lookups \/ CtxDone')
  <2>1. pc' = pc /\ result' = result /\ pc = "resolve"
    BY <1>7 DEF Lookup
  <2>2. Words'
    BY <1>1, <1>4, <2>1, Kinds DEF DInv, Words
  <2>3. DialTypeOK'
    BY <1>5, <2>2 DEF DialTypeOK, Words, Numbers, Errors
  <2>4. TimeInv'
    BY <1>1, <1>2, <2>1 DEF DInv, TimeInv
  <2>5. Len(asked') < Lookups
    BY <1>2, <1>3, <1>7 DEF Lookups
  <2>6. ErrInv'
    BY <1>1, <1>2, <1>3, <1>4, <2>1, <2>5 DEF ErrInv, FailureIsReported
  <2> QED
    BY <2>3, <2>4, <2>6 DEF DInv
<1> QED
  BY <1>6, <1>7

\* One address tried, within what is left of the deadline.
LEMMA DialAddrKeeps ==
    ASSUME DInv, NEW d \in 0..handshakeTimeout, NEW ok \in BOOLEAN, DialAddr(d, ok)
    PROVE  DInv'
<1>1. Numbers
  BY Kinds DEF DInv
<1>2. /\ asked' = asked /\ addrs' = addrs /\ cancelled' = cancelled
      /\ now' = now + d /\ tried' = tried + 1 /\ d <= Remaining
  BY DEF DialAddr
<1>3. now' \in 0..handshakeTimeout
  BY <1>1, <1>2 DEF Remaining, Numbers, handshakeTimeout
<1>4. tried < addrs /\ addrs # 0 /\ tried' # 0 /\ tried' \in 0..addrs
  <2>1. tried < addrs
    BY DEF DInv, ErrInv, DialAddr
  <2> QED
    BY <1>1, <1>2, <2>1 DEF Numbers
<1>5. Numbers'
  BY <1>1, <1>2, <1>3, <1>4 DEF Numbers
<1>6. ~cancelled => InTime(asked)
  BY DEF DInv, TimeInv
<1>7. CASE ok
  <2>1. pc' = "done" /\ result' = "conn" /\ err' = err
    BY <1>7 DEF DialAddr, Return
  <2>2. Words'
    BY <1>2, <2>1, Kinds DEF DInv, Words
  <2>3. DialTypeOK'
    BY <1>5, <2>2 DEF DialTypeOK, Words, Numbers, Errors
  <2>4. TimeInv'
    BY <1>2, <1>6, <2>1 DEF TimeInv
  <2>5. ErrInv'
    BY <1>2, <1>4, <2>1 DEF ErrInv, FailureIsReported
  <2> QED
    BY <2>3, <2>4, <2>5 DEF DInv
<1>8. CASE ~ok
  <2>1. err' \in Errors /\ err' # "nil"
    <3>1. err \in Errors
      BY Kinds DEF DInv, Words
    <3> QED
      BY <1>8, <3>1 DEF DialAddr, Errors
  <2>2. CASE tried' = addrs \/ CtxDone'
    <3>1. pc' = "done" /\ result' = err'
      BY <1>8, <2>2 DEF DialAddr, Return
    <3>2. Words'
      BY <1>2, <2>1, <3>1, Kinds DEF DInv, Words
    <3>3. DialTypeOK'
      BY <1>5, <3>2 DEF DialTypeOK, Words, Numbers, Errors
    <3>4. TimeInv'
      BY <1>2, <1>6, <3>1 DEF TimeInv
    <3>5. ErrInv'
      BY <1>2, <1>4, <2>1, <3>1 DEF ErrInv, FailureIsReported
    <3> QED
      BY <3>3, <3>4, <3>5 DEF DInv
  <2>3. CASE ~(tried' = addrs \/ CtxDone')
    <3>1. pc' = "dial" /\ result' = result
      BY <1>8, <2>3 DEF DialAddr
    <3>2. Words'
      BY <1>2, <2>1, <3>1, Kinds DEF DInv, Words
    <3>3. DialTypeOK'
      BY <1>5, <3>2 DEF DialTypeOK, Words, Numbers, Errors
    <3>4. TimeInv'
      BY <1>2, <1>4, <1>6, <3>1 DEF TimeInv
    <3>5. tried' < addrs'
      BY <1>1, <1>2, <1>4, <2>3 DEF Numbers
    <3>6. ErrInv'
      BY <3>1, <3>5 DEF ErrInv, FailureIsReported
    <3> QED
      BY <3>3, <3>4, <3>6 DEF DInv
  <2> QED
    BY <2>2, <2>3
<1> QED
  BY <1>7, <1>8

\* Every step of a dial keeps the invariant.
THEOREM DialStep == DInv /\ [Next]_vars => DInv'
<1> SUFFICES ASSUME DInv, [Next]_vars PROVE DInv'
  OBVIOUS
<1>1. CASE SplitHostPort
  BY <1>1, SplitKeeps
<1>2. CASE \E d \in 0..handshakeTimeout, a \in Answers : Lookup(d, a)
  BY <1>2, LookupAnswers, LookupFails
<1>3. CASE \E d \in 0..handshakeTimeout, ok \in BOOLEAN : DialAddr(d, ok)
  BY <1>3, DialAddrKeeps
<1>4. CASE Cancel
  BY <1>4, CancelKeeps
<1>5. CASE UNCHANGED vars
  BY ZenonT(30), <1>5 DEF vars, DInv, DialTypeOK, TimeInv, ErrInv, FailureIsReported
<1> QED
  BY <1>1, <1>2, <1>3, <1>4, <1>5 DEF Next

-----------------------------------------------------------------------------
\* The inductive invariant of a dial.
THEOREM DialInvariant == Spec => []DInv
  BY DialInit, DialStep, PTL DEF Spec

\* Every variable keeps its type; in particular no dial outlives the handshake's
\* deadline (dns.go, dialContextDNSFallback).
THEOREM DialTypeCorrect == Spec => []DialTypeOK
<1>1. DInv => DialTypeOK
  BY DEF DInv
<1> QED
  BY <1>1, DialInvariant, PTL

\* Each of the three resolvers gets its full time and whoever answers leaves time
\* to connect, for any number of addresses (dns.go, lookupTimeout and resolveHost).
THEOREM ResolversAlwaysFit == Spec => []ResolversFit
<1>1. DInv => ResolversFit
  BY DEF DInv, TimeInv, InTime, ResolversFit
<1> QED
  BY <1>1, DialInvariant, PTL

\* A dial that gives no connection always gives an error, the system resolver's
\* where that is the first one (dns.go, resolveHost).
THEOREM FailuresAreReported == Spec => []FailureIsReported
<1>1. DInv => FailureIsReported
  BY DEF DInv, ErrInv
<1> QED
  BY <1>1, DialInvariant, PTL

=============================================================================
