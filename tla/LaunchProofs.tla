---------------------------- MODULE LaunchProofs ----------------------------
(***************************************************************************)
(* Theorems about Launch and Startup: the settings a miner starts with,    *)
(* the pinning of its workers, the judgement of its hashes and the tables  *)
(* they are made with, for any set of worlds, any answers at --setup, any  *)
(* number of digits and any base.                                          *)
(***************************************************************************)
EXTENDS Startup, Induction

-----------------------------------------------------------------------------
(* The settings.                                                           *)

Contents == Content \cup {Missing, Torn}

Running == {"order", "preflight", "start", "mining"}

\* What run has taken its settings from was a whole content of the file.
ConfInv ==
    /\ pc = "init" => world = None
    /\ pc # "init" => world \in Worlds
    /\ pc # "init" => file = Torn \/ file \in contents
    /\ pc = "load" => ~world.flags.bench
    /\ pc \in Running /\ ~world.flags.bench =>
          \E f \in contents : conf = resolve(world.flags, f)
    /\ pc = "mining" => ~world.flags.bench

\* Nothing is resolved before main begins.
LEMMA ConfInit == Init => ConfInv
  BY DEF Init, ConfInv, Running

\* A step that keeps the settings keeps what they were taken from, even when the
\* file gets another content.
LEMMA ConfKept ==
    ASSUME ConfInv, UNCHANGED <<world, conf>>, contents \subseteq contents',
           pc # "init", pc' # "init",
           pc' = "load" => pc = "load",
           file' = Torn \/ file' \in contents',
           pc' \in Running => pc \in Running,
           pc' = "mining" => ~world.flags.bench
    PROVE  ConfInv'
<1>1. /\ world \in Worlds
      /\ pc' \in Running /\ ~world.flags.bench =>
            \E f \in contents' : conf = resolve(world.flags, f)
  BY DEF ConfInv
<1>2. \A f : resolve(world.flags, f)' = resolve(world.flags, f')
  BY DEF resolve, normalizedThreadCount, NumCPU
<1>3. pc' \in Running /\ ~world'.flags.bench =>
            \E f \in contents' : conf' = resolve(world.flags, f)'
  BY <1>1, <1>2
<1> QED
  BY <1>1, <1>3 DEF ConfInv

\* Every step keeps where the settings came from.
LEMMA ConfStep == ConfInv /\ [Next]_vars => ConfInv'
<1> SUFFICES ASSUME ConfInv, [Next]_vars PROVE ConfInv'
  OBVIOUS
<1> USE DEF Running
<1>1. CASE ParseFlags
  <2>1. PICK w \in Worlds : /\ world' = w /\ file' = w.file
                            /\ contents' = {w.file} \ {Torn} /\ pc' = "kat"
    BY <1>1 DEF ParseFlags
  <2> QED
    BY <2>1 DEF ConfInv
<1>2. CASE SelfTest
  <2>1. /\ pc = "kat" /\ world' = world /\ file' = file /\ contents' = contents
        /\ world \in Worlds /\ (file = Torn \/ file \in contents)
    BY <1>2 DEF SelfTest, outside, ConfInv
  <2>2. \/ pc' = "exit 1"
        \/ pc' = "order" /\ world.flags.bench
        \/ pc' = "load" /\ ~world.flags.bench
    BY <1>2 DEF SelfTest
  <2> QED
    BY <2>1, <2>2 DEF ConfInv
<1>3. CASE LoadConfig
  <2>1. /\ pc = "load" /\ world' = world /\ file' = file /\ contents' = contents
        /\ world \in Worlds /\ (file = Torn \/ file \in contents) /\ ~world.flags.bench
    BY <1>3 DEF LoadConfig, outside, ConfInv
  <2>2. CASE LoadFails(file)
    BY <1>3, <2>1, <2>2 DEF LoadConfig, ConfInv
  <2>3. CASE ~LoadFails(file)
    <3>1. pc' = "order" /\ conf' = resolve(world.flags, file) /\ file \in contents
      BY <1>3, <2>1, <2>3 DEF LoadConfig, LoadFails
    <3>2. conf' = resolve(world.flags, file)'
      BY <2>1, <3>1 DEF resolve, normalizedThreadCount, NumCPU
    <3>3. \E f \in contents' : conf' = resolve(world.flags, f)'
      BY <2>1, <3>1, <3>2
    <3> QED
      BY <2>1, <3>1, <3>3 DEF ConfInv
  <2> QED
    BY <2>2, <2>3
<1>4. CASE SetupLoad \/ SetupAnswer \/ SaveTruncates \/ SaveWrites
  <2>1. CASE pc = "init"
    <3>1. pc' = "init" /\ world' = None
      BY <1>4, <2>1 DEF SetupLoad, SetupAnswer, SaveTruncates, SaveWrites, ConfInv
    <3> QED
      BY <3>1 DEF ConfInv
  <2>2. CASE pc # "init"
    <3>1. /\ pc' = pc /\ UNCHANGED <<world, conf>> /\ contents \subseteq contents'
          /\ file' = Torn \/ file' \in contents'
      BY <1>4, <2>2 DEF SetupLoad, SetupAnswer, SaveTruncates, SaveWrites, ConfInv
    <3> QED
      BY <2>2, <3>1, ConfKept DEF ConfInv
  <2> QED
    BY <2>1, <2>2
<1>5. ASSUME pc \in Running, pc' \in Running \cup {"bench"}, UNCHANGED <<world, conf, file, contents>>,
             pc' = "mining" => pc = "mining" \/ ~world.flags.bench
      PROVE  ConfInv'
  <2>1. pc # "init" /\ pc' # "init" /\ pc' # "load"
    BY <1>5
  <2>2. file' = Torn \/ file' \in contents'
    BY <1>5, <2>1 DEF ConfInv
  <2>3. pc' = "mining" => ~world.flags.bench
    BY <1>5 DEF ConfInv
  <2> QED
    BY <1>5, <2>1, <2>2, <2>3, ConfKept
<1>6. CASE PinOrder \/ Preflight \/ PreflightDone
  BY <1>5, <1>6 DEF PinOrder, Preflight, PreflightDone, outside
<1>7. CASE StartWorkers
  BY <1>5, <1>7 DEF StartWorkers, outside
<1>8. CASE LoseCPU
  BY <1>5, <1>8 DEF LoseCPU
<1>9. CASE FirstJob \/ JudgeHash \/ UNCHANGED vars
  <2>1. UNCHANGED <<pc, world, conf, file, contents>>
    BY <1>9 DEF FirstJob, JudgeHash, outside, vars
  <2>2. CASE pc = "init"
    BY <2>1, <2>2 DEF ConfInv
  <2>3. CASE pc # "init"
    BY <2>1, <2>3, ConfKept DEF ConfInv
  <2> QED
    BY <2>2, <2>3
<1> QED
  BY <1>1, <1>2, <1>3, <1>4, <1>6, <1>7, <1>8, <1>9 DEF Next

\* Whatever a setup run does to config.json, wherever it stops or crashes, and
\* whatever the flags are, a miner that mines does so with the flags over one whole
\* content the file has had.
THEOREM SettingsAreWhole == Spec => []MinesWholeSettings
<1>1. ConfInv => MinesWholeSettings
  BY DEF ConfInv, MinesWholeSettings, Mining, Running
<1> QED
  BY ConfInit, ConfStep, <1>1, PTL DEF Spec

-----------------------------------------------------------------------------
(* --setup.                                                                *)

Answered(current, typed) ==
    [daemon  |-> promptEndpoint(current.daemon, typed.daemon),
     wallet  |-> prompt(current.wallet, typed.wallet),
     threads |-> prompt(current.threads, typed.threads)]

SetupTypes ==
    [pc: {"off"}]
      \cup [pc: {"ask"}, before: Contents, new: Content]
      \cup [pc: {"save", "write", "saved", "failed"}, before: Contents, typed: Answers,
            new: Content]

\* What a setup run writes is what it found with the answers put over it.
SetupInv ==
    /\ file \in Contents
    /\ pc = "init" => world = None /\ setup.pc = "off"
    /\ setup \in SetupTypes
    /\ setup.pc = "ask" => setup.new = SetupCurrent(setup.before)
    /\ setup.pc \in {"save", "write", "saved"} =>
          setup.new = Answered(SetupCurrent(setup.before), setup.typed)
    /\ setup.pc = "saved" => file = setup.new

\* What setup offers as current is a whole content.
LEMMA CurrentType == ASSUME NEW f \in Contents PROVE SetupCurrent(f) \in Content
<1> USE SettingsAssumption
<1>1. CASE f \in {Missing, Torn}
  BY <1>1 DEF SetupCurrent, Content
<1>2. CASE f \in Content
  BY <1>2 DEF SetupCurrent, Content
<1> QED
  BY <1>1, <1>2 DEF Contents

\* What is typed over a whole content is one.
LEMMA AnsweredType ==
    ASSUME NEW c \in Content, NEW a \in Answers PROVE Answered(c, a) \in Content
  BY SettingsAssumption DEF Answered, Content, prompt, promptEndpoint

\* No setup runs yet.
LEMMA SetupInit == Init => SetupInv
  BY DEF Init, SetupInv, SetupTypes, Contents

\* Every step, of setup or of the miner, keeps what setup has read and typed.
LEMMA SetupStep == SetupInv /\ [Next]_vars => SetupInv'
<1> SUFFICES ASSUME SetupInv, [Next]_vars PROVE SetupInv'
  OBVIOUS
<1>1. CASE ParseFlags
  <2>1. PICK w \in Worlds : file' = w.file
    BY <1>1 DEF ParseFlags
  <2>2. pc = "init" /\ pc' = "kat" /\ setup' = setup
    BY <1>1 DEF ParseFlags
  <2>3. file' \in Contents
    BY <2>1, WorldsAssumption DEF Contents
  <2> QED
    BY <2>2, <2>3 DEF SetupInv
<1>2. CASE SetupLoad
  <2>1. /\ setup' = [pc |-> "ask", before |-> file, new |-> SetupCurrent(file)]
        /\ file' = file /\ pc' = pc /\ world' = world /\ world # None
    BY <1>2 DEF SetupLoad
  <2>2. SetupCurrent(file) \in Content /\ file \in Contents
    BY CurrentType DEF SetupInv
  <2> QED
    BY <2>1, <2>2 DEF SetupInv, SetupTypes, SetupCurrent
<1>3. CASE SetupAnswer
  <2>1. PICK a \in Answers :
           setup' = [pc |-> "save", before |-> setup.before, typed |-> a,
                     new |-> Answered(setup.new, a)]
    BY <1>3 DEF SetupAnswer, Answered
  <2>2. /\ setup.pc = "ask" /\ file' = file /\ pc' = pc /\ world' = world
        /\ file \in Contents /\ pc # "init"
        /\ setup.new = SetupCurrent(setup.before)
    BY <1>3 DEF SetupAnswer, SetupInv
  <2>3. setup.before \in Contents /\ setup.new \in Content
    BY <2>2 DEF SetupInv, SetupTypes
  <2>4. Answered(setup.new, a) \in Content
    BY <2>3, AnsweredType
  <2> QED
    BY <2>1, <2>2, <2>3, <2>4 DEF SetupInv, SetupTypes
<1>4. ASSUME setup \in [pc: {"save", "write", "saved", "failed"}, before: Contents,
                        typed: Answers, new: Content],
             setup.pc \in {"save", "write"}, pc' = pc,
             NEW to \in {"write", "saved", "failed"}, setup' = [setup EXCEPT !.pc = to],
             file' \in Contents, to = "saved" => file' = setup.new
      PROVE  SetupInv'
  <2>1. /\ setup'.pc = to /\ setup'.before = setup.before /\ setup'.typed = setup.typed
        /\ setup'.new = setup.new
        /\ setup' \in SetupTypes
    BY <1>4 DEF SetupTypes
  <2>2. pc' # "init" /\ setup.new = Answered(SetupCurrent(setup.before), setup.typed)
    BY <1>4 DEF SetupInv
  <2> QED
    BY <1>4, <2>1, <2>2 DEF SetupInv
<1>5. CASE SaveTruncates
  <2>1. /\ setup \in [pc: {"save", "write", "saved", "failed"}, before: Contents,
                      typed: Answers, new: Content]
        /\ setup.pc = "save" /\ pc' = pc /\ file \in Contents
    BY <1>5 DEF SaveTruncates, SetupInv, SetupTypes
  <2> QED
    BY <1>4, <1>5, <2>1 DEF SaveTruncates, Contents
<1>6. CASE SaveWrites
  <2>1. /\ setup \in [pc: {"save", "write", "saved", "failed"}, before: Contents,
                      typed: Answers, new: Content]
        /\ setup.pc = "write" /\ pc' = pc /\ file \in Contents /\ setup.new \in Contents
    BY <1>6 DEF SaveWrites, SetupInv, SetupTypes, Contents
  <2> QED
    BY <1>4, <1>6, <2>1 DEF SaveWrites
<1>7. CASE UNCHANGED <<file, setup, world>> /\ (pc' = "init" => pc = "init")
  BY <1>7 DEF SetupInv
<1>8. CASE SelfTest \/ LoadConfig \/ PinOrder \/ Preflight \/ PreflightDone
  <2>1. UNCHANGED <<file, setup, world>>
    BY <1>8 DEF SelfTest, LoadConfig, PinOrder, Preflight, PreflightDone, outside
  <2>2. pc' # "init"
    BY <1>8 DEF SelfTest, LoadConfig, PinOrder, Preflight, PreflightDone
  <2> QED
    BY <1>7, <2>1, <2>2
<1>9. CASE StartWorkers \/ LoseCPU \/ FirstJob \/ JudgeHash \/ UNCHANGED vars
  BY <1>7, <1>9 DEF StartWorkers, LoseCPU, FirstJob, JudgeHash, vars, outside
<1> QED
  BY <1>1, <1>2, <1>3, <1>5, <1>6, <1>8, <1>9 DEF Next

\* A setup run that has been saved makes every setting what was typed, and leaves
\* those at which Enter was pressed what they were.
THEOREM SetupDoesWhatIsTyped == Spec => []SetupIsHonoured
<1>1. SetupInv => SetupIsHonoured
  <2> SUFFICES ASSUME SetupInv, setup.pc = "saved" PROVE SetupIsHonoured
    BY DEF SetupIsHonoured
  <2> DEFINE none   == [daemon |-> Blank, wallet |-> Blank, threads |-> 0]
             found  == IF setup.before = Torn THEN Missing ELSE setup.before
             before == resolve(none, found)
             after  == resolve(none, file)
             typed  == setup.typed
             cur    == SetupCurrent(setup.before)
  <2>1. /\ typed \in Content /\ typed.daemon # Blank /\ typed.wallet # Blank
        /\ setup.before \in Contents
    BY SettingsAssumption DEF SetupInv, SetupTypes
  <2>2. file = Answered(cur, typed)
    BY DEF SetupInv
  <2>3. cur \in Content /\ file \in Content
    BY <2>1, <2>2, CurrentType, AnsweredType DEF SetupInv, SetupTypes
  <2>4. file # Missing
    BY <2>3, SettingsAssumption
  <2>5. found = Missing \/ (found \in Content /\ found = setup.before /\ found # Missing /\ found # Torn)
    BY <2>1, SettingsAssumption DEF Contents
  <2>6. after.daemon = IF typed.daemon = Absent THEN before.daemon ELSE typed.daemon
    BY <2>1, <2>2, <2>3, <2>4, <2>5, SettingsAssumption
       DEF resolve, Pick, Answered, promptEndpoint, SetupCurrent, Content
  <2>7. after.wallet = IF typed.wallet = Absent THEN before.wallet ELSE typed.wallet
    BY <2>1, <2>2, <2>3, <2>4, <2>5, SettingsAssumption
       DEF resolve, Pick, Answered, prompt, SetupCurrent, Content
  <2>8. after.threads = IF typed.threads = Absent THEN before.threads
                        ELSE normalizedThreadCount(typed.threads)
    BY <2>1, <2>2, <2>3, <2>4, <2>5, SettingsAssumption
       DEF resolve, Pick, Answered, prompt, SetupCurrent, Content, normalizedThreadCount
  <2> QED
    BY <2>6, <2>7, <2>8 DEF SetupIsHonoured
<1> QED
  BY SetupInit, SetupStep, <1>1, PTL DEF Spec

-----------------------------------------------------------------------------
(* The target.                                                             *)

Powers(p, n) == p = [k \in 0..n |-> IF k = 0 THEN 1 ELSE Base * p[k - 1]]

\* The function that Power takes its value from exists.
LEMMA PowersExist == ASSUME NEW n \in Nat PROVE \E p : Powers(p, n)
<1> DEFINE step == [i \in 1..n |-> [v \in Nat |-> Base * v]]
<1>1. \A v \in Nat : Base * v \in Nat
  BY DigitsAssumption
<1>2. step \in [1..n -> [Nat -> Nat]]
  BY <1>1
<1>3. \A i \in 1..n : \A v \in Nat : step[i][v] = Base * v
  OBVIOUS
<1> HIDE DEF step
<1>4. 1 \in Nat
  OBVIOUS
<1>5. PICK p : Recursion(p, n, Nat, 1, step)
  BY ONLY <1>2, <1>4, n \in Nat, RecursionExists
<1>6. /\ p \in [0..n -> Nat] /\ p[0] = 1
      /\ \A i \in 1..n : p[i] = step[i][p[i - 1]]
  BY <1>5 DEF Recursion
<1>7. \A i \in 1..n : p[i - 1] \in Nat /\ p[i] = Base * p[i - 1]
  BY <1>3, <1>6
<1>8. \A k \in 0..n : p[k] = IF k = 0 THEN 1 ELSE Base * p[k - 1]
  BY <1>6, <1>7
<1> QED
  BY <1>6, <1>8 DEF Powers

\* Power is what its name says.
LEMMA PowerIs ==
    /\ Power(0) = 1
    /\ \A n \in Nat : Power(n) \in Nat \ {0} /\ Power(n + 1) = Base * Power(n)
<1> DEFINE P(n) == CHOOSE p : p = [k \in 0..n |-> IF k = 0 THEN 1 ELSE Base * p[k - 1]]
<1>1. \A n \in Nat : P(n) = [k \in 0..n |-> IF k = 0 THEN 1 ELSE Base * P(n)[k - 1]]
  BY PowersExist DEF Powers
<1>2. \A n \in Nat : Power(n) = P(n)[n]
  BY DEF Power
<1> HIDE DEF P
<1>3. \A n \in Nat : P(n)[0] = 1 /\ \A k \in 1..n : P(n)[k] = Base * P(n)[k - 1]
  BY <1>1
<1>4. ASSUME NEW n \in Nat PROVE P(n + 1)[n] = P(n)[n]
  <2> DEFINE S == {k \in Nat : k <= n => P(n + 1)[k] = P(n)[k]}
  <2>1. 0 \in S
    BY <1>3
  <2>2. ASSUME NEW k \in Nat, k \in S PROVE k + 1 \in S
    <3> SUFFICES ASSUME k + 1 <= n PROVE P(n + 1)[k + 1] = P(n)[k + 1]
      OBVIOUS
    <3>1. k + 1 \in 1..n /\ k + 1 \in 1..n + 1 /\ (k + 1) - 1 = k /\ n + 1 \in Nat
      OBVIOUS
    <3>2. P(n + 1)[k] = P(n)[k]
      BY <2>2
    <3>3. P(n + 1)[k + 1] = Base * P(n + 1)[k] /\ P(n)[k + 1] = Base * P(n)[k]
      BY <1>3, <3>1
    <3> QED
      BY <3>2, <3>3
  <2>3. Nat \subseteq S
    <3> HIDE DEF S
    <3> QED
      BY <2>1, <2>2, SetInduction
  <2> QED
    BY <2>3
<1>5. ASSUME NEW n \in Nat PROVE Power(n + 1) = Base * Power(n)
  <2>1. n + 1 \in Nat /\ n + 1 \in 1..n + 1 /\ (n + 1) - 1 = n
    OBVIOUS
  <2>2. P(n + 1)[n + 1] = Base * P(n + 1)[n]
    BY <1>3, <2>1
  <2> QED
    BY <1>2, <1>4, <2>1, <2>2
<1>6. Power(0) = 1
  BY <1>2, <1>3
<1> DEFINE S == {n \in Nat : Power(n) \in Nat \ {0}}
<1>7. \A v \in Nat \ {0} : Base * v \in Nat \ {0}
  BY DigitsAssumption
<1>8. Nat \subseteq S
  <2>1. 0 \in S
    BY <1>6
  <2>2. \A n \in Nat : n \in S => n + 1 \in S
    BY <1>5, <1>7
  <2> HIDE DEF S
  <2> QED
    BY <2>1, <2>2, SetInduction
<1> QED
  BY <1>5, <1>6, <1>8

\* What is left of a number without its digits below Power(k).
LEMMA QuotientIs ==
    ASSUME NEW n \in Nat, NEW k \in Nat
    PROVE  /\ n \div Power(k) \in Nat
           /\ Digit(n, k) \in 0..(Base - 1)
           /\ n \div Power(k) = Base * (n \div Power(k + 1)) + Digit(n, k)
<1> DEFINE q == Power(k)
           d == n \div q
<1>1. q \in Nat /\ q > 0 /\ Power(k + 1) = Base * q
  BY PowerIs
<1>2. Base \in Nat /\ Base > 0
  BY DigitsAssumption
<1>3. d \in Nat
  BY <1>1, DivMod
<1>4. d \div Base = n \div (Base * q)
  BY <1>1, <1>2, DivDiv
<1> DEFINE r == d % Base
           u == Base * (d \div Base)
<1>5. u \in Nat /\ r \in 0..(Base - 1) /\ r = d - u
  <2> HIDE DEF d
  <2> QED
    BY <1>2, <1>3, DivMod
<1>6. u = Base * (n \div Power(k + 1)) /\ r = Digit(n, k)
  BY <1>1, <1>4 DEF Digit
<1>7. d = u + r
  <2> HIDE DEF d, u, r
  <2> QED
    BY <1>2, <1>3, <1>5
<1> QED
  BY <1>3, <1>5, <1>6, <1>7

\* Numbers whose digits agree from place k on differ below Power(k) only.
LEMMA SameAbove ==
    ASSUME NEW n \in Nat, NEW m \in Nat, n < Limit, m < Limit, NEW k \in 0..Digits,
           \A j \in k..(Digits - 1) : Digit(n, j) = Digit(m, j)
    PROVE  n \div Power(k) = m \div Power(k)
<1> USE DigitsAssumption
<1> DEFINE S == {x \in Nat : x <= Digits - k =>
                               n \div Power(Digits - x) = m \div Power(Digits - x)}
<1>1. 0 \in S
  <2>1. Power(Digits) \in Nat /\ Power(Digits) > 0
    BY PowerIs
  <2>2. n \div Limit = 0 /\ m \div Limit = 0
    <3> DEFINE l == Limit
    <3>1. l \in Nat /\ l > 0 /\ n < l /\ m < l
      BY <2>1 DEF Limit
    <3> HIDE DEF l
    <3>2. n \div l = 0 /\ m \div l = 0
      BY <3>1
    <3> QED
      BY <3>2 DEF l
  <2>3. Digits - 0 = Digits
    OBVIOUS
  <2> QED
    BY <2>2, <2>3 DEF Limit
<1>2. ASSUME NEW x \in Nat, x \in S PROVE x + 1 \in S
  <2> SUFFICES ASSUME x + 1 <= Digits - k
               PROVE  n \div Power(Digits - (x + 1)) = m \div Power(Digits - (x + 1))
    OBVIOUS
  <2> DEFINE j == Digits - (x + 1)
  <2>1. j \in Nat /\ j \in k..(Digits - 1) /\ j + 1 = Digits - x
    OBVIOUS
  <2>2. n \div Power(Digits - x) = m \div Power(Digits - x)
    BY <1>2
  <2> HIDE DEF j
  <2>3. n \div Power(j + 1) = m \div Power(j + 1) /\ Digit(n, j) = Digit(m, j)
    BY <2>1, <2>2
  <2>4. /\ n \div Power(j) = Base * (n \div Power(j + 1)) + Digit(n, j)
        /\ m \div Power(j) = Base * (m \div Power(j + 1)) + Digit(m, j)
    BY <2>1, QuotientIs
  <2>5. n \div Power(j) = m \div Power(j)
    BY <2>3, <2>4
  <2> QED
    BY <2>5 DEF j
<1>3. Nat \subseteq S
  <2> HIDE DEF S
  <2> QED
    BY <1>1, <1>2, SetInduction
<1>4. Digits - k \in Nat /\ Digits - (Digits - k) = k
  OBVIOUS
<1> QED
  BY <1>3, <1>4

\* The least of a set of numbers is one of them and no other is smaller.
LEMMA MinIs ==
    ASSUME NEW A \in SUBSET Nat, A # {}
    PROVE  Min(A) \in A /\ \A k \in A : Min(A) <= k
<1>1. \E m \in A : \A k \in A : m <= k
  BY LeastNat
<1> QED
  BY <1>1 DEF Min

\* The digit-wise comparison of a hash and a target is that of their values.
LEMMA MeetsIs ==
    ASSUME NEW n \in Nat, NEW m \in Nat, n < Limit, m < Limit
    PROVE  MeetsTarget(HashOf(n), Fill(m)) <=> n <= m
<1> USE DigitsAssumption
<1> DEFINE A == Differ(HashOf(n), Fill(m))
           i == Min(A)
<1>1. \A h \in 0..(Digits - 1) : /\ Digits - 1 - h \in 0..(Digits - 1)
                                /\ HashOf(n)[Digits - 1 - h] = Digit(n, Digits - 1 - h)
                                /\ Fill(m)[h] = Digit(m, Digits - 1 - h)
  BY DEF HashOf, Fill
<1>2. A = {h \in 0..(Digits - 1) : Digit(n, Digits - 1 - h) # Digit(m, Digits - 1 - h)}
  BY <1>1 DEF Differ
<1>3. \A j \in 0..(Digits - 1) : /\ Digits - 1 - j \in 0..(Digits - 1)
                                /\ Digits - 1 - (Digits - 1 - j) = j
  OBVIOUS
<1>4. \A j \in 0..(Digits - 1) : Digits - 1 - j \notin A => Digit(n, j) = Digit(m, j)
  BY <1>2, <1>3
<1>5. MeetsTarget(HashOf(n), Fill(m)) <=>
        A = {} \/ HashOf(n)[Digits - 1 - i] < Fill(m)[i]
  BY DEF MeetsTarget
<1>6. CASE A = {}
  <2>1. n \div Power(0) = m \div Power(0)
    BY <1>4, <1>6, SameAbove
  <2>2. n \div 1 = n /\ m \div 1 = m
    OBVIOUS
  <2>3. n = m
    BY <2>1, <2>2, PowerIs
  <2> QED
    BY <1>5, <1>6, <2>3
<1>7. CASE A # {}
  <2>1. i \in A /\ \A h \in A : i <= h
    <3>1. A \in SUBSET Nat
      BY <1>2
    <3> HIDE DEF A
    <3> QED
      BY <1>7, <3>1, MinIs
  <2> DEFINE k == Digits - 1 - i
             x == Digit(n, k)
             y == Digit(m, k)
             q == n \div Power(k + 1)
  <2>2. i \in 0..(Digits - 1) /\ k \in 0..(Digits - 1) /\ x # y
    BY <1>2, <2>1
  <2> HIDE DEF A, i
  <2>3. \A j \in k + 1..(Digits - 1) : /\ j \in 0..(Digits - 1)
                                      /\ Digits - 1 - j < i /\ ~(i <= Digits - 1 - j)
    BY <2>2
  <2>4. \A j \in k + 1..(Digits - 1) : Digit(n, j) = Digit(m, j)
    BY <1>4, <2>1, <2>3
  <2>5. k \in Nat /\ k + 1 \in 0..Digits
    BY <2>2
  <2> HIDE DEF k
  <2>6. m \div Power(k + 1) = q
    BY <2>4, <2>5, SameAbove
  <2>7. /\ q \in Nat /\ x \in 0..(Base - 1) /\ y \in 0..(Base - 1)
        /\ n \div Power(k) = Base * q + x
        /\ m \div Power(k) = Base * q + y
    <3>1. k + 1 \in Nat
      BY <2>5
    <3>2. q \in Nat
      BY <3>1, QuotientIs
    <3>3. x \in 0..(Base - 1) /\ n \div Power(k) = Base * q + x
      BY <2>5, QuotientIs
    <3>4. y \in 0..(Base - 1) /\ m \div Power(k) = Base * (m \div Power(k + 1)) + y
      BY <2>5, QuotientIs
    <3> QED
      BY <2>6, <3>2, <3>3, <3>4
  <2>8. MeetsTarget(HashOf(n), Fill(m)) <=> x < y
    BY <1>1, <1>5, <1>7, <2>2 DEF k
  <2> DEFINE z == Base * q
             u == n \div Power(k)
             v == m \div Power(k)
  <2>9. z \in Nat
    BY <2>7
  <2>10. Power(k) \in Nat /\ Power(k) > 0
    BY <2>5, PowerIs
  <2>11. (n <= m => u <= v) /\ (m <= n => v <= u)
    BY <2>10, DivGrows
  <2>12. u = z + x /\ v = z + y /\ x # y /\ x \in Nat /\ y \in Nat
    BY <2>2, <2>7 DEF k
  <2> HIDE DEF x, y, z, u, v
  <2>13. x < y <=> n <= m
    BY <2>9, <2>11, <2>12
  <2> QED
    BY <2>8, <2>13
<1> QED
  BY <1>6, <1>7

\* A hash meets the target of a difficulty when its value times the difficulty is at
\* most Base^Digits, for every base, number of digits, hash and difficulty.
THEOREM TargetJudges ==
    ASSUME NEW n \in 0..(Limit - 1), NEW diff \in Nat \ {0}
    PROVE  MeetsTarget(HashOf(n), ComputeTarget(diff)) <=> n * diff <= Limit
<1>1. Limit \in Nat /\ Limit > 0
  BY DigitsAssumption, PowerIs DEF Limit
<1>2. n \in Nat /\ n < Limit
  BY <1>1
<1>3. CASE diff = 1
  <2> DEFINE t == ComputeTarget(diff)
             pow == HashOf(n)
  <2>1. t = [i \in 0..(Digits - 1) |-> Base - 1]
    BY <1>3 DEF ComputeTarget
  <2>2. \A i \in 0..(Digits - 1) : pow[Digits - 1 - i] \in 0..(Base - 1)
    <3>1. \A i \in 0..(Digits - 1) : /\ Digits - 1 - i \in 0..(Digits - 1)
                                    /\ Digits - 1 - i \in Nat
      BY DigitsAssumption
    <3>2. \A i \in 0..(Digits - 1) : Digit(n, Digits - 1 - i) \in 0..(Base - 1)
      BY <1>2, <3>1, QuotientIs
    <3> QED
      BY <3>1, <3>2 DEF HashOf
  <2>3. Differ(pow, t) \in SUBSET Nat /\ Differ(pow, t) \subseteq 0..(Digits - 1)
    BY DigitsAssumption DEF Differ
  <2>4. \A i \in Differ(pow, t) : pow[Digits - 1 - i] < t[i]
    <3> SUFFICES ASSUME NEW i \in Differ(pow, t) PROVE pow[Digits - 1 - i] < t[i]
      OBVIOUS
    <3>1. i \in 0..(Digits - 1) /\ pow[Digits - 1 - i] # t[i]
      BY DEF Differ
    <3>2. t[i] = Base - 1
      BY <2>1, <3>1
    <3>3. pow[Digits - 1 - i] \in 0..(Base - 1) /\ pow[Digits - 1 - i] # Base - 1
      BY <2>2, <3>1, <3>2
    <3> HIDE DEF pow, t
    <3> QED
      BY <3>2, <3>3, DigitsAssumption
  <2>5. MeetsTarget(pow, t)
    <3> HIDE DEF pow, t
    <3> QED
      BY <2>3, <2>4, MinIs DEF MeetsTarget
  <2> QED
    BY <1>1, <1>2, <1>3, <2>5
<1>4. CASE diff # 1
  <2> DEFINE l == Limit
             m == l \div diff
  <2>1. diff \in Nat /\ diff > 1 /\ l \in Nat /\ l > 0
    BY <1>1, <1>4
  <2>2. m \in Nat /\ m < l
    <3> HIDE DEF l
    <3> QED
      BY <2>1
  <2>3. n <= m <=> n * diff <= l
    <3> HIDE DEF l
    <3> QED
      BY <1>2, <2>1
  <2>4. ComputeTarget(diff) = Fill(m)
    BY <2>1 DEF ComputeTarget
  <2>5. MeetsTarget(HashOf(n), Fill(m)) <=> n <= m
    <3> HIDE DEF m
    <3> QED
      BY <1>2, <2>2, MeetsIs
  <2> QED
    BY <2>3, <2>4, <2>5
<1> QED
  BY <1>3, <1>4

\* Hashes are judged by the target of the job's difficulty, which does not change.
TargetInv ==
    /\ pc = "init" => target = None
    /\ pc # "init" => world \in Worlds
    /\ target # None => world.diff > 0 /\ target = ComputeTarget(world.diff)
    /\ target = None => verdict = None
    /\ TargetIsDefinition

\* No job, no target.
LEMMA TargetInit == Init => TargetInv
  BY DEF Init, TargetInv, TargetIsDefinition

\* The target is computed from the job and a hash judged against it.
LEMMA TargetStep == TargetInv /\ [Next]_vars => TargetInv'
<1> SUFFICES ASSUME TargetInv, [Next]_vars PROVE TargetInv'
  OBVIOUS
<1>1. CASE ParseFlags
  <2>1. PICK w \in Worlds : world' = w
    BY <1>1 DEF ParseFlags
  <2>2. pc = "init" /\ pc' = "kat" /\ target' = target /\ verdict' = verdict
    BY <1>1 DEF ParseFlags
  <2> QED
    BY <2>1, <2>2 DEF TargetInv, TargetIsDefinition
<1>2. CASE FirstJob
  <2>1. /\ pc = "mining" /\ pc' = pc /\ world' = world /\ world.diff > 0
        /\ target = None /\ verdict' = verdict /\ target' = ComputeTarget(world.diff)
    BY <1>2 DEF FirstJob, outside
  <2>2. target' = ComputeTarget(world.diff)'
    BY <2>1 DEF ComputeTarget
  <2> QED
    BY <2>1, <2>2 DEF TargetInv, TargetIsDefinition
<1>3. CASE JudgeHash
  <2>1. PICK n \in 0..(Limit - 1) :
           verdict' = [hash |-> n, share |-> MeetsTarget(HashOf(n), target)]
    BY <1>3 DEF JudgeHash
  <2>2. /\ target # None /\ pc' = pc /\ world' = world /\ target' = target /\ pc # "init"
        /\ world \in Worlds /\ world.diff > 0 /\ target = ComputeTarget(world.diff)
    BY <1>3 DEF JudgeHash, outside, TargetInv
  <2>3. world.diff \in Nat \ {0}
    BY <2>2, WorldsAssumption
  <2>4. MeetsTarget(HashOf(n), target) <=> n * world.diff <= Limit
    BY <2>2, <2>3, TargetJudges
  <2>5. TargetIsDefinition'
    BY <2>1, <2>2, <2>4 DEF TargetIsDefinition
  <2> QED
    BY <2>2, <2>5 DEF TargetInv
<1>4. CASE UNCHANGED <<world, target, verdict>> /\ (pc' = "init" <=> pc = "init")
  BY <1>4 DEF TargetInv, TargetIsDefinition
<1>5. CASE SelfTest \/ LoadConfig \/ PinOrder \/ Preflight \/ PreflightDone \/ StartWorkers
  <2>1. UNCHANGED <<world, target, verdict>>
    BY <1>5 DEF SelfTest, LoadConfig, PinOrder, Preflight, PreflightDone, StartWorkers, outside
  <2>2. pc # "init" /\ pc' # "init"
    BY <1>5 DEF SelfTest, LoadConfig, PinOrder, Preflight, PreflightDone, StartWorkers
  <2> QED
    BY <1>4, <2>1, <2>2
<1>6. CASE SetupLoad \/ SetupAnswer \/ SaveTruncates \/ SaveWrites \/ LoseCPU \/ UNCHANGED vars
  BY <1>4, <1>6 DEF SetupLoad, SetupAnswer, SaveTruncates, SaveWrites, LoseCPU, vars
<1> QED
  BY <1>1, <1>2, <1>3, <1>5, <1>6 DEF Next

\* Every hash the workers judge is called a share exactly when its value times the
\* difficulty of the job is at most Base^Digits.
THEOREM TargetIsRight == Spec => []TargetIsDefinition
<1>1. TargetInv => TargetIsDefinition
  BY DEF TargetInv
<1> QED
  BY TargetInit, TargetStep, <1>1, PTL DEF Spec

-----------------------------------------------------------------------------
(* Pinning.                                                                *)

Idle == {"kat", "load", "order", "start", "mining", "bench"}

\* Of the first n CPUs of the order, those that are gone are the ones that went late.
GoneAreLate(n) == \A i \in 1..n : order[i] \in online <=> order[i] \notin late

\* An order is one CPU for each worker, for at least one worker.
IsOrder == /\ conf.threads \in Nat \ {0}
           /\ DOMAIN order = 1..conf.threads /\ Len(order) = conf.threads

\* Outside the trial the mask is what the process may use; the CPUs tried so far are
\* online unless they went since, and in the end all of them were tried or none is
\* asked for.
PinInv ==
    /\ pc # "init" => world \in Worlds /\ online \subseteq world.machine.allowed
    /\ late \cap online = {} /\ (pc = "init" => late = {})
    /\ pc \in Idle => mask = world.machine.allowed \cap online
    /\ pc = "load" => ~world.flags.bench
    /\ pc = "order" => conf.threads \in Int
    /\ pc = "preflight" => /\ order # NoOrder /\ IsOrder /\ tried \in 0..conf.threads
                           /\ GoneAreLate(tried)
    /\ pc = "start" /\ order # NoOrder => IsOrder
    /\ pc = "start" /\ world.machine.os = "linux" /\ order # NoOrder =>
          GoneAreLate(conf.threads)
    /\ PinsAllOrNone

\* Nothing is pinned yet.
LEMMA PinInit == Init => PinInv
  BY DEF Init, PinInv, PinsAllOrNone, Idle

\* The number of workers is a number, whatever was typed.
LEMMA ThreadsType ==
    ASSUME world \in Worlds
    PROVE  /\ \A n \in Int : normalizedThreadCount(n) \in Int
           /\ \A f \in Contents : f # Torn => resolve(world.flags, f).threads \in Int
<1>1. NumCPU \in Int /\ MaxThreads \in Int
  BY WorldsAssumption, SettingsAssumption, FS_CardinalityType DEF NumCPU
<1>2. \A n \in Int : normalizedThreadCount(n) \in Int
  BY <1>1 DEF normalizedThreadCount
<1>3. ASSUME NEW f \in Contents, f # Torn
      PROVE  Pick(world.flags.threads, f, "threads", 0, 0) \in Int
  <2>1. world.flags.threads \in Int
    BY WorldsAssumption
  <2>2. f = Missing \/ f[("threads")] \in Int \cup {Absent}
    BY <1>3 DEF Contents, Content
  <2> QED
    BY <2>1, <2>2 DEF Pick
<1> QED
  BY <1>2, <1>3 DEF resolve

\* What WantedOrder returns is an order for all workers, or none.
LEMMA WantedIs ==
    ASSUME NEW m, NEW n \in Int, WantedOrder(m, n) # NoOrder
    PROVE  /\ n \in Nat \ {0}
           /\ DOMAIN WantedOrder(m, n) = 1..n /\ Len(WantedOrder(m, n)) = n
<1>1. ASSUME NEW o, pinOrderForThreads(o, n) # NoOrder
      PROVE  /\ n \in Nat \ {0}
             /\ DOMAIN pinOrderForThreads(o, n) = 1..n /\ Len(pinOrderForThreads(o, n)) = n
  <2>1. ~(n <= 0) /\ pinOrderForThreads(o, n) = [i \in 1..n |-> o[i]]
    BY <1>1 DEF pinOrderForThreads
  <2>2. n \in Nat \ {0}
    BY <2>1
  <2>3. Len([i \in 1..n |-> o[i]]) = n
    BY <2>2
  <2> QED
    BY <2>1, <2>2, <2>3
<1> QED
  BY <1>1 DEF WantedOrder

\* Every step keeps what PinOrder has tried and what the workers sit on.
LEMMA PinStep == PinInv /\ SetupInv /\ [Next]_vars => PinInv'
<1> SUFFICES ASSUME PinInv, SetupInv, [Next]_vars PROVE PinInv'
  OBVIOUS
<1> USE DEF Idle
<1>1. CASE ParseFlags
  <2>1. PICK w \in Worlds : /\ world' = w /\ online' = w.machine.allowed
                            /\ mask' = w.machine.allowed /\ pc' = "kat" /\ late' = {}
    BY <1>1 DEF ParseFlags, PinInv
  <2> QED
    BY <2>1 DEF PinInv, PinsAllOrNone
<1>2. CASE SelfTest
  <2>1. /\ pc = "kat" /\ world' = world /\ online' = online /\ mask' = mask
        /\ world \in Worlds /\ late' = late
    BY <1>2 DEF SelfTest, outside, pinVars, PinInv
  <2>2. normalizedThreadCount(world.flags.threads) \in Int
    BY <2>1, ThreadsType, WorldsAssumption
  <2>3. \/ pc' = "exit 1"
        \/ pc' = "order" /\ conf'.threads \in Int
        \/ pc' = "load" /\ ~world.flags.bench
    <3>1. CASE world.flags.bench
      <4>1. \/ pc' = "exit 1"
            \/ /\ pc' = "order"
               /\ conf' = [daemon |-> None, wallet |-> None,
                           threads |-> normalizedThreadCount(world.flags.threads)]
        BY <1>2, <3>1 DEF SelfTest
      <4> DEFINE n == normalizedThreadCount(world.flags.threads)
      <4> HIDE DEF n
      <4>2. conf' = [daemon |-> None, wallet |-> None, threads |-> n] => conf'.threads = n
        OBVIOUS
      <4> QED
        BY <2>2, <4>1, <4>2 DEF n
    <3>2. CASE ~world.flags.bench
      BY <1>2, <3>2 DEF SelfTest
    <3> QED
      BY <3>1, <3>2
  <2>4. CASE pc' = "exit 1"
    BY <2>1, <2>4 DEF PinInv, PinsAllOrNone
  <2>5. CASE pc' = "order" /\ conf'.threads \in Int
    BY <2>1, <2>5 DEF PinInv, PinsAllOrNone
  <2>6. CASE pc' = "load" /\ ~world.flags.bench
    BY <2>1, <2>6 DEF PinInv, PinsAllOrNone
  <2> QED
    BY <2>3, <2>4, <2>5, <2>6
<1>3. CASE LoadConfig
  <2>1. /\ pc = "load" /\ world' = world /\ online' = online /\ mask' = mask
        /\ world \in Worlds /\ file \in Contents /\ late' = late
    BY <1>3 DEF LoadConfig, outside, pinVars, PinInv, SetupInv
  <2>2. \/ pc' = "exit 1"
        \/ pc' = "order" /\ file # Torn /\ conf' = resolve(world.flags, file)
    BY <1>3 DEF LoadConfig, LoadFails
  <2>3. CASE pc' = "exit 1"
    BY <2>1, <2>3 DEF PinInv, PinsAllOrNone
  <2>4. CASE pc' = "order" /\ file # Torn /\ conf' = resolve(world.flags, file)
    <3>1. conf'.threads \in Int
      BY <2>1, <2>4, ThreadsType
    <3> QED
      BY <2>1, <2>4, <3>1 DEF PinInv, PinsAllOrNone
  <2> QED
    BY <2>2, <2>3, <2>4
<1>4. CASE PinOrder
  <2>1. /\ pc = "order" /\ world' = world /\ online' = online /\ mask' = mask
        /\ conf' = conf /\ late' = late /\ tried' = 0 /\ world \in Worlds
        /\ conf.threads \in Int
    BY <1>4 DEF PinOrder, outside, PinInv
  <2>2. order' = NoOrder \/ order' = WantedOrder([world.machine EXCEPT !.allowed = mask],
                                                 conf.threads)
    BY <1>4 DEF PinOrder
  <2>3. order' # NoOrder => IsOrder'
    BY <2>1, <2>2, WantedIs DEF IsOrder
  <2>4. CASE pc' = "preflight"
    <3>1. order' # NoOrder
      BY <1>4, <2>4 DEF PinOrder
    <3>2. tried' \in 0..conf'.threads /\ GoneAreLate(tried)'
      BY <2>1, <2>3, <3>1 DEF IsOrder, GoneAreLate
    <3> QED
      BY <2>1, <2>3, <2>4, <3>1, <3>2 DEF PinInv, PinsAllOrNone
  <2>5. CASE pc' = "start" /\ (world.machine.os = "linux" => order' = NoOrder)
    BY <2>1, <2>3, <2>5 DEF PinInv, PinsAllOrNone
  <2> QED
    BY <1>4, <2>4, <2>5 DEF PinOrder
<1>5. CASE Preflight
  <2>1. /\ pc = "preflight" /\ world' = world /\ online' = online /\ conf' = conf
        /\ late' = late /\ tried < Len(order) /\ world \in Worlds
        /\ order # NoOrder /\ IsOrder /\ tried \in 0..conf.threads
        /\ GoneAreLate(tried) /\ late \cap online = {}
    BY <1>5 DEF Preflight, outside, PinInv
  <2>2. CASE order[tried + 1] \in online
    <3>1. pc' = pc /\ order' = order /\ tried' = tried + 1
      BY <1>5, <2>2 DEF Preflight
    <3>2. IsOrder' /\ tried' \in 0..conf'.threads
      BY <2>1, <3>1 DEF IsOrder
    <3>3. GoneAreLate(tried)'
      <4>1. \A i \in 1..(tried + 1) : i \in 1..tried \/ i = tried + 1
        BY <2>1 DEF IsOrder
      <4> QED
        BY <2>1, <2>2, <3>1, <4>1 DEF GoneAreLate
    <3> QED
      BY <2>1, <3>1, <3>2, <3>3 DEF PinInv, PinsAllOrNone
  <2>3. CASE order[tried + 1] \notin online
    <3>1. /\ pc' = "start" /\ order' = NoOrder
          /\ mask' = world.machine.allowed \cap online
      BY <1>5, <2>3 DEF Preflight
    <3> QED
      BY <2>1, <3>1 DEF PinInv, PinsAllOrNone
  <2> QED
    BY <2>2, <2>3
<1>6. CASE PreflightDone
  <2>1. /\ pc = "preflight" /\ world' = world /\ online' = online /\ conf' = conf
        /\ late' = late /\ tried = Len(order) /\ world \in Worlds
        /\ IsOrder /\ order' = order /\ pc' = "start"
        /\ mask' = world.machine.allowed \cap online
        /\ GoneAreLate(tried) /\ late \cap online = {}
    BY <1>6 DEF PreflightDone, outside, PinInv
  <2>2. IsOrder' /\ GoneAreLate(conf.threads)'
    BY <2>1 DEF IsOrder, GoneAreLate
  <2> QED
    BY <2>1, <2>2 DEF PinInv, PinsAllOrNone
<1>7. CASE StartWorkers
  <2>1. /\ pc = "start" /\ world' = world /\ online' = online /\ conf' = conf
        /\ late' = late /\ order' = order /\ mask' = mask /\ world \in Worlds
        /\ mask = world.machine.allowed \cap online
        /\ pc' \in {"bench", "mining"}
        /\ pinned' = {t \in 0..(conf.threads - 1) : pinCurrentThread(t)}
    BY <1>7 DEF StartWorkers, outside, PinInv
  <2>2. ASSUME world.machine.os = "linux"
        PROVE  pinned' = IF order = NoOrder THEN {}
                         ELSE {t \in 0..(conf.threads - 1) : order[t + 1] \notin late}
    <3>1. CASE order = NoOrder
      BY <2>1, <3>1 DEF pinCurrentThread
    <3>2. CASE order # NoOrder
      <4>1. IsOrder /\ GoneAreLate(conf.threads)
        BY <2>1, <2>2, <3>2 DEF PinInv
      <4>2. \A t \in 0..(conf.threads - 1) : t + 1 \in 1..conf.threads
        BY <4>1 DEF IsOrder
      <4>3. \A t \in 0..(conf.threads - 1) : pinCurrentThread(t) <=> order[t + 1] \notin late
        BY <2>2, <3>2, <4>1, <4>2 DEF pinCurrentThread, GoneAreLate
      <4> QED
        BY <2>1, <3>2, <4>3
    <3> QED
      BY <3>1, <3>2
  <2>3. PinsAllOrNone'
    BY <2>1, <2>2 DEF PinsAllOrNone
  <2> QED
    BY <2>1, <2>3 DEF PinInv
<1>8. CASE LoseCPU
  <2>1. PICK c \in online :
          /\ online # {c} /\ online' = online \ {c}
          /\ mask' = IF mask = {c} THEN online' ELSE mask \ {c}
          /\ late' = late \cup ({c} \cap Vetted)
    BY <1>8 DEF LoseCPU
  <2>2. /\ pc \in {"order", "preflight", "start"} /\ UNCHANGED <<world, pc, conf, order, tried>>
        /\ world \in Worlds /\ online \subseteq world.machine.allowed
        /\ late \cap online = {}
    BY <1>8 DEF LoseCPU, PinInv
  <2>3. pc # "preflight" => mask = online
    BY <2>2 DEF PinInv
  <2>4. /\ online' \subseteq world.machine.allowed /\ late' \cap online' = {}
        /\ pc # "preflight" => mask' = world.machine.allowed \cap online'
    BY <2>1, <2>2, <2>3
  <2>5. ASSUME NEW n, GoneAreLate(n), \A i \in 1..n : order[i] \in Vetted
        PROVE  \A i \in 1..n : order'[i] \in online' <=> order'[i] \notin late'
    BY <2>1, <2>2, <2>5 DEF GoneAreLate
  <2>6. CASE pc = "order"
    BY <2>2, <2>4, <2>6 DEF PinInv, PinsAllOrNone
  <2>7. CASE pc = "preflight"
    <3>1. order # NoOrder /\ IsOrder /\ tried \in 0..conf.threads /\ GoneAreLate(tried)
      BY <2>7 DEF PinInv
    <3>2. IsOrder' /\ tried' \in 0..conf'.threads
      BY <2>2, <3>1 DEF IsOrder
    <3>3. \A i \in 1..tried : order[i] \in Vetted
      BY <2>7, <3>1 DEF Vetted
    <3>4. GoneAreLate(tried)'
      BY <2>2, <2>5, <3>1, <3>3 DEF GoneAreLate
    <3> QED
      BY <2>2, <2>4, <2>7, <3>1, <3>2, <3>4 DEF PinInv, PinsAllOrNone
  <2>8. CASE pc = "start"
    <3>1. order' # NoOrder => IsOrder'
      BY <2>2, <2>8 DEF PinInv, IsOrder
    <3>2. ASSUME order # NoOrder, world.machine.os = "linux" PROVE GoneAreLate(conf.threads)'
      <4>1. IsOrder /\ GoneAreLate(conf.threads)
        BY <2>8, <3>2 DEF PinInv
      <4>2. \A i \in 1..conf.threads : order[i] \in Vetted
        BY <2>8, <3>2, <4>1 DEF Vetted, IsOrder
      <4> QED
        BY <2>2, <2>5, <4>1, <4>2 DEF GoneAreLate
    <3> QED
      BY <2>2, <2>4, <2>8, <3>1, <3>2 DEF PinInv, PinsAllOrNone
  <2> QED
    BY <2>2, <2>6, <2>7, <2>8
<1>9. CASE UNCHANGED <<pc, world, conf, online, pinVars, late>>
  BY <1>9 DEF PinInv, PinsAllOrNone, pinVars, IsOrder, GoneAreLate
<1>10. CASE SetupLoad \/ SetupAnswer \/ SaveTruncates \/ SaveWrites
  BY <1>9, <1>10 DEF SetupLoad, SetupAnswer, SaveTruncates, SaveWrites
<1>11. CASE FirstJob \/ JudgeHash \/ UNCHANGED vars
  BY <1>9, <1>11 DEF FirstJob, JudgeHash, outside, pinVars, vars
<1> QED
  BY <1>1, <1>2, <1>3, <1>4, <1>5, <1>6, <1>7, <1>8, <1>10, <1>11 DEF Next

\* On Linux all workers are pinned or none is, for every machine and order and
\* whatever CPUs go, but for the workers whose own CPU goes after it was tried; and
\* the thread that tried the CPUs gets back what the process may use.
THEOREM PinningIsWhole == Spec => []PinsAllOrNone
<1>1. PinInv => PinsAllOrNone
  BY DEF PinInv
<1> QED
  BY PinInit, PinStep, SetupInit, SetupStep, <1>1, PTL DEF Spec

-----------------------------------------------------------------------------
(* The order of the CPUs of a machine.                                     *)
\* How many of S are below c.
Rank(S, c) == Cardinality({d \in S : d < c})

\* A greater number has more below it.
LEMMA RankGrows ==
    ASSUME NEW S \in SUBSET Nat, IsFiniteSet(S), NEW c \in S, NEW e \in Nat, c < e
    PROVE  Rank(S, c) \in Nat /\ Rank(S, e) \in Nat /\ Rank(S, c) < Rank(S, e)
<1> DEFINE low  == {d \in S : d < c}
           high == {d \in S : d < e}
<1>1. low \in SUBSET high /\ c \in high /\ c \notin low /\ high \in SUBSET S
  <2>1. \A d \in S : d \in Nat /\ (d < c => d < e)
    OBVIOUS
  <2>2. c \in high /\ high \in SUBSET S
    OBVIOUS
  <2>3. c \notin low
    OBVIOUS
  <2> QED
    BY <2>1, <2>2, <2>3
<1> HIDE DEF low, high
<1>2. IsFiniteSet(high)
  BY <1>1, FS_Subset
<1>3. /\ IsFiniteSet(low) /\ Cardinality(low) <= Cardinality(high)
      /\ Cardinality(high) = Cardinality(low) => high = low
  BY <1>1, <1>2, FS_Subset
<1>4. Cardinality(low) \in Nat /\ Cardinality(high) \in Nat
  BY <1>2, <1>3, FS_CardinalityType
<1>5. Cardinality(low) < Cardinality(high)
  BY <1>1, <1>3, <1>4
<1> QED
  BY <1>4, <1>5 DEF Rank, low, high

\* It is below the size of the set.
LEMMA RankIs ==
    ASSUME NEW S \in SUBSET Nat, IsFiniteSet(S), NEW c \in S
    PROVE  Rank(S, c) \in 0..(Cardinality(S) - 1)
<1> DEFINE n   == Cardinality(S)
           low == {d \in S : d < c}
<1>0. n \in Nat
  BY FS_CardinalityType
<1>1. low \in SUBSET S /\ c \notin low
  OBVIOUS
<1> HIDE DEF low
<1>2. /\ IsFiniteSet(low) /\ Cardinality(low) <= n
      /\ n = Cardinality(low) => S = low
  BY <1>1, FS_Subset
<1>3. Cardinality(low) \in Nat
  BY <1>2, FS_CardinalityType
<1>4. Cardinality(low) \in 0..(n - 1)
  BY <1>0, <1>1, <1>2, <1>3
<1> QED
  BY <1>4 DEF Rank, low

\* Every rank from zero up is some number's.
LEMMA RankTaken ==
    ASSUME NEW S \in SUBSET Nat, IsFiniteSet(S), NEW k \in 0..(Cardinality(S) - 1)
    PROVE  \E c \in S : Rank(S, c) = k
<1> DEFINE n == Cardinality(S)
           f == [c \in S |-> Rank(S, c)]
<1>0. n \in Nat
  BY FS_CardinalityType
<1>1. \A c \in S : Rank(S, c) \in 0..(n - 1)
  BY RankIs
<1>2. f \in [S -> 0..(n - 1)]
  BY <1>1
<1>3. ASSUME NEW c \in S, NEW e \in S, f[c] = f[e] PROVE c = e
  <2>1. CASE c < e
    BY <1>3, <2>1, RankGrows
  <2>2. CASE e < c
    BY <1>3, <2>2, RankGrows
  <2> QED
    BY <2>1, <2>2
<1> HIDE DEF f
<1>4. f \in Injection(S, 0..(n - 1))
  BY <1>2, <1>3 DEF Injection, IsInjective
<1>5. IsFiniteSet(0..(n - 1)) /\ Cardinality(0..(n - 1)) = n
  <2>1. 0 \in Int /\ n - 1 \in Int
    BY <1>0
  <2>2. /\ IsFiniteSet(0..(n - 1))
        /\ Cardinality(0..(n - 1)) = IF 0 > n - 1 THEN 0 ELSE (n - 1) - 0 + 1
    BY <2>1, FS_Interval
  <2> QED
    BY <1>0, <2>2
<1>6. f \in Surjection(S, 0..(n - 1))
  BY <1>4, <1>5, FS_Injection
<1>7. PICK c \in S : f[c] = k
  BY <1>6 DEF Surjection
<1> QED
  BY <1>7 DEF f

\* All numbers of the set, in order.
LEMMA AscendingIs ==
    ASSUME NEW S \in SUBSET Nat, IsFiniteSet(S)
    PROVE  /\ Ascending(S) \in Seq(Nat)
           /\ Len(Ascending(S)) = Cardinality(S)
           /\ \A i, j \in 1..Len(Ascending(S)) : i < j => Ascending(S)[i] < Ascending(S)[j]
           /\ Elems(Ascending(S)) = S
<1> DEFINE n == Cardinality(S)
           C(i) == CHOOSE c \in S : Rank(S, c) = i - 1
           a == [i \in 1..n |-> C(i)]
<1>0. n \in Nat
  BY FS_CardinalityType
<1>1. a = Ascending(S)
  BY DEF Ascending, Rank
<1>2. ASSUME NEW i \in 1..n PROVE C(i) \in S /\ Rank(S, C(i)) = i - 1
  <2>1. i - 1 \in 0..(n - 1)
    BY <1>0
  <2>2. \E c \in S : Rank(S, c) = i - 1
    BY <2>1, RankTaken
  <2> QED
    BY <2>2
<1>3. \A i \in 1..n : a[i] \in S /\ Rank(S, a[i]) = i - 1
  BY <1>2
<1>4. a \in [1..n -> Nat]
  BY <1>2
<1>5. a \in Seq(Nat) /\ Len(a) = n
  <2> HIDE DEF a, n
  <2> QED
    BY <1>0, <1>4
<1> HIDE DEF a, C
<1>6. ASSUME NEW i \in 1..n, NEW j \in 1..n, i < j PROVE a[i] < a[j]
  <2>1. /\ a[i] \in S /\ a[j] \in S /\ a[i] \in Nat /\ a[j] \in Nat
        /\ Rank(S, a[i]) = i - 1 /\ Rank(S, a[j]) = j - 1
    BY <1>3
  <2>2. ~(a[j] < a[i])
    <3>1. a[j] < a[i] => j - 1 < i - 1
      BY <2>1, RankGrows
    <3> QED
      BY <1>0, <1>6, <3>1
  <2>3. a[i] # a[j]
    BY <1>0, <1>6, <2>1
  <2> QED
    BY <2>1, <2>2, <2>3
<1>7. ASSUME NEW c \in S PROVE \E i \in 1..n : a[i] = c
  <2>1. Rank(S, c) \in 0..(n - 1)
    BY RankIs
  <2>2. PICK i \in 1..n : i - 1 = Rank(S, c)
    BY <1>0, <2>1
  <2>3. a[i] \in S /\ Rank(S, a[i]) = Rank(S, c)
    BY <1>3, <2>2
  <2>4. a[i] \in Nat /\ c \in Nat /\ Rank(S, c) \in Nat
    <3>1. \A d \in S : d \in Nat
      OBVIOUS
    <3>2. \A k \in 0..(n - 1) : k \in Nat
      BY <1>0
    <3> QED
      BY <2>1, <2>3, <3>1, <3>2
  <2>5. ~(a[i] < c)
    BY <2>3, <2>4, RankGrows
  <2>6. ~(c < a[i])
    BY <2>3, <2>4, RankGrows
  <2> QED
    BY <2>4, <2>5, <2>6
<1>8. Elems(a) = S
  <2>1. Elems(a) = {a[i] : i \in 1..n}
    BY <1>5 DEF Elems
  <2> QED
    BY <1>3, <1>7, <2>1
<1> QED
  BY <1>1, <1>5, <1>6, <1>8

\* Elements of two sequences without common ones.
LEMMA DistinctJoined ==
    ASSUME NEW S, NEW s \in Seq(S), NEW t \in Seq(S), Distinct(s), Distinct(t),
           Elems(s) \cap Elems(t) = {}
    PROVE  Distinct(s \o t)
<1> DEFINE z == s \o t
           m == Len(s)
           n == Len(t)
<1>1. /\ m \in Nat /\ n \in Nat /\ Len(z) = m + n
      /\ \A i \in 1..m : z[i] = s[i]
      /\ \A i \in 1..n : z[m + i] = t[i]
  <2>1. m \in Nat /\ n \in Nat
    OBVIOUS
  <2> QED
    BY <2>1, JoinedIs
<1>2. /\ \A i, j \in 1..m : i # j => s[i] # s[j]
      /\ \A i, j \in 1..n : i # j => t[i] # t[j]
      /\ \A i \in 1..m, j \in 1..n : s[i] # t[j]
  BY DEF Distinct, Elems
<1> HIDE DEF z, m, n
<1>3. ASSUME NEW i \in 1..(m + n), NEW j \in 1..(m + n), i # j PROVE z[i] # z[j]
  <2>1. i \in 1..m \/ (i - m \in 1..n /\ i = m + (i - m))
    BY <1>1
  <2>2. j \in 1..m \/ (j - m \in 1..n /\ j = m + (j - m))
    BY <1>1
  <2>3. CASE i \in 1..m /\ j \in 1..m
    BY <1>1, <1>2, <1>3, <2>3
  <2>4. CASE i \in 1..m /\ (j - m \in 1..n /\ j = m + (j - m))
    <3>1. z[i] = s[i] /\ z[j] = t[j - m]
      BY <1>1, <2>4
    <3> QED
      BY <1>2, <2>4, <3>1
  <2>5. CASE (i - m \in 1..n /\ i = m + (i - m)) /\ j \in 1..m
    <3>1. z[i] = t[i - m] /\ z[j] = s[j]
      BY <1>1, <2>5
    <3> QED
      BY <1>2, <2>5, <3>1
  <2>6. CASE (i - m \in 1..n /\ i = m + (i - m)) /\ (j - m \in 1..n /\ j = m + (j - m))
    <3>1. z[i] = t[i - m] /\ z[j] = t[j - m] /\ i - m # j - m
      BY <1>1, <1>3, <2>6
    <3> QED
      BY <1>2, <2>6, <3>1
  <2> QED
    BY <2>1, <2>2, <2>3, <2>4, <2>5, <2>6
<1> QED
  BY <1>1, <1>3 DEF Distinct, z

\* Lists of different numbers, none of them empty.
Apart(g) ==
    /\ g \in Seq(Seq(Nat))
    /\ \A i \in 1..Len(g) : Len(g[i]) >= 1 /\ Distinct(g[i])
    /\ \A i, j \in 1..Len(g) : i # j => Elems(g[i]) \cap Elems(g[j]) = {}

\* All but the first of one list, and of the first n lists.
Rest(l) == Elems(l) \ {l[1]}
RestsUpTo(g, n) == UNION {Rest(g[i]) : i \in 1..n}

\* The first element is taken away.
LEMMA RestIs ==
    ASSUME NEW l \in Seq(Nat), Len(l) >= 1, Distinct(l)
    PROVE  LET t == SubSeq(l, 2, Len(l))
           IN  t \in Seq(Nat) /\ Distinct(t) /\ Elems(t) = Rest(l)
<1> DEFINE c == Len(l) - 1
           t == SubSeq(l, 1 + 1, 1 + c)
<1>1. c \in Nat /\ 1 \in Nat /\ 1 + c = Len(l) /\ 1 + 1 = 2
  OBVIOUS
<1>2. /\ t \in Seq(Nat) /\ Len(t) = c
      /\ \A i \in 1..c : t[i] = l[1 + i]
  <2> HIDE DEF c
  <2> QED
    BY <1>1, SliceIs
<1>3. \A i, j \in 1..(1 + c) : i # j => l[i] # l[j]
  BY <1>1 DEF Distinct
<1>4. Elems(l) = {l[i] : i \in 1..(1 + c)}
  BY <1>1 DEF Elems
<1>5. SubSeq(l, 2, Len(l)) = t
  BY <1>1
<1> HIDE DEF c, t
<1>6. Distinct(t)
  <2>1. ASSUME NEW i \in 1..c, NEW j \in 1..c, i # j PROVE t[i] # t[j]
    <3>1. 1 + i \in 1..(1 + c) /\ 1 + j \in 1..(1 + c) /\ 1 + i # 1 + j
      BY <1>1, <2>1
    <3> QED
      BY <1>2, <1>3, <3>1
  <2> QED
    BY <1>2, <2>1 DEF Distinct
<1>7. Elems(t) = Rest(l)
  <2>1. ASSUME NEW i \in 1..c PROVE t[i] \in Rest(l)
    <3>1. 1 + i \in 1..(1 + c) /\ 1 \in 1..(1 + c) /\ 1 + i # 1 /\ t[i] = l[1 + i]
      BY <1>1, <1>2
    <3> QED
      BY <1>3, <1>4, <3>1 DEF Rest
  <2>2. ASSUME NEW x \in Rest(l) PROVE \E i \in 1..c : t[i] = x
    <3>1. PICK j \in 1..(1 + c) : x = l[j]
      BY <1>4 DEF Rest
    <3>2. j # 1
      BY <3>1 DEF Rest
    <3>3. j - 1 \in 1..c /\ 1 + (j - 1) = j
      BY <1>1, <3>2
    <3>4. t[j - 1] = x
      BY <1>2, <3>1, <3>3
    <3> QED
      BY <3>3, <3>4
  <2> QED
    BY <1>2, <2>1, <2>2 DEF Elems
<1> QED
  BY <1>2, <1>5, <1>6, <1>7

\* List by list, the others come out, each once.
LEMMA RestsAre ==
    ASSUME NEW g, Apart(g)
    PROVE  /\ Rests(g) \in Seq(Nat) /\ Distinct(Rests(g))
           /\ Elems(Rests(g)) = RestsUpTo(g, Len(g))
<1> DEFINE N == Len(g)
           V(x, n) == x \o SubSeq(g[n], 2, Len(g[n]))
           G(f) == f = [n \in 0..N |-> IF n = 0 THEN <<>> ELSE V(f[n - 1], n)]
           f == CHOOSE h : G(h)
           I(x, n) == x \in Seq(Nat) /\ Distinct(x) /\ Elems(x) = RestsUpTo(g, n)
           T == [n \in 0..N |-> {x \in Seq(Nat) : I(x, n)}]
           step == [n \in 1..N |-> [x \in {y \in Seq(Nat) : I(y, n - 1)} |-> V(x, n)]]
<1>1. N \in Nat /\ \A n \in 1..N : g[n] \in Seq(Nat) /\ Len(g[n]) >= 1 /\ Distinct(g[n])
  BY DEF Apart
<1>2. I(<<>>, 0)
  <2>1. <<>> \in Seq(Nat) /\ Len(<<>>) = 0 /\ 1..0 = {}
    OBVIOUS
  <2>2. Distinct(<<>>)
    BY <2>1 DEF Distinct
  <2>3. Elems(<<>>) = {} /\ RestsUpTo(g, 0) = {}
    BY <2>1 DEF Elems, RestsUpTo
  <2> QED
    BY <2>1, <2>2, <2>3
<1>3. ASSUME NEW n \in 1..N, NEW x, I(x, n - 1) PROVE I(V(x, n), n)
  <2> DEFINE t == SubSeq(g[n], 2, Len(g[n]))
  <2>1. t \in Seq(Nat) /\ Distinct(t) /\ Elems(t) = Rest(g[n])
    BY <1>1, RestIs
  <2>2. Elems(x) \cap Elems(t) = {}
    <3>1. ASSUME NEW i \in 1..(n - 1) PROVE Rest(g[i]) \cap Rest(g[n]) = {}
      <4>1. i \in 1..N /\ i # n
        BY <1>1
      <4>2. Elems(g[i]) \cap Elems(g[n]) = {}
        BY <4>1 DEF Apart
      <4> QED
        BY <4>2 DEF Rest
    <3>2. Elems(x) = UNION {Rest(g[i]) : i \in 1..(n - 1)}
      BY <1>3 DEF RestsUpTo
    <3> HIDE DEF t
    <3> QED
      BY <2>1, <3>1, <3>2
  <2> HIDE DEF t
  <2>3. x \o t \in Seq(Nat) /\ Distinct(x \o t) /\ Elems(x \o t) = Elems(x) \cup Elems(t)
    BY <1>3, <2>1, <2>2, DistinctJoined, ElemsOfJoined
  <2>4. RestsUpTo(g, n) = RestsUpTo(g, n - 1) \cup Rest(g[n])
    <3>1. \A i : i \in 1..n <=> i \in 1..(n - 1) \/ i = n
      BY <1>1
    <3> QED
      BY <3>1 DEF RestsUpTo
  <2>5. I(x \o t, n)
    BY <1>3, <2>1, <2>3, <2>4
  <2> QED
    BY <2>5 DEF t
<1> HIDE DEF I
<1>4. PICK h : Solves(h, N, T, <<>>, step)
  <2>1. <<>> \in T[0]
    <3>1. 0 \in 0..N /\ <<>> \in Seq(Nat)
      BY <1>1
    <3> QED
      BY <1>2, <3>1
  <2>2. ASSUME NEW n \in 1..N, NEW x \in T[n - 1] PROVE step[n][x] \in T[n]
    <3>1. n - 1 \in 0..N /\ n \in 0..N
      BY <1>1
    <3>2. x \in Seq(Nat) /\ I(x, n - 1)
      BY <3>1
    <3>3. I(V(x, n), n)
      BY <1>3, <3>2
    <3>4. V(x, n) \in Seq(Nat)
      BY <3>3 DEF I
    <3>5. step[n][x] = V(x, n)
      <4> HIDE DEF V
      <4> QED
        BY <3>2
    <3> HIDE DEF V, step
    <3> QED
      BY <3>1, <3>3, <3>4, <3>5
  <2> HIDE DEF T, step
  <2> QED
    BY <1>1, <2>1, <2>2, RecursionWithin
<1>5. G(h)
  <2>1. ASSUME NEW n \in 1..N PROVE h[n] = V(h[n - 1], n)
    <3>1. n - 1 \in 0..N
      BY <1>1
    <3>2. h[n] = step[n][h[n - 1]] /\ h[n - 1] \in T[n - 1]
      BY <1>4, <3>1 DEF Solves
    <3>3. h[n - 1] \in Seq(Nat) /\ I(h[n - 1], n - 1)
      BY <3>1, <3>2
    <3> HIDE DEF V
    <3> QED
      BY <3>2, <3>3
  <2>2. h = [n \in 0..N |-> h[n]] /\ h[0] = <<>>
    BY <1>4 DEF Solves
  <2>3. ASSUME NEW n \in 0..N PROVE h[n] = IF n = 0 THEN <<>> ELSE V(h[n - 1], n)
    <3> HIDE DEF V, T, step
    <3>1. CASE n = 0
      BY <2>2, <3>1
    <3>2. CASE n \in 1..N
      BY <2>1, <3>2
    <3> QED
      BY <1>1, <3>1, <3>2
  <2> HIDE DEF V, T, step
  <2> QED
    BY <2>2, <2>3
<1>6. G(f)
  BY <1>5
<1>7. Rests(g) = f[N]
  BY DEF Rests
<1> HIDE DEF f
<1>8. f[0] = <<>> /\ \A n \in 1..N : f[n] = V(f[n - 1], n)
  <2>1. 0 \in 0..N /\ \A n \in 1..N : n \in 0..N /\ n # 0
    BY <1>1
  <2> HIDE DEF V
  <2> QED
    BY <1>6, <2>1
<1>9. I(f[N], N)
  <2> DEFINE S == [n \in 0..N |-> {x \in Seq(Nat) : I(x, n)}]
  <2>1. f[0] \in S[0]
    <3>1. 0 \in 0..N /\ <<>> \in Seq(Nat)
      BY <1>1
    <3> QED
      BY <1>2, <1>8, <3>1
  <2>2. ASSUME NEW n \in 1..N, f[n - 1] \in S[n - 1] PROVE f[n] \in S[n]
    <3>1. n - 1 \in 0..N /\ n \in 0..N
      BY <1>1
    <3>2. I(f[n - 1], n - 1)
      BY <2>2, <3>1
    <3>3. I(V(f[n - 1], n), n)
      BY <1>3, <3>2
    <3>4. I(f[n], n)
      <4> HIDE DEF V
      <4> QED
        BY <1>8, <3>3
    <3>5. f[n] \in Seq(Nat)
      BY <3>4 DEF I
    <3> QED
      BY <3>1, <3>4, <3>5
  <2>3. N \in 0..N
    BY <1>1
  <2>4. f[N] \in S[N]
    <3> HIDE DEF S, V
    <3> QED
      BY <1>1, <2>1, <2>2, <2>3, HandedOn
  <2> QED
    BY <2>3, <2>4
<1> QED
  BY <1>7, <1>9 DEF I

\* The first of every list, then the others: every element once.
LEMMA FirstsThenRests ==
    ASSUME NEW g, Apart(g)
    PROVE  LET o == Firsts(g) \o Rests(g)
           IN  /\ o \in Seq(Nat) /\ Distinct(o) /\ Len(g) <= Len(o)
               /\ \A i \in 1..Len(g) : o[i] = g[i][1] /\ g[i][1] \in Elems(g[i])
               /\ \A i \in 1..Len(o) : i > Len(g) => \E j \in 1..Len(g) : o[i] \in Elems(g[j])
<1> DEFINE k == Len(g)
           f == Firsts(g)
           r == Rests(g)
<1>1. k \in Nat /\ \A n \in 1..k : g[n] \in Seq(Nat) /\ Len(g[n]) >= 1
  BY DEF Apart
<1>2. \A i \in 1..k : g[i][1] \in Elems(g[i]) /\ g[i][1] \in Nat
  <2> SUFFICES ASSUME NEW i \in 1..k PROVE g[i][1] \in Elems(g[i]) /\ g[i][1] \in Nat
    OBVIOUS
  <2> DEFINE l == g[i]
  <2>1. l \in Seq(Nat) /\ 1 \in 1..Len(l)
    BY <1>1
  <2>2. l[1] \in Nat
    BY <2>1
  <2> HIDE DEF l
  <2>3. l[1] \in Elems(l)
    BY <2>1 DEF Elems
  <2> QED
    BY <2>2, <2>3 DEF l
<1>3. f = [i \in 1..k |-> g[i][1]]
  BY DEF Firsts
<1>4. f \in Seq(Nat) /\ Len(f) = k
  <2>1. f \in [1..k -> Nat]
    BY <1>2, <1>3
  <2> HIDE DEF f, k
  <2> QED
    BY <1>1, <2>1
<1>5. Distinct(f)
  <2>1. ASSUME NEW i \in 1..k, NEW j \in 1..k, i # j PROVE f[i] # f[j]
    <3>1. Elems(g[i]) \cap Elems(g[j]) = {}
      BY <2>1 DEF Apart
    <3> QED
      BY <1>2, <1>3, <3>1
  <2> QED
    BY <1>4, <2>1 DEF Distinct
<1>6. r \in Seq(Nat) /\ Distinct(r) /\ Elems(r) = RestsUpTo(g, k)
  BY RestsAre
<1>7. ASSUME NEW x \in Elems(r) PROVE \E j \in 1..k : x \in Elems(g[j]) /\ x # g[j][1]
  BY <1>6 DEF RestsUpTo, Rest
<1>8. Elems(f) \cap Elems(r) = {}
  <2>1. ASSUME NEW i \in 1..k, f[i] \in Elems(r) PROVE FALSE
    <3>1. PICK j \in 1..k : f[i] \in Elems(g[j]) /\ f[i] # g[j][1]
      BY <1>7, <2>1
    <3>2. f[i] = g[i][1] /\ f[i] \in Elems(g[i])
      BY <1>2, <1>3
    <3>3. i = j
      BY <3>1, <3>2 DEF Apart
    <3> QED
      BY <3>1, <3>2, <3>3
  <2>2. Elems(f) = {f[i] : i \in 1..k}
    BY <1>4 DEF Elems
  <2> HIDE DEF f, r
  <2> QED
    BY <2>1, <2>2
<1> DEFINE o == f \o r
<1>9. o \in Seq(Nat) /\ Distinct(o)
  <2> HIDE DEF f, r
  <2> QED
    BY <1>4, <1>5, <1>6, <1>8, DistinctJoined
<1>10. /\ Len(o) = k + Len(r)
       /\ \A i \in 1..k : o[i] = f[i]
       /\ \A i \in 1..Len(r) : o[k + i] = r[i]
  <2> HIDE DEF f, r, k
  <2>1. /\ Len(o) = Len(f) + Len(r)
        /\ \A i \in 1..Len(f) : o[i] = f[i]
        /\ \A i \in 1..Len(r) : o[Len(f) + i] = r[i]
    <3>1. f \in Seq(Nat) /\ r \in Seq(Nat)
      BY <1>4, <1>6
    <3> QED
      BY <3>1, JoinedIs
  <2> QED
    BY <1>4, <2>1
<1>11. Len(r) \in Nat
  BY <1>6
<1>12. ASSUME NEW i \in 1..Len(o), i > k PROVE \E j \in 1..k : o[i] \in Elems(g[j])
  <2>1. i - k \in 1..Len(r) /\ k + (i - k) = i
    BY <1>1, <1>10, <1>11, <1>12
  <2>2. o[i] = r[i - k]
    BY <1>10, <2>1
  <2>3. r[i - k] \in Elems(r)
    BY <2>1 DEF Elems
  <2> HIDE DEF o, r
  <2> QED
    BY <1>7, <2>2, <2>3
<1>13. k <= Len(o)
  BY <1>1, <1>10, <1>11
<1>14. \A i \in 1..k : o[i] = g[i][1] /\ g[i][1] \in Elems(g[i])
  BY <1>2, <1>3, <1>10
<1> HIDE DEF f, r
<1> QED
  BY <1>9, <1>12, <1>13, <1>14 DEF f, r

\* The numbers in order differ.
LEMMA AscendingDiffers ==
    ASSUME NEW S \in SUBSET Nat, IsFiniteSet(S)
    PROVE  Distinct(Ascending(S))
<1> DEFINE a == Ascending(S)
           n == Len(a)
<1>1. /\ a \in Seq(Nat)
      /\ \A i, j \in 1..n : i < j => a[i] < a[j]
  BY AscendingIs
<1> HIDE DEF a
<1>2. ASSUME NEW i \in 1..n, NEW j \in 1..n, i # j PROVE a[i] # a[j]
  <2>1. a[i] \in Nat /\ a[j] \in Nat /\ n \in Nat
    BY <1>1
  <2>2. i < j \/ j < i
    BY <1>2, <2>1
  <2>3. a[i] < a[j] \/ a[j] < a[i]
    BY <1>1, <2>2
  <2> QED
    BY <2>1, <2>3
<1> QED
  BY <1>2 DEF Distinct, a

\* Lists of the CPUs of one core each.
ByCore(g, core) ==
    \A i, j \in 1..Len(g) : \A c \in Elems(g[i]), d \in Elems(g[j]) :
       core[c] = core[d] <=> i = j

\* A CPU of a core that is used already comes after one of every core.
Late(g, core, f) ==
    \A i \in 1..Len(f) :
       LET second == \E h \in 1..(i - 1) : core[f[h]] = core[f[i]]
       IN  /\ second => \A j \in 1..Len(g) : \A c \in Elems(g[j]) :
                           \E h \in 1..(i - 1) : core[f[h]] = core[c]
           /\ ~second => i <= Len(g)

LEMMA SecondIsLate ==
    ASSUME NEW g, Apart(g), NEW core, ByCore(g, core)
    PROVE  Late(g, core, Firsts(g) \o Rests(g))
<1> DEFINE f == Firsts(g) \o Rests(g)
           second(i) == \E h \in 1..(i - 1) : core[f[h]] = core[f[i]]
<1>0. /\ f \in Seq(Nat) /\ Len(g) <= Len(f)
      /\ \A j \in 1..Len(g) : f[j] = g[j][1] /\ g[j][1] \in Elems(g[j])
      /\ \A j \in 1..Len(f) : j > Len(g) => \E l \in 1..Len(g) : f[j] \in Elems(g[l])
  BY FirstsThenRests
<1> HIDE DEF f
<1> SUFFICES ASSUME NEW i \in 1..Len(f)
             PROVE  /\ second(i) => \A j \in 1..Len(g) : \A c \in Elems(g[j]) :
                                       \E h \in 1..(i - 1) : core[f[h]] = core[c]
                    /\ ~second(i) => i <= Len(g)
  BY DEF Late, f
<1> DEFINE k == Len(g)
<1>1. /\ f \in Seq(Nat) /\ k <= Len(f)
      /\ \A j \in 1..k : f[j] = g[j][1] /\ g[j][1] \in Elems(g[j])
      /\ \A j \in 1..Len(f) : j > k => \E l \in 1..k : f[j] \in Elems(g[l])
  BY <1>0
<1>2. k \in Nat /\ i \in Nat /\ i >= 1
  BY <1>1 DEF Apart
<1>3. \A j \in 1..k : f[j] \in Elems(g[j])
  BY <1>1
<1>4. ASSUME NEW h \in 1..(i - 1), core[f[h]] = core[f[i]] PROVE i > k
  <2> SUFFICES ASSUME i <= k PROVE FALSE
    BY <1>2
  <2>1. h \in 1..k /\ i \in 1..k /\ h # i
    BY <1>2
  <2>2. f[h] \in Elems(g[h]) /\ f[i] \in Elems(g[i])
    BY <1>3, <2>1
  <2> QED
    BY <1>4, <2>1, <2>2 DEF ByCore
<1>5. ASSUME i > k, NEW j \in 1..k, NEW c \in Elems(g[j])
      PROVE  \E h \in 1..(i - 1) : core[f[h]] = core[c]
  <2>1. j \in 1..(i - 1)
    BY <1>2, <1>5
  <2>2. core[f[j]] = core[c]
    <3>1. f[j] \in Elems(g[j])
      BY <1>3
    <3>2. \A x, y \in Elems(g[j]) : core[x] = core[y]
      BY DEF ByCore
    <3> QED
      BY <3>1, <3>2
  <2> QED
    BY <2>1, <2>2
<1>6. ASSUME i > k PROVE \E h \in 1..(i - 1) : core[f[h]] = core[f[i]]
  <2>1. PICK j \in 1..k : f[i] \in Elems(g[j])
    BY <1>1, <1>6
  <2> QED
    BY <1>5, <1>6, <2>1
<1>7. second(i) => i > k
  BY <1>4
<1>8. ~second(i) => i <= k
  BY <1>2, <1>6
<1>9. ASSUME second(i)
      PROVE  \A j \in 1..k : \A c \in Elems(g[j]) : \E h \in 1..(i - 1) : core[f[h]] = core[c]
  <2>1. i > k
    BY <1>7, <1>9
  <2> QED
    BY <1>5, <2>1
<1> QED
  BY <1>8, <1>9

-----------------------------------------------------------------------------
(* The orders.                                                             *)

\* The mask of a thread is some of the CPUs.
Within(m, a) == [m EXCEPT !.allowed = a]

LEMMA WithinIs ==
    ASSUME NEW m, DOMAIN m = MachineFields, NEW a
    PROVE  /\ Within(m, a).allowed = a /\ Within(m, a).os = m.os
           /\ Within(m, a).lists = m.lists /\ Within(m, a).records = m.records
  BY DEF Within, MachineFields

\* Siblings are CPUs that may be used.
LEMMA GroupIs ==
    ASSUME NEW m, m.allowed \subseteq Nat, IsFiniteSet(m.allowed), NEW c
    PROVE  /\ Group(m, c) \in SUBSET m.allowed /\ Group(m, c) \in SUBSET Nat
           /\ IsFiniteSet(Group(m, c))
<1>1. Group(m, c) \in SUBSET m.allowed
  BY DEF Group
<1> QED
  BY <1>1, FS_Subset

\* What linuxPinOrder asks of the sibling files.
Usable(m) == \A c \in m.allowed : parseCPUList(m.lists[c]) # Garbled /\ c \in Group(m, c)
Groups(m) == {Group(m, c) : c \in m.allowed}
InOne(m)  == \A c \in m.allowed : Cardinality({g \in Groups(m) : c \in g}) = 1
Heads(m)  == {Ascending(g)[1] : g \in Groups(m)}
Listed(m) == LET heads == Ascending(Heads(m))
             IN  [i \in 1..Len(heads) |-> Ascending(Group(m, heads[i]))]

\* Its order is the lists joined, or all CPUs in order.
LEMMA LinuxIs ==
    ASSUME NEW m
    PROVE  linuxPinOrder(m) = IF Usable(m) /\ InOne(m)
                              THEN Firsts(Listed(m)) \o Rests(Listed(m))
                              ELSE Ascending(m.allowed)
  BY DEF linuxPinOrder, Usable, InOne, Groups, Listed, Heads

\* Every CPU is in the list of one head, and heads have lists of their own.
LEMMA ListedAre ==
    ASSUME NEW m, m.allowed \subseteq Nat, IsFiniteSet(m.allowed), Usable(m), InOne(m)
    PROVE  /\ Apart(Listed(m))
           /\ \A c \in m.allowed : \E j \in 1..Len(Listed(m)) : c \in Elems(Listed(m)[j])
           /\ \A j \in 1..Len(Listed(m)) : \E h \in m.allowed : Elems(Listed(m)[j]) = Group(m, h)
<1> DEFINE A == m.allowed
           H == Heads(m)
           heads == Ascending(H)
           n == Len(heads)
           l == Listed(m)
<1>1. \A g \in Groups(m) : g \in SUBSET A /\ g \in SUBSET Nat /\ IsFiniteSet(g)
  BY GroupIs DEF Groups
<1>2. ASSUME NEW g \in Groups(m), NEW h \in Groups(m), NEW c \in A, c \in g, c \in h
      PROVE  g = h
  <2> DEFINE of == {x \in Groups(m) : c \in x}
  <2>1. Cardinality(of) = 1
    BY DEF InOne
  <2>2. IsFiniteSet(of)
    <3>1. of \in SUBSET (SUBSET A)
      BY <1>1
    <3>2. IsFiniteSet(SUBSET A)
      BY FS_SUBSET
    <3> HIDE DEF of
    <3> QED
      BY <3>1, <3>2, FS_Subset
  <2>3. g \in of /\ h \in of
    BY <1>2
  <2> HIDE DEF of
  <2>4. \E x : of = {x}
    BY <2>1, <2>2, FS_Singleton
  <2> QED
    BY <2>3, <2>4
<1>3. ASSUME NEW g \in Groups(m)
      PROVE  Ascending(g)[1] \in g
  <2>1. g # {}
    BY DEF Groups, Usable
  <2>2. g \in SUBSET Nat /\ IsFiniteSet(g)
    BY <1>1
  <2>3. Ascending(g) \in Seq(Nat) /\ Elems(Ascending(g)) = g
    BY <2>2, AscendingIs
  <2> DEFINE a == Ascending(g)
  <2>4. a \in Seq(Nat) /\ g = {a[i] : i \in 1..Len(a)}
    BY <2>3 DEF Elems
  <2> HIDE DEF a
  <2>5. 1 \in 1..Len(a)
    <3>1. Len(a) \in Nat /\ 1..Len(a) # {}
      BY <2>1, <2>4
    <3> QED
      BY <3>1
  <2>6. a[1] \in g
    BY <2>4, <2>5
  <2> QED
    BY <2>6 DEF a
<1>4. \A h \in H : \E g \in Groups(m) : h = Ascending(g)[1] /\ h \in g
  BY <1>3 DEF Heads
<1>5. H \in SUBSET A /\ H \in SUBSET Nat /\ IsFiniteSet(H)
  <2>1. H \in SUBSET A
    BY <1>1, <1>4
  <2> HIDE DEF H
  <2> QED
    BY <2>1, FS_Subset
<1>6. ASSUME NEW h \in H
      PROVE  h \in A /\ h \in Group(m, h) /\ h = Ascending(Group(m, h))[1]
  <2>1. PICK g \in Groups(m) : h = Ascending(g)[1] /\ h \in g
    BY <1>4
  <2>2. h \in A /\ h \in Group(m, h) /\ Group(m, h) \in Groups(m)
    BY <1>5 DEF Usable, Groups
  <2>3. g = Group(m, h)
    BY <1>2, <2>1, <2>2
  <2> QED
    BY <2>1, <2>2, <2>3
<1>7. /\ heads \in Seq(Nat) /\ Elems(heads) = H /\ Distinct(heads)
  <2> HIDE DEF H
  <2> QED
    BY <1>5, AscendingIs, AscendingDiffers
<1>8. l = [i \in 1..n |-> Ascending(Group(m, heads[i]))]
  BY DEF Listed
<1>9. n \in Nat
  BY <1>7
<1>10. \A i \in 1..n : heads[i] \in H
  BY <1>7 DEF Elems
<1>11. \A x \in H : \E i \in 1..n : heads[i] = x
  BY <1>7 DEF Elems
<1>12. \A i, j \in 1..n : i # j => heads[i] # heads[j]
  BY <1>7 DEF Distinct
<1> HIDE DEF heads, l, H
<1>13. ASSUME NEW i \in 1..n
       PROVE  /\ l[i] \in Seq(Nat) /\ Distinct(l[i]) /\ Elems(l[i]) = Group(m, heads[i])
              /\ heads[i] \in Group(m, heads[i]) /\ Len(l[i]) >= 1
  <2>1. heads[i] \in H
    BY <1>10
  <2>2. heads[i] \in Group(m, heads[i])
    BY <1>6, <2>1
  <2> DEFINE S == Group(m, heads[i])
  <2>3. S \in SUBSET Nat /\ IsFiniteSet(S)
    BY GroupIs
  <2>4. l[i] = Ascending(S)
    BY <1>8
  <2> HIDE DEF S
  <2>5. l[i] \in Seq(Nat) /\ Elems(l[i]) = S /\ Distinct(l[i])
    BY <2>3, <2>4, AscendingIs, AscendingDiffers
  <2>6. Len(l[i]) >= 1
    <3>1. Elems(l[i]) # {} /\ Len(l[i]) \in Nat
      BY <2>2, <2>5 DEF S
    <3>2. 1..Len(l[i]) # {}
      BY <3>1 DEF Elems
    <3> QED
      BY <3>1, <3>2
  <2> QED
    BY <2>2, <2>5, <2>6 DEF S
<1>14. l \in Seq(Seq(Nat)) /\ Len(l) = n
  <2>1. l \in [1..n -> Seq(Nat)]
    BY <1>8, <1>13
  <2> HIDE DEF n
  <2> QED
    BY <1>9, <2>1
<1>15. ASSUME NEW i \in 1..n, NEW j \in 1..n, i # j PROVE Elems(l[i]) \cap Elems(l[j]) = {}
  <2> SUFFICES ASSUME NEW c \in Elems(l[i]), c \in Elems(l[j]) PROVE FALSE
    OBVIOUS
  <2>1. c \in Group(m, heads[i]) /\ c \in Group(m, heads[j])
    BY <1>13
  <2>2. heads[i] \in H /\ heads[j] \in H
    BY <1>10
  <2>3. /\ heads[i] \in A /\ heads[i] = Ascending(Group(m, heads[i]))[1]
        /\ heads[j] \in A /\ heads[j] = Ascending(Group(m, heads[j]))[1]
    BY <1>6, <2>2
  <2>4. Group(m, heads[i]) = Group(m, heads[j])
    <3>1. Group(m, heads[i]) \in Groups(m) /\ Group(m, heads[j]) \in Groups(m)
      BY <2>3 DEF Groups
    <3>2. c \in A
      BY <1>1, <2>1, <3>1
    <3> QED
      BY <1>2, <2>1, <3>1, <3>2
  <2> QED
    BY <1>12, <1>15, <2>3, <2>4
<1>16. Apart(l)
  BY <1>13, <1>14, <1>15 DEF Apart
<1>17. ASSUME NEW c \in A PROVE \E j \in 1..n : c \in Elems(l[j])
  <2>1. Group(m, c) \in Groups(m) /\ c \in Group(m, c)
    BY DEF Groups, Usable
  <2> DEFINE x == Ascending(Group(m, c))[1]
  <2>2. x \in H /\ x \in Group(m, c)
    BY <1>3, <2>1 DEF H, Heads
  <2> HIDE DEF x
  <2>3. Group(m, x) = Group(m, c)
    <3>1. x \in A /\ x \in Group(m, x)
      BY <1>6, <2>2
    <3>2. Group(m, x) \in Groups(m)
      BY <3>1 DEF Groups
    <3> QED
      BY <1>2, <2>1, <2>2, <3>1, <3>2
  <2>4. PICK j \in 1..n : heads[j] = x
    BY <1>11, <2>2
  <2> QED
    BY <1>13, <2>1, <2>3, <2>4
<1>18. \A j \in 1..n : heads[j] \in A /\ Elems(l[j]) = Group(m, heads[j])
  BY <1>5, <1>10, <1>13
<1> QED
  BY <1>14, <1>16, <1>17, <1>18 DEF l

-----------------------------------------------------------------------------
\* What CoresFirst says of an order for the CPUs of cpus.
Spread(f, m, cpus) ==
    \A i \in 1..Len(f) :
       LET core(j) == m.coreOf[f[j]]
           second  == \E h \in 1..(i - 1) : core(h) = core(i)
       IN  /\ second => \A c \in cpus : \E h \in 1..(i - 1) : core(h) = m.coreOf[c]
           /\ m.os = "windows" => \A h \in 1..(i - 1) :
                 ~second => m.classOf[core(h)] >= m.classOf[core(i)]

\* An order PinOrder may start from.
Good(f, m, cpus) == f \in Seq(Nat) /\ Distinct(f) /\ (Truthful(m) => Spread(f, m, cpus))

\* When the kernel is right, so are the lists of the CPUs that are left.
LEMMA TruthIsUsable ==
    ASSUME NEW m, DOMAIN m = MachineFields, m.os = "linux", m.allowed \subseteq Nat,
           IsFiniteSet(m.allowed), Truthful(m), NEW a \in SUBSET m.allowed
    PROVE  LET w == Within(m, a)
           IN  /\ a \subseteq DOMAIN w.lists /\ Usable(w) /\ InOne(w)
               /\ \A c \in a : Group(w, c) = {d \in a : m.coreOf[d] = m.coreOf[c]}
<1> DEFINE w == Within(m, a)
<1>1. w.allowed = a /\ w.lists = m.lists
  BY WithinIs
<1>2. \A c \in m.allowed : /\ c \in DOMAIN m.lists
                           /\ parseCPUList(m.lists[c]) # Garbled
                           /\ Group(m, c) = {d \in m.allowed : m.coreOf[d] = m.coreOf[c]}
  BY DEF Truthful
<1> HIDE DEF w
<1>3. ASSUME NEW c \in a PROVE Group(w, c) = {d \in a : m.coreOf[d] = m.coreOf[c]}
  <2>1. Group(w, c) = parseCPUList(m.lists[c]) \cap a
    BY <1>1 DEF Group
  <2>2. parseCPUList(m.lists[c]) \cap m.allowed = {d \in m.allowed : m.coreOf[d] = m.coreOf[c]}
    BY <1>2 DEF Group
  <2> QED
    BY <2>1, <2>2
<1>4. Usable(w)
  <2>1. \A c \in a : parseCPUList(w.lists[c]) # Garbled
    BY <1>1, <1>2
  <2> QED
    BY <1>1, <1>3, <2>1 DEF Usable
<1>5. InOne(w)
  <2> SUFFICES ASSUME NEW c \in a PROVE Cardinality({g \in Groups(w) : c \in g}) = 1
    BY <1>1 DEF InOne
  <2>1. {g \in Groups(w) : c \in g} = {Group(w, c)}
    <3>1. ASSUME NEW e \in a, c \in Group(w, e) PROVE Group(w, e) = Group(w, c)
      <4>1. /\ Group(w, e) = {d \in a : m.coreOf[d] = m.coreOf[e]}
            /\ Group(w, c) = {d \in a : m.coreOf[d] = m.coreOf[c]}
        BY <1>3
      <4>2. m.coreOf[c] = m.coreOf[e]
        BY <3>1, <4>1
      <4> QED
        BY <4>1, <4>2
    <3>2. c \in Group(w, c) /\ Group(w, c) \in Groups(w)
      BY <1>1, <1>3 DEF Groups
    <3>3. \A g \in Groups(w) : \E e \in a : g = Group(w, e)
      BY <1>1 DEF Groups
    <3> QED
      BY <3>1, <3>2, <3>3
  <2> QED
    BY <2>1, FS_Singleton
<1>6. a \subseteq DOMAIN w.lists
  BY <1>1, <1>2
<1> QED
  BY <1>3, <1>4, <1>5, <1>6 DEF w

\* The order on Linux.
LEMMA LinuxIsGood ==
    ASSUME NEW m, DOMAIN m = MachineFields, m.os = "linux", m.allowed \subseteq Nat,
           IsFiniteSet(m.allowed), NEW a \in SUBSET m.allowed
    PROVE  LET w == Within(m, a)
           IN  Good(IF a \subseteq DOMAIN w.lists THEN linuxPinOrder(w) ELSE Ascending(a), m, a)
<1> DEFINE w == Within(m, a)
           f == IF a \subseteq DOMAIN w.lists THEN linuxPinOrder(w) ELSE Ascending(a)
           g == Listed(w)
<1>1. w.allowed = a /\ w.lists = m.lists
  BY WithinIs
<1>2. a \in SUBSET Nat /\ IsFiniteSet(a)
  BY FS_Subset
<1> HIDE DEF w
<1>3. CASE a \subseteq DOMAIN w.lists /\ Usable(w) /\ InOne(w)
  <2>1. f = Firsts(g) \o Rests(g)
    BY <1>3, LinuxIs
  <2>2. /\ Apart(g)
        /\ \A c \in a : \E j \in 1..Len(g) : c \in Elems(g[j])
        /\ \A j \in 1..Len(g) : \E h \in a : Elems(g[j]) = Group(w, h)
    BY <1>1, <1>2, <1>3, ListedAre
  <2> HIDE DEF f, g
  <2>3. f \in Seq(Nat) /\ Distinct(f)
    BY <2>1, <2>2, FirstsThenRests
  <2>4. ASSUME Truthful(m) PROVE Spread(f, m, a)
    <3>1. \A c \in a : Group(w, c) = {d \in a : m.coreOf[d] = m.coreOf[c]}
      BY <2>4, TruthIsUsable DEF w
    <3>2. ByCore(g, m.coreOf)
      <4> SUFFICES ASSUME NEW i \in 1..Len(g), NEW j \in 1..Len(g),
                          NEW c \in Elems(g[i]), NEW d \in Elems(g[j])
                   PROVE  m.coreOf[c] = m.coreOf[d] <=> i = j
        BY DEF ByCore
      <4>1. PICK h \in a : Elems(g[i]) = {x \in a : m.coreOf[x] = m.coreOf[h]}
        BY <2>2, <3>1
      <4>2. PICK e \in a : Elems(g[j]) = {x \in a : m.coreOf[x] = m.coreOf[e]}
        BY <2>2, <3>1
      <4>3. m.coreOf[c] = m.coreOf[d] => d \in Elems(g[i])
        BY <4>1, <4>2
      <4>4. m.coreOf[c] = m.coreOf[d] => i = j
        BY <2>2, <4>3 DEF Apart
      <4> QED
        BY <4>1, <4>2, <4>4
    <3>3. ASSUME NEW i \in 1..Len(f),
                 \E h \in 1..(i - 1) : m.coreOf[f[h]] = m.coreOf[f[i]], NEW c \in a
          PROVE  \E h \in 1..(i - 1) : m.coreOf[f[h]] = m.coreOf[c]
      <4>1. PICK j \in 1..Len(g) : c \in Elems(g[j])
        BY <2>2
      <4>2. Late(g, m.coreOf, f)
        BY <2>1, <2>2, <3>2, SecondIsLate
      <4> QED
        BY <3>3, <4>1, <4>2 DEF Late
    <3>4. m.os # "windows"
      OBVIOUS
    <3> QED
      BY <3>3, <3>4 DEF Spread
  <2> QED
    BY <2>3, <2>4 DEF Good, f, w
<1>4. CASE ~(a \subseteq DOMAIN w.lists /\ Usable(w) /\ InOne(w))
  <2>1. f = Ascending(a)
    BY <1>1, <1>4, LinuxIs
  <2>2. ~Truthful(m)
    BY <1>4, TruthIsUsable DEF w
  <2> HIDE DEF f
  <2> QED
    BY <1>2, <2>1, <2>2, AscendingIs, AscendingDiffers DEF Good, f, w
<1> QED
  BY <1>3, <1>4

\* The order on Windows when the cores could be read.
LEMMA WindowsIsGood ==
    ASSUME NEW m, m.os = "windows", ListsEachOnce(m), NEW w, w.records = m.records,
           NEW cpus \in SUBSET m.allowed
    PROVE  Good(pCoreFirstOrder(w), m, cpus)
<1> DEFINE s     == m.records
           R     == {s[i] : i \in 1..Len(s)}
           less  == {p \in R \X R : p[1].class > p[2].class}
           cores == InsertionSort(s, less)
           n     == Len(s)
           g     == [i \in 1..Len(cores) |-> cores[i].lps]
           f     == pCoreFirstOrder(w)
<1>1. /\ s \in Seq([class: Nat, lps: Seq(Nat)])
      /\ \A i \in 1..n : s[i].lps # <<>> /\ IsInjective(s[i].lps)
      /\ \A i, j \in 1..n : i # j =>
            \A k \in DOMAIN s[i].lps, l \in DOMAIN s[j].lps : s[i].lps[k] # s[j].lps[l]
  BY DEF ListsEachOnce
<1>2. n \in Nat /\ \A i \in 1..n : s[i] \in R /\ s[i].class \in Nat /\ s[i].lps \in Seq(Nat)
  <2>1. n \in Nat /\ \A i \in 1..n : s[i] \in [class: Nat, lps: Seq(Nat)]
    <3> DEFINE X == [class: Nat, lps: Seq(Nat)]
    <3>1. s \in Seq(X)
      BY <1>1
    <3> HIDE DEF s, X
    <3>2. Len(s) \in Nat /\ \A i \in 1..Len(s) : s[i] \in X
      BY <3>1
    <3> QED
      BY <3>2 DEF X
  <2>2. \A i \in 1..n : s[i] \in R
    OBVIOUS
  <2> HIDE DEF R, n, s
  <2> QED
    BY <2>1, <2>2
<1>3. s \in Seq(R)
  <2>1. s \in [1..n -> R]
    BY <1>1, <1>2
  <2> HIDE DEF s, R
  <2> QED
    BY <1>2, <2>1 DEF n
<1>4. \A r \in R : r.class \in Nat
  BY <1>2
<1>5. \A a, b \in R : <<a, b>> \in less <=> a.class > b.class
  OBVIOUS
<1>6. f = Firsts(g) \o Rests(g)
  BY DEF pCoreFirstOrder
<1> HIDE DEF R, less
<1>7. Weak(less, R)
  BY <1>4, <1>5 DEF Weak
<1>8. PICK q : Stable(cores, s, q, n, less)
  <2> HIDE DEF s
  <2> QED
    BY <1>3, <1>7, InsertionSortIs DEF n
<1>9. Len(cores) = n
  <2> HIDE DEF s
  <2> QED
    BY <1>3, <1>7, InsertionSortIs DEF n
<1> HIDE DEF cores, s, n, f
<1>10. /\ \A i \in 1..n : q[i] \in 1..n /\ cores[i] = s[q[i]]
       /\ \A v \in 1..n : \E i \in 1..n : q[i] = v
       /\ \A i, j \in 1..n : i < j => q[i] # q[j] /\ <<cores[j], cores[i]>> \notin less
  BY <1>8 DEF Stable
<1>11. \A i, j \in 1..n : i # j => q[i] # q[j]
  <2>1. \A i, j \in 1..n : i # j => i < j \/ j < i
    BY <1>2
  <2> QED
    BY <1>10, <2>1
<1>12. \A i \in 1..n : g[i] = s[q[i]].lps
  BY <1>9, <1>10
<1>13. g \in Seq(Seq(Nat)) /\ Len(g) = n
  <2>1. g = [i \in 1..n |-> cores[i].lps]
    BY <1>9
  <2>2. \A i \in 1..n : cores[i].lps \in Seq(Nat)
    BY <1>2, <1>10
  <2>3. g \in [1..n -> Seq(Nat)]
    BY <2>1, <2>2
  <2> HIDE DEF g
  <2> QED
    BY <1>2, <2>3
<1> HIDE DEF g
<1>14. ASSUME NEW i \in 1..n
       PROVE  /\ g[i] \in Seq(Nat) /\ Len(g[i]) >= 1 /\ Distinct(g[i])
              /\ DOMAIN g[i] = 1..Len(g[i])
  <2>1. q[i] \in 1..n /\ g[i] = s[q[i]].lps
    BY <1>10, <1>12
  <2>2. g[i] \in Seq(Nat) /\ g[i] # <<>> /\ IsInjective(g[i])
    <3>1. \A j \in 1..n : s[j].lps \in Seq(Nat) /\ s[j].lps # <<>> /\ IsInjective(s[j].lps)
      BY <1>1, <1>2
    <3> QED
      BY <2>1, <3>1
  <2> DEFINE l == g[i]
  <2> HIDE DEF l
  <2>3. l \in Seq(Nat) /\ l # <<>> => Len(l) >= 1 /\ DOMAIN l = 1..Len(l)
    OBVIOUS
  <2> QED
    BY <2>2, <2>3 DEF l, Distinct, IsInjective
<1>15. ASSUME NEW i \in 1..n, NEW j \in 1..n, i # j PROVE Elems(g[i]) \cap Elems(g[j]) = {}
  <2>1. PICK a \in 1..n : a = q[i] /\ g[i] = s[a].lps
    BY <1>10, <1>12
  <2>2. PICK b \in 1..n : b = q[j] /\ g[j] = s[b].lps
    BY <1>10, <1>12
  <2>3. a # b
    BY <1>11, <1>15, <2>1, <2>2
  <2>4. \A k \in DOMAIN s[a].lps, l \in DOMAIN s[b].lps : s[a].lps[k] # s[b].lps[l]
    BY <1>1, <2>3
  <2>5. \A k \in DOMAIN g[i], l \in DOMAIN g[j] : g[i][k] # g[j][l]
    BY <2>1, <2>2, <2>4
  <2> QED
    BY <1>14, <2>5 DEF Elems
<1>16. Apart(g)
  BY <1>13, <1>14, <1>15 DEF Apart
<1>17. f \in Seq(Nat) /\ Distinct(f)
  BY <1>6, <1>16, FirstsThenRests
<1>18. ASSUME Truthful(m) PROVE Spread(f, m, cpus)
  <2>1. /\ \A c \in m.allowed : \E i \in DOMAIN s : \E k \in DOMAIN s[i].lps : s[i].lps[k] = c
        /\ \A i, j \in DOMAIN s : \A k \in DOMAIN s[i].lps, l \in DOMAIN s[j].lps :
              /\ m.coreOf[s[i].lps[k]] = m.coreOf[s[j].lps[l]] <=> i = j
              /\ m.classOf[m.coreOf[s[i].lps[k]]] = s[i].class
    BY <1>18 DEF Truthful, s
  <2>2. DOMAIN s = 1..n
    BY <1>1 DEF n
  <2>3. \A i \in 1..n : \A c \in Elems(g[i]) : \E k \in DOMAIN s[q[i]].lps : s[q[i]].lps[k] = c
    <3> SUFFICES ASSUME NEW i \in 1..n, NEW c \in Elems(g[i])
                 PROVE  \E k \in DOMAIN s[q[i]].lps : s[q[i]].lps[k] = c
      OBVIOUS
    <3>1. g[i] = s[q[i]].lps /\ DOMAIN g[i] = 1..Len(g[i])
      BY <1>12, <1>14
    <3>2. PICK k \in 1..Len(g[i]) : c = g[i][k]
      BY DEF Elems
    <3> QED
      BY <3>1, <3>2
  <2>4. ByCore(g, m.coreOf)
    <3> SUFFICES ASSUME NEW i \in 1..n, NEW j \in 1..n,
                        NEW c \in Elems(g[i]), NEW d \in Elems(g[j])
                 PROVE  m.coreOf[c] = m.coreOf[d] <=> i = j
      BY <1>13 DEF ByCore
    <3>1. q[i] \in 1..n /\ q[j] \in 1..n /\ (q[i] = q[j] <=> i = j)
      BY <1>10, <1>11
    <3>2. PICK k \in DOMAIN s[q[i]].lps : s[q[i]].lps[k] = c
      BY <2>3
    <3>3. PICK l \in DOMAIN s[q[j]].lps : s[q[j]].lps[l] = d
      BY <2>3
    <3>4. m.coreOf[c] = m.coreOf[d] <=> q[i] = q[j]
      BY <2>1, <2>2, <3>1, <3>2, <3>3
    <3> QED
      BY <3>1, <3>4
  <2>5. ASSUME NEW c \in cpus PROVE \E j \in 1..n : c \in Elems(g[j])
    <3>1. PICK i \in 1..n : \E k \in DOMAIN s[i].lps : s[i].lps[k] = c
      BY <2>1, <2>2
    <3>2. PICK j \in 1..n : q[j] = i
      BY <1>10
    <3>3. g[j] = s[i].lps /\ DOMAIN g[j] = 1..Len(g[j])
      BY <1>12, <1>14, <3>2
    <3> QED
      BY <3>1, <3>3 DEF Elems
  <2>6. ASSUME NEW i \in 1..n
        PROVE  f[i] \in Elems(g[i]) /\ m.classOf[m.coreOf[f[i]]] = cores[i].class
    <3>1. f[i] \in Elems(g[i])
      BY <1>6, <1>13, <1>16, FirstsThenRests
    <3>2. PICK k \in DOMAIN s[q[i]].lps : s[q[i]].lps[k] = f[i]
      BY <2>3, <3>1
    <3>3. q[i] \in 1..n /\ cores[i] = s[q[i]]
      BY <1>10
    <3> QED
      BY <2>1, <2>2, <3>1, <3>2, <3>3
  <2>7. ASSUME NEW i \in 1..n, NEW h \in 1..n, h < i
        PROVE  cores[h].class >= cores[i].class
    <3>1. <<cores[i], cores[h]>> \notin less
      BY <1>10, <2>7
    <3>2. cores[i] \in R /\ cores[h] \in R
      BY <1>2, <1>10
    <3>3. cores[i].class \in Nat /\ cores[h].class \in Nat
      BY <1>4, <3>2
    <3> QED
      BY <1>5, <3>1, <3>2, <3>3
  <2>8. Late(g, m.coreOf, f)
    BY <1>6, <1>16, <2>4, SecondIsLate
  <2>9. ASSUME NEW i \in 1..Len(f),
               \E h \in 1..(i - 1) : m.coreOf[f[h]] = m.coreOf[f[i]], NEW c \in cpus
        PROVE  \E h \in 1..(i - 1) : m.coreOf[f[h]] = m.coreOf[c]
    <3>1. PICK j \in 1..Len(g) : c \in Elems(g[j])
      BY <1>13, <2>5
    <3> QED
      BY <2>9, <2>8, <3>1 DEF Late
  <2>10. ASSUME NEW i \in 1..Len(f),
               ~(\E h \in 1..(i - 1) : m.coreOf[f[h]] = m.coreOf[f[i]]), NEW h \in 1..(i - 1)
        PROVE  m.classOf[m.coreOf[f[h]]] >= m.classOf[m.coreOf[f[i]]]
    <3>1. i <= n
      BY <1>13, <2>10, <2>8 DEF Late
    <3>2. i \in 1..n /\ h \in 1..n /\ h < i
      BY <1>2, <3>1
    <3> QED
      BY <2>6, <2>7, <3>2
  <2> QED
    BY <2>9, <2>10 DEF Spread
<1> QED
  BY <1>17, <1>18 DEF Good, f

\* Every other CPU, then the others: each once.
LEMMA InterleavedIs ==
    ASSUME NEW n \in Nat
    PROVE  LET f == Evens(n) \o Odds(n)
           IN  f \in Seq(Nat) /\ Distinct(f) /\ (n = 0 => Len(f) = 0)
<1> DEFINE p == (n + 1) \div 2
           q == n \div 2
           e == Evens(n)
           o == Odds(n)
<1>1. p \in Nat /\ q \in Nat /\ (n = 0 => p = 0 /\ q = 0)
  OBVIOUS
<1> HIDE DEF p, q
<1>2. e = [i \in 1..p |-> 2 * (i - 1)] /\ o = [i \in 1..q |-> 2 * i - 1]
  BY DEF Evens, Odds, p, q
<1>3. \A i \in 1..p : 2 * (i - 1) \in Nat
  BY <1>1
<1>4. \A i \in 1..q : 2 * i - 1 \in Nat
  BY <1>1
<1> HIDE DEF e, o
<1>5. e \in Seq(Nat) /\ Len(e) = p
  BY <1>1, <1>2, <1>3
<1>6. o \in Seq(Nat) /\ Len(o) = q
  BY <1>1, <1>2, <1>4
<1>7. Distinct(e)
  <2>1. \A i, j \in 1..p : i # j => 2 * (i - 1) # 2 * (j - 1)
    BY <1>1
  <2> QED
    BY <1>2, <1>5, <2>1 DEF Distinct
<1>8. Distinct(o)
  <2>1. \A i, j \in 1..q : i # j => 2 * i - 1 # 2 * j - 1
    BY <1>1
  <2> QED
    BY <1>2, <1>6, <2>1 DEF Distinct
<1>9. Elems(e) \cap Elems(o) = {}
  <2>1. \A i \in 1..p, j \in 1..q : 2 * (i - 1) # 2 * j - 1
    BY <1>1
  <2>2. Elems(e) = {2 * (i - 1) : i \in 1..p} /\ Elems(o) = {2 * j - 1 : j \in 1..q}
    BY <1>2, <1>5, <1>6 DEF Elems
  <2> QED
    BY <2>1, <2>2
<1>10. e \o o \in Seq(Nat) /\ Distinct(e \o o) /\ Len(e \o o) = p + q
  <2>1. e \in Seq(Nat) /\ o \in Seq(Nat)
    BY <1>5, <1>6
  <2>2. Distinct(e \o o)
    BY <1>7, <1>8, <1>9, <2>1, DistinctJoined
  <2>3. e \o o \in Seq(Nat) /\ Len(e \o o) = Len(e) + Len(o)
    BY <2>1, JoinedIs
  <2> QED
    BY <1>5, <1>6, <2>2, <2>3
<1> QED
  BY <1>1, <1>10 DEF e, o

\* The order everywhere else.
LEMMA InterleaveIsGood ==
    ASSUME NEW m, m.os # "linux", m.os = "windows" => m.records = <<>>,
           m.allowed \subseteq Nat, IsFiniteSet(m.allowed),
           NEW w, w.os = m.os, w.allowed \in SUBSET m.allowed, NEW cpus
    PROVE  Good(interleaveOrder(w), m, cpus)
<1> DEFINE c == Cardinality(w.allowed)
           n == IF w.os = "windows" /\ c > 64 THEN 64 ELSE c
           f == Evens(n) \o Odds(n)
<1>1. IsFiniteSet(w.allowed)
  BY FS_Subset
<1>2. c \in Nat
  BY <1>1, FS_CardinalityType
<1>3. n \in Nat /\ (c = 0 => n = 0)
  BY <1>2
<1>4. interleaveOrder(w) = f
  BY DEF interleaveOrder
<1>5. f \in Seq(Nat) /\ Distinct(f) /\ (n = 0 => Len(f) = 0)
  <2> HIDE DEF n
  <2> QED
    BY <1>3, InterleavedIs
<1>6. ASSUME Truthful(m) PROVE Spread(f, m, cpus)
  <2>1. m.os = "windows"
    BY <1>6 DEF Truthful
  <2>2. \A x \in m.allowed : \E i \in DOMAIN m.records :
           \E k \in DOMAIN m.records[i].lps : m.records[i].lps[k] = x
    BY <1>6, <2>1 DEF Truthful
  <2>3. DOMAIN m.records = {}
    BY <2>1
  <2>4. w.allowed = {}
    BY <2>2, <2>3
  <2>5. Len(f) = 0
    BY <1>3, <1>5, <2>4, FS_EmptySet
  <2>6. 1..Len(f) = {}
    BY <2>5
  <2> HIDE DEF f
  <2> QED
    BY <2>6 DEF Spread
<1> QED
  BY <1>4, <1>5, <1>6 DEF Good

\* An order for some workers is as good as the whole.
LEMMA FirstOnesAreGood ==
    ASSUME NEW f, NEW m, NEW cpus, Good(f, m, cpus), NEW n \in Int,
           NEW o, o = pinOrderForThreads(f, n), o # NoOrder
    PROVE  IsInjective(o) /\ (Truthful(m) => Spread(o, m, cpus))
<1>1. /\ n \in Nat /\ n <= Len(f) /\ Len(f) \in Nat
      /\ o = [i \in 1..n |-> f[i]]
  <2>1. Len(f) \in Nat
    BY DEF Good
  <2> QED
    BY <2>1 DEF pinOrderForThreads
<1>2. DOMAIN o = 1..n /\ Len(o) = n /\ \A i \in 1..n : o[i] = f[i] /\ i \in 1..Len(f)
  BY <1>1
<1>3. IsInjective(o)
  <2>1. \A i, j \in 1..Len(f) : i # j => f[i] # f[j]
    BY DEF Good, Distinct
  <2> QED
    BY <1>2, <2>1 DEF IsInjective
<1>4. ASSUME Truthful(m) PROVE Spread(o, m, cpus)
  <2>1. Spread(f, m, cpus)
    BY <1>4 DEF Good
  <2>2. \A i \in 1..n : \A h \in 1..(i - 1) : h \in 1..n
    BY <1>1
  <2>3. ASSUME NEW i \in 1..n,
               \E h \in 1..(i - 1) : m.coreOf[o[h]] = m.coreOf[o[i]], NEW c \in cpus
        PROVE  \E h \in 1..(i - 1) : m.coreOf[o[h]] = m.coreOf[c]
    <3>1. \E h \in 1..(i - 1) : m.coreOf[f[h]] = m.coreOf[f[i]]
      BY <1>2, <2>2, <2>3
    <3>2. PICK h \in 1..(i - 1) : m.coreOf[f[h]] = m.coreOf[c]
      BY <1>2, <2>1, <3>1 DEF Spread
    <3> QED
      BY <1>2, <2>2, <3>2
  <2>4. ASSUME m.os = "windows", NEW i \in 1..n,
               ~(\E h \in 1..(i - 1) : m.coreOf[o[h]] = m.coreOf[o[i]]), NEW h \in 1..(i - 1)
        PROVE  m.classOf[m.coreOf[o[h]]] >= m.classOf[m.coreOf[o[i]]]
    <3>1. ~(\E x \in 1..(i - 1) : m.coreOf[f[x]] = m.coreOf[f[i]])
      BY <1>2, <2>2, <2>4
    <3>2. m.classOf[m.coreOf[f[h]]] >= m.classOf[m.coreOf[f[i]]]
      BY <1>2, <2>1, <2>4, <3>1 DEF Spread
    <3> QED
      BY <1>2, <2>2, <3>2
  <2> QED
    BY <1>2, <2>3, <2>4 DEF Spread
<1> QED
  BY <1>3, <1>4

\* What PinOrder starts from.
LEMMA WantedIsGood ==
    ASSUME NEW w \in Worlds, NEW a \in SUBSET w.machine.allowed, NEW n \in Int,
           NEW o, o = WantedOrder(Within(w.machine, a), n), o # NoOrder
    PROVE  IsInjective(o) /\ (Truthful(w.machine) => Spread(o, w.machine, a))
<1> DEFINE m == w.machine
           v == Within(m, a)
           f == CASE v.os = "linux"   -> IF v.allowed \subseteq DOMAIN v.lists
                                         THEN linuxPinOrder(v) ELSE Ascending(v.allowed)
                  [] v.os = "windows" -> IF v.records # <<>> THEN pCoreFirstOrder(v)
                                                             ELSE interleaveOrder(v)
                  [] OTHER            -> interleaveOrder(v)
<1>1. /\ DOMAIN m = MachineFields /\ m.allowed \subseteq Nat /\ IsFiniteSet(m.allowed)
      /\ m.os = "windows" /\ m.records # <<>> => ListsEachOnce(m)
  BY WorldsAssumption
<1> HIDE DEF m
<1>2. v.allowed = a /\ v.os = m.os /\ v.lists = m.lists /\ v.records = m.records
  BY <1>1, WithinIs
<1>3. o = pinOrderForThreads(f, n)
  BY DEF WantedOrder, m
<1>4. a \in SUBSET m.allowed
  BY DEF m
<1>5. Good(f, m, a)
  <2>1. CASE m.os = "linux"
    <3>1. f = IF a \subseteq DOMAIN v.lists THEN linuxPinOrder(v) ELSE Ascending(a)
      BY <1>2, <2>1
    <3> HIDE DEF f
    <3> QED
      BY <1>1, <1>4, <2>1, <3>1, LinuxIsGood
  <2>2. CASE m.os = "windows" /\ m.records # <<>>
    <3>1. f = pCoreFirstOrder(v)
      BY <1>2, <2>2
    <3>2. ListsEachOnce(m)
      BY <1>1, <2>2
    <3> HIDE DEF f, v
    <3> QED
      BY <1>2, <1>4, <2>2, <3>1, <3>2, WindowsIsGood
  <2>3. CASE m.os # "linux" /\ (m.os = "windows" => m.records = <<>>)
    <3>1. f = interleaveOrder(v)
      BY <1>2, <2>3
    <3> HIDE DEF f, v
    <3> QED
      BY <1>1, <1>2, <1>4, <2>3, <3>1, InterleaveIsGood
  <2> QED
    BY <2>1, <2>2, <2>3
<1> HIDE DEF f
<1> QED
  BY <1>3, <1>5, FirstOnesAreGood DEF m

-----------------------------------------------------------------------------
\* From the moment it is there, an order gives every worker a CPU of its own and fits
\* the CPUs that are online.
Ordered == {"preflight", "start", "mining", "bench"}

CoresInv ==
    pc \in Ordered /\ order # NoOrder =>
        /\ IsInjective(order)
        /\ Truthful(world.machine) => Spread(order, world.machine, online)

\* That is more than CoresFirst asks.
LEMMA CoresFollow == CoresInv => CoresFirst
  BY DEF CoresInv, CoresFirst, Spread, Ordered

\* There is no order yet.
LEMMA CoresInit == Init => CoresInv
  BY DEF Init, CoresInv, Ordered

\* Fewer CPUs are no harder.
LEMMA CoresKept ==
    ASSUME CoresInv, world' = world, order' = order, online' \subseteq online,
           pc' \in Ordered => pc \in Ordered
    PROVE  CoresInv'
<1>1. Spread(order, world.machine, online) => Spread(order, world.machine, online')
  BY DEF Spread
<1> QED
  BY <1>1 DEF CoresInv

\* PinOrder makes such an order, and no step makes it another.
LEMMA CoresStep == PinInv /\ CoresInv /\ [Next]_vars => CoresInv'
<1> SUFFICES ASSUME PinInv, CoresInv, [Next]_vars PROVE CoresInv'
  OBVIOUS
<1> USE DEF Ordered
<1>1. CASE ParseFlags \/ SelfTest \/ LoadConfig
  <2>1. pc' \notin Ordered
    BY <1>1 DEF ParseFlags, SelfTest, LoadConfig
  <2> QED
    BY <2>1 DEF CoresInv
<1>2. CASE PinOrder
  <2>1. /\ pc = "order" /\ world' = world /\ online' = online /\ world \in Worlds
        /\ online \subseteq world.machine.allowed /\ conf.threads \in Int
        /\ mask = online
    BY <1>2 DEF PinOrder, outside, PinInv, Idle
  <2>2. order' = NoOrder \/ order' = WantedOrder(Within(world.machine, online), conf.threads)
    BY <1>2, <2>1 DEF PinOrder, Within
  <2>3. order' # NoOrder =>
            /\ IsInjective(order')
            /\ Truthful(world.machine) => Spread(order', world.machine, online)
    BY <2>1, <2>2, WantedIsGood
  <2> QED
    BY <2>1, <2>3 DEF CoresInv
<1>3. CASE Preflight
  <2>1. CASE order[tried + 1] \in online
    BY <1>3, <2>1, CoresKept DEF Preflight, outside
  <2>2. CASE order[tried + 1] \notin online
    BY <1>3, <2>2 DEF Preflight, CoresInv
  <2> QED
    BY <2>1, <2>2
<1>4. CASE PreflightDone \/ StartWorkers
  BY <1>4, CoresKept DEF PreflightDone, StartWorkers, outside
<1>5. CASE LoseCPU
  BY <1>5, CoresKept DEF LoseCPU
<1>6. CASE UNCHANGED <<pc, world, online, order>>
  BY <1>6, CoresKept
<1>7. CASE SetupLoad \/ SetupAnswer \/ SaveTruncates \/ SaveWrites
  BY <1>6, <1>7 DEF SetupLoad, SetupAnswer, SaveTruncates, SaveWrites, pinVars
<1>8. CASE FirstJob \/ JudgeHash \/ UNCHANGED vars
  BY <1>6, <1>8 DEF FirstJob, JudgeHash, outside, pinVars, vars
<1> QED
  BY <1>1, <1>2, <1>3, <1>4, <1>5, <1>7, <1>8 DEF Next

\* Whatever the sibling files say, no two workers are given the same CPU; when the
\* kernel's description of the cores is right, no worker shares a physical core while a
\* core the process may use has none, and on Windows cores of a higher efficiency class
\* are used first: for every machine, every number of workers and every CPU that goes
\* (affinity_linux.go, affinity_windows.go, PinOrder).
THEOREM PinsCoresFirst == Spec => []CoresFirst
  BY PinInit, PinStep, SetupInit, SetupStep, CoresInit, CoresStep, CoresFollow,
     PTL DEF Spec

-----------------------------------------------------------------------------
(* The operations, block by block.                                         *)
\* The table kernel has an operation exactly when the generator would accept it, and
\* then with the steps of the switch.
PureAt(o) == /\ isPureOp(o) <=> PureRow(o) # noCase
             /\ isPureOp(o) <=> PureBody(o)
             /\ isPureOp(o) => PureRow(o) = OpRow(o)

\* Sixteen operations to a block.
LEMMA PureOps0Are == ASSUME NEW o \in 0..15 PROVE PureAt(o)
<1>0. OpRow(o) = Ops0[o + 1] /\ PureRow(o) = PureOps0[o + 1]
  <2>1. o \div 16 = 0 /\ o % 16 = o - 0
    OBVIOUS
  <2> QED
    BY <2>1 DEF OpRow, PureRow
<1> USE <1>0 DEF PureAt, isPureOp, pureOpSet, noCase, PureBody, PureSteps, Prologue, Epilogue,
                 Ops0, PureOps0
<1>1.  CASE o = 0  BY <1>1
<1>2.  CASE o = 1  BY <1>2
<1>3.  CASE o = 2  BY <1>3
<1>4.  CASE o = 3  BY <1>4
<1>5.  CASE o = 4  BY <1>5
<1>6.  CASE o = 5  BY <1>6
<1>7.  CASE o = 6  BY <1>7
<1>8.  CASE o = 7  BY <1>8
<1>9.  CASE o = 8  BY <1>9
<1>10. CASE o = 9  BY <1>10
<1>11. CASE o = 10  BY <1>11
<1>12. CASE o = 11  BY <1>12
<1>13. CASE o = 12  BY <1>13
<1>14. CASE o = 13  BY <1>14
<1>15. CASE o = 14  BY <1>15
<1>16. CASE o = 15  BY <1>16
<1> HIDE <1>0 DEF PureAt, Ops0, PureOps0
<1> QED
  BY <1>1, <1>2, <1>3, <1>4, <1>5, <1>6, <1>7, <1>8, <1>9, <1>10, <1>11, <1>12, <1>13,
     <1>14, <1>15, <1>16

LEMMA PureOps16Are == ASSUME NEW o \in 16..31 PROVE PureAt(o)
<1>0. OpRow(o) = Ops16[o - 15] /\ PureRow(o) = PureOps16[o - 15]
  <2>1. o \div 16 = 1 /\ o % 16 = o - 16
    OBVIOUS
  <2> QED
    BY <2>1 DEF OpRow, PureRow
<1> USE <1>0 DEF PureAt, isPureOp, pureOpSet, noCase, PureBody, PureSteps, Prologue, Epilogue,
                 Ops16, PureOps16
<1>1.  CASE o = 16  BY <1>1
<1>2.  CASE o = 17  BY <1>2
<1>3.  CASE o = 18  BY <1>3
<1>4.  CASE o = 19  BY <1>4
<1>5.  CASE o = 20  BY <1>5
<1>6.  CASE o = 21  BY <1>6
<1>7.  CASE o = 22  BY <1>7
<1>8.  CASE o = 23  BY <1>8
<1>9.  CASE o = 24  BY <1>9
<1>10. CASE o = 25  BY <1>10
<1>11. CASE o = 26  BY <1>11
<1>12. CASE o = 27  BY <1>12
<1>13. CASE o = 28  BY <1>13
<1>14. CASE o = 29  BY <1>14
<1>15. CASE o = 30  BY <1>15
<1>16. CASE o = 31  BY <1>16
<1> HIDE <1>0 DEF PureAt, Ops16, PureOps16
<1> QED
  BY <1>1, <1>2, <1>3, <1>4, <1>5, <1>6, <1>7, <1>8, <1>9, <1>10, <1>11, <1>12, <1>13,
     <1>14, <1>15, <1>16

LEMMA PureOps32Are == ASSUME NEW o \in 32..47 PROVE PureAt(o)
<1>0. OpRow(o) = Ops32[o - 31] /\ PureRow(o) = PureOps32[o - 31]
  <2>1. o \div 16 = 2 /\ o % 16 = o - 32
    OBVIOUS
  <2> QED
    BY <2>1 DEF OpRow, PureRow
<1> USE <1>0 DEF PureAt, isPureOp, pureOpSet, noCase, PureBody, PureSteps, Prologue, Epilogue,
                 Ops32, PureOps32
<1>1.  CASE o = 32  BY <1>1
<1>2.  CASE o = 33  BY <1>2
<1>3.  CASE o = 34  BY <1>3
<1>4.  CASE o = 35  BY <1>4
<1>5.  CASE o = 36  BY <1>5
<1>6.  CASE o = 37  BY <1>6
<1>7.  CASE o = 38  BY <1>7
<1>8.  CASE o = 39  BY <1>8
<1>9.  CASE o = 40  BY <1>9
<1>10. CASE o = 41  BY <1>10
<1>11. CASE o = 42  BY <1>11
<1>12. CASE o = 43  BY <1>12
<1>13. CASE o = 44  BY <1>13
<1>14. CASE o = 45  BY <1>14
<1>15. CASE o = 46  BY <1>15
<1>16. CASE o = 47  BY <1>16
<1> HIDE <1>0 DEF PureAt, Ops32, PureOps32
<1> QED
  BY <1>1, <1>2, <1>3, <1>4, <1>5, <1>6, <1>7, <1>8, <1>9, <1>10, <1>11, <1>12, <1>13,
     <1>14, <1>15, <1>16

LEMMA PureOps48Are == ASSUME NEW o \in 48..63 PROVE PureAt(o)
<1>0. OpRow(o) = Ops48[o - 47] /\ PureRow(o) = PureOps48[o - 47]
  <2>1. o \div 16 = 3 /\ o % 16 = o - 48
    OBVIOUS
  <2> QED
    BY <2>1 DEF OpRow, PureRow
<1> USE <1>0 DEF PureAt, isPureOp, pureOpSet, noCase, PureBody, PureSteps, Prologue, Epilogue,
                 Ops48, PureOps48
<1>1.  CASE o = 48  BY <1>1
<1>2.  CASE o = 49  BY <1>2
<1>3.  CASE o = 50  BY <1>3
<1>4.  CASE o = 51  BY <1>4
<1>5.  CASE o = 52  BY <1>5
<1>6.  CASE o = 53  BY <1>6
<1>7.  CASE o = 54  BY <1>7
<1>8.  CASE o = 55  BY <1>8
<1>9.  CASE o = 56  BY <1>9
<1>10. CASE o = 57  BY <1>10
<1>11. CASE o = 58  BY <1>11
<1>12. CASE o = 59  BY <1>12
<1>13. CASE o = 60  BY <1>13
<1>14. CASE o = 61  BY <1>14
<1>15. CASE o = 62  BY <1>15
<1>16. CASE o = 63  BY <1>16
<1> HIDE <1>0 DEF PureAt, Ops48, PureOps48
<1> QED
  BY <1>1, <1>2, <1>3, <1>4, <1>5, <1>6, <1>7, <1>8, <1>9, <1>10, <1>11, <1>12, <1>13,
     <1>14, <1>15, <1>16

LEMMA PureOps64Are == ASSUME NEW o \in 64..79 PROVE PureAt(o)
<1>0. OpRow(o) = Ops64[o - 63] /\ PureRow(o) = PureOps64[o - 63]
  <2>1. o \div 16 = 4 /\ o % 16 = o - 64
    OBVIOUS
  <2> QED
    BY <2>1 DEF OpRow, PureRow
<1> USE <1>0 DEF PureAt, isPureOp, pureOpSet, noCase, PureBody, PureSteps, Prologue, Epilogue,
                 Ops64, PureOps64
<1>1.  CASE o = 64  BY <1>1
<1>2.  CASE o = 65  BY <1>2
<1>3.  CASE o = 66  BY <1>3
<1>4.  CASE o = 67  BY <1>4
<1>5.  CASE o = 68  BY <1>5
<1>6.  CASE o = 69  BY <1>6
<1>7.  CASE o = 70  BY <1>7
<1>8.  CASE o = 71  BY <1>8
<1>9.  CASE o = 72  BY <1>9
<1>10. CASE o = 73  BY <1>10
<1>11. CASE o = 74  BY <1>11
<1>12. CASE o = 75  BY <1>12
<1>13. CASE o = 76  BY <1>13
<1>14. CASE o = 77  BY <1>14
<1>15. CASE o = 78  BY <1>15
<1>16. CASE o = 79  BY <1>16
<1> HIDE <1>0 DEF PureAt, Ops64, PureOps64
<1> QED
  BY <1>1, <1>2, <1>3, <1>4, <1>5, <1>6, <1>7, <1>8, <1>9, <1>10, <1>11, <1>12, <1>13,
     <1>14, <1>15, <1>16

LEMMA PureOps80Are == ASSUME NEW o \in 80..95 PROVE PureAt(o)
<1>0. OpRow(o) = Ops80[o - 79] /\ PureRow(o) = PureOps80[o - 79]
  <2>1. o \div 16 = 5 /\ o % 16 = o - 80
    OBVIOUS
  <2> QED
    BY <2>1 DEF OpRow, PureRow
<1> USE <1>0 DEF PureAt, isPureOp, pureOpSet, noCase, PureBody, PureSteps, Prologue, Epilogue,
                 Ops80, PureOps80
<1>1.  CASE o = 80  BY <1>1
<1>2.  CASE o = 81  BY <1>2
<1>3.  CASE o = 82  BY <1>3
<1>4.  CASE o = 83  BY <1>4
<1>5.  CASE o = 84  BY <1>5
<1>6.  CASE o = 85  BY <1>6
<1>7.  CASE o = 86  BY <1>7
<1>8.  CASE o = 87  BY <1>8
<1>9.  CASE o = 88  BY <1>9
<1>10. CASE o = 89  BY <1>10
<1>11. CASE o = 90  BY <1>11
<1>12. CASE o = 91  BY <1>12
<1>13. CASE o = 92  BY <1>13
<1>14. CASE o = 93  BY <1>14
<1>15. CASE o = 94  BY <1>15
<1>16. CASE o = 95  BY <1>16
<1> HIDE <1>0 DEF PureAt, Ops80, PureOps80
<1> QED
  BY <1>1, <1>2, <1>3, <1>4, <1>5, <1>6, <1>7, <1>8, <1>9, <1>10, <1>11, <1>12, <1>13,
     <1>14, <1>15, <1>16

LEMMA PureOps96Are == ASSUME NEW o \in 96..111 PROVE PureAt(o)
<1>0. OpRow(o) = Ops96[o - 95] /\ PureRow(o) = PureOps96[o - 95]
  <2>1. o \div 16 = 6 /\ o % 16 = o - 96
    OBVIOUS
  <2> QED
    BY <2>1 DEF OpRow, PureRow
<1> USE <1>0 DEF PureAt, isPureOp, pureOpSet, noCase, PureBody, PureSteps, Prologue, Epilogue,
                 Ops96, PureOps96
<1>1.  CASE o = 96  BY <1>1
<1>2.  CASE o = 97  BY <1>2
<1>3.  CASE o = 98  BY <1>3
<1>4.  CASE o = 99  BY <1>4
<1>5.  CASE o = 100  BY <1>5
<1>6.  CASE o = 101  BY <1>6
<1>7.  CASE o = 102  BY <1>7
<1>8.  CASE o = 103  BY <1>8
<1>9.  CASE o = 104  BY <1>9
<1>10. CASE o = 105  BY <1>10
<1>11. CASE o = 106  BY <1>11
<1>12. CASE o = 107  BY <1>12
<1>13. CASE o = 108  BY <1>13
<1>14. CASE o = 109  BY <1>14
<1>15. CASE o = 110  BY <1>15
<1>16. CASE o = 111  BY <1>16
<1> HIDE <1>0 DEF PureAt, Ops96, PureOps96
<1> QED
  BY <1>1, <1>2, <1>3, <1>4, <1>5, <1>6, <1>7, <1>8, <1>9, <1>10, <1>11, <1>12, <1>13,
     <1>14, <1>15, <1>16

LEMMA PureOps112Are == ASSUME NEW o \in 112..127 PROVE PureAt(o)
<1>0. OpRow(o) = Ops112[o - 111] /\ PureRow(o) = PureOps112[o - 111]
  <2>1. o \div 16 = 7 /\ o % 16 = o - 112
    OBVIOUS
  <2> QED
    BY <2>1 DEF OpRow, PureRow
<1> USE <1>0 DEF PureAt, isPureOp, pureOpSet, noCase, PureBody, PureSteps, Prologue, Epilogue,
                 Ops112, PureOps112
<1>1.  CASE o = 112  BY <1>1
<1>2.  CASE o = 113  BY <1>2
<1>3.  CASE o = 114  BY <1>3
<1>4.  CASE o = 115  BY <1>4
<1>5.  CASE o = 116  BY <1>5
<1>6.  CASE o = 117  BY <1>6
<1>7.  CASE o = 118  BY <1>7
<1>8.  CASE o = 119  BY <1>8
<1>9.  CASE o = 120  BY <1>9
<1>10. CASE o = 121  BY <1>10
<1>11. CASE o = 122  BY <1>11
<1>12. CASE o = 123  BY <1>12
<1>13. CASE o = 124  BY <1>13
<1>14. CASE o = 125  BY <1>14
<1>15. CASE o = 126  BY <1>15
<1>16. CASE o = 127  BY <1>16
<1> HIDE <1>0 DEF PureAt, Ops112, PureOps112
<1> QED
  BY <1>1, <1>2, <1>3, <1>4, <1>5, <1>6, <1>7, <1>8, <1>9, <1>10, <1>11, <1>12, <1>13,
     <1>14, <1>15, <1>16

LEMMA PureOps128Are == ASSUME NEW o \in 128..143 PROVE PureAt(o)
<1>0. OpRow(o) = Ops128[o - 127] /\ PureRow(o) = PureOps128[o - 127]
  <2>1. o \div 16 = 8 /\ o % 16 = o - 128
    OBVIOUS
  <2> QED
    BY <2>1 DEF OpRow, PureRow
<1> USE <1>0 DEF PureAt, isPureOp, pureOpSet, noCase, PureBody, PureSteps, Prologue, Epilogue,
                 Ops128, PureOps128
<1>1.  CASE o = 128  BY <1>1
<1>2.  CASE o = 129  BY <1>2
<1>3.  CASE o = 130  BY <1>3
<1>4.  CASE o = 131  BY <1>4
<1>5.  CASE o = 132  BY <1>5
<1>6.  CASE o = 133  BY <1>6
<1>7.  CASE o = 134  BY <1>7
<1>8.  CASE o = 135  BY <1>8
<1>9.  CASE o = 136  BY <1>9
<1>10. CASE o = 137  BY <1>10
<1>11. CASE o = 138  BY <1>11
<1>12. CASE o = 139  BY <1>12
<1>13. CASE o = 140  BY <1>13
<1>14. CASE o = 141  BY <1>14
<1>15. CASE o = 142  BY <1>15
<1>16. CASE o = 143  BY <1>16
<1> HIDE <1>0 DEF PureAt, Ops128, PureOps128
<1> QED
  BY <1>1, <1>2, <1>3, <1>4, <1>5, <1>6, <1>7, <1>8, <1>9, <1>10, <1>11, <1>12, <1>13,
     <1>14, <1>15, <1>16

LEMMA PureOps144Are == ASSUME NEW o \in 144..159 PROVE PureAt(o)
<1>0. OpRow(o) = Ops144[o - 143] /\ PureRow(o) = PureOps144[o - 143]
  <2>1. o \div 16 = 9 /\ o % 16 = o - 144
    OBVIOUS
  <2> QED
    BY <2>1 DEF OpRow, PureRow
<1> USE <1>0 DEF PureAt, isPureOp, pureOpSet, noCase, PureBody, PureSteps, Prologue, Epilogue,
                 Ops144, PureOps144
<1>1.  CASE o = 144  BY <1>1
<1>2.  CASE o = 145  BY <1>2
<1>3.  CASE o = 146  BY <1>3
<1>4.  CASE o = 147  BY <1>4
<1>5.  CASE o = 148  BY <1>5
<1>6.  CASE o = 149  BY <1>6
<1>7.  CASE o = 150  BY <1>7
<1>8.  CASE o = 151  BY <1>8
<1>9.  CASE o = 152  BY <1>9
<1>10. CASE o = 153  BY <1>10
<1>11. CASE o = 154  BY <1>11
<1>12. CASE o = 155  BY <1>12
<1>13. CASE o = 156  BY <1>13
<1>14. CASE o = 157  BY <1>14
<1>15. CASE o = 158  BY <1>15
<1>16. CASE o = 159  BY <1>16
<1> HIDE <1>0 DEF PureAt, Ops144, PureOps144
<1> QED
  BY <1>1, <1>2, <1>3, <1>4, <1>5, <1>6, <1>7, <1>8, <1>9, <1>10, <1>11, <1>12, <1>13,
     <1>14, <1>15, <1>16

LEMMA PureOps160Are == ASSUME NEW o \in 160..175 PROVE PureAt(o)
<1>0. OpRow(o) = Ops160[o - 159] /\ PureRow(o) = PureOps160[o - 159]
  <2>1. o \div 16 = 10 /\ o % 16 = o - 160
    OBVIOUS
  <2> QED
    BY <2>1 DEF OpRow, PureRow
<1> USE <1>0 DEF PureAt, isPureOp, pureOpSet, noCase, PureBody, PureSteps, Prologue, Epilogue,
                 Ops160, PureOps160
<1>1.  CASE o = 160  BY <1>1
<1>2.  CASE o = 161  BY <1>2
<1>3.  CASE o = 162  BY <1>3
<1>4.  CASE o = 163  BY <1>4
<1>5.  CASE o = 164  BY <1>5
<1>6.  CASE o = 165  BY <1>6
<1>7.  CASE o = 166  BY <1>7
<1>8.  CASE o = 167  BY <1>8
<1>9.  CASE o = 168  BY <1>9
<1>10. CASE o = 169  BY <1>10
<1>11. CASE o = 170  BY <1>11
<1>12. CASE o = 171  BY <1>12
<1>13. CASE o = 172  BY <1>13
<1>14. CASE o = 173  BY <1>14
<1>15. CASE o = 174  BY <1>15
<1>16. CASE o = 175  BY <1>16
<1> HIDE <1>0 DEF PureAt, Ops160, PureOps160
<1> QED
  BY <1>1, <1>2, <1>3, <1>4, <1>5, <1>6, <1>7, <1>8, <1>9, <1>10, <1>11, <1>12, <1>13,
     <1>14, <1>15, <1>16

LEMMA PureOps176Are == ASSUME NEW o \in 176..191 PROVE PureAt(o)
<1>0. OpRow(o) = Ops176[o - 175] /\ PureRow(o) = PureOps176[o - 175]
  <2>1. o \div 16 = 11 /\ o % 16 = o - 176
    OBVIOUS
  <2> QED
    BY <2>1 DEF OpRow, PureRow
<1> USE <1>0 DEF PureAt, isPureOp, pureOpSet, noCase, PureBody, PureSteps, Prologue, Epilogue,
                 Ops176, PureOps176
<1>1.  CASE o = 176  BY <1>1
<1>2.  CASE o = 177  BY <1>2
<1>3.  CASE o = 178  BY <1>3
<1>4.  CASE o = 179  BY <1>4
<1>5.  CASE o = 180  BY <1>5
<1>6.  CASE o = 181  BY <1>6
<1>7.  CASE o = 182  BY <1>7
<1>8.  CASE o = 183  BY <1>8
<1>9.  CASE o = 184  BY <1>9
<1>10. CASE o = 185  BY <1>10
<1>11. CASE o = 186  BY <1>11
<1>12. CASE o = 187  BY <1>12
<1>13. CASE o = 188  BY <1>13
<1>14. CASE o = 189  BY <1>14
<1>15. CASE o = 190  BY <1>15
<1>16. CASE o = 191  BY <1>16
<1> HIDE <1>0 DEF PureAt, Ops176, PureOps176
<1> QED
  BY <1>1, <1>2, <1>3, <1>4, <1>5, <1>6, <1>7, <1>8, <1>9, <1>10, <1>11, <1>12, <1>13,
     <1>14, <1>15, <1>16

LEMMA PureOps192Are == ASSUME NEW o \in 192..207 PROVE PureAt(o)
<1>0. OpRow(o) = Ops192[o - 191] /\ PureRow(o) = PureOps192[o - 191]
  <2>1. o \div 16 = 12 /\ o % 16 = o - 192
    OBVIOUS
  <2> QED
    BY <2>1 DEF OpRow, PureRow
<1> USE <1>0 DEF PureAt, isPureOp, pureOpSet, noCase, PureBody, PureSteps, Prologue, Epilogue,
                 Ops192, PureOps192
<1>1.  CASE o = 192  BY <1>1
<1>2.  CASE o = 193  BY <1>2
<1>3.  CASE o = 194  BY <1>3
<1>4.  CASE o = 195  BY <1>4
<1>5.  CASE o = 196  BY <1>5
<1>6.  CASE o = 197  BY <1>6
<1>7.  CASE o = 198  BY <1>7
<1>8.  CASE o = 199  BY <1>8
<1>9.  CASE o = 200  BY <1>9
<1>10. CASE o = 201  BY <1>10
<1>11. CASE o = 202  BY <1>11
<1>12. CASE o = 203  BY <1>12
<1>13. CASE o = 204  BY <1>13
<1>14. CASE o = 205  BY <1>14
<1>15. CASE o = 206  BY <1>15
<1>16. CASE o = 207  BY <1>16
<1> HIDE <1>0 DEF PureAt, Ops192, PureOps192
<1> QED
  BY <1>1, <1>2, <1>3, <1>4, <1>5, <1>6, <1>7, <1>8, <1>9, <1>10, <1>11, <1>12, <1>13,
     <1>14, <1>15, <1>16

LEMMA PureOps208Are == ASSUME NEW o \in 208..223 PROVE PureAt(o)
<1>0. OpRow(o) = Ops208[o - 207] /\ PureRow(o) = PureOps208[o - 207]
  <2>1. o \div 16 = 13 /\ o % 16 = o - 208
    OBVIOUS
  <2> QED
    BY <2>1 DEF OpRow, PureRow
<1> USE <1>0 DEF PureAt, isPureOp, pureOpSet, noCase, PureBody, PureSteps, Prologue, Epilogue,
                 Ops208, PureOps208
<1>1.  CASE o = 208  BY <1>1
<1>2.  CASE o = 209  BY <1>2
<1>3.  CASE o = 210  BY <1>3
<1>4.  CASE o = 211  BY <1>4
<1>5.  CASE o = 212  BY <1>5
<1>6.  CASE o = 213  BY <1>6
<1>7.  CASE o = 214  BY <1>7
<1>8.  CASE o = 215  BY <1>8
<1>9.  CASE o = 216  BY <1>9
<1>10. CASE o = 217  BY <1>10
<1>11. CASE o = 218  BY <1>11
<1>12. CASE o = 219  BY <1>12
<1>13. CASE o = 220  BY <1>13
<1>14. CASE o = 221  BY <1>14
<1>15. CASE o = 222  BY <1>15
<1>16. CASE o = 223  BY <1>16
<1> HIDE <1>0 DEF PureAt, Ops208, PureOps208
<1> QED
  BY <1>1, <1>2, <1>3, <1>4, <1>5, <1>6, <1>7, <1>8, <1>9, <1>10, <1>11, <1>12, <1>13,
     <1>14, <1>15, <1>16

LEMMA PureOps224Are == ASSUME NEW o \in 224..239 PROVE PureAt(o)
<1>0. OpRow(o) = Ops224[o - 223] /\ PureRow(o) = PureOps224[o - 223]
  <2>1. o \div 16 = 14 /\ o % 16 = o - 224
    OBVIOUS
  <2> QED
    BY <2>1 DEF OpRow, PureRow
<1> USE <1>0 DEF PureAt, isPureOp, pureOpSet, noCase, PureBody, PureSteps, Prologue, Epilogue,
                 Ops224, PureOps224
<1>1.  CASE o = 224  BY <1>1
<1>2.  CASE o = 225  BY <1>2
<1>3.  CASE o = 226  BY <1>3
<1>4.  CASE o = 227  BY <1>4
<1>5.  CASE o = 228  BY <1>5
<1>6.  CASE o = 229  BY <1>6
<1>7.  CASE o = 230  BY <1>7
<1>8.  CASE o = 231  BY <1>8
<1>9.  CASE o = 232  BY <1>9
<1>10. CASE o = 233  BY <1>10
<1>11. CASE o = 234  BY <1>11
<1>12. CASE o = 235  BY <1>12
<1>13. CASE o = 236  BY <1>13
<1>14. CASE o = 237  BY <1>14
<1>15. CASE o = 238  BY <1>15
<1>16. CASE o = 239  BY <1>16
<1> HIDE <1>0 DEF PureAt, Ops224, PureOps224
<1> QED
  BY <1>1, <1>2, <1>3, <1>4, <1>5, <1>6, <1>7, <1>8, <1>9, <1>10, <1>11, <1>12, <1>13,
     <1>14, <1>15, <1>16

LEMMA PureOps240Are == ASSUME NEW o \in 240..255 PROVE PureAt(o)
<1>0. OpRow(o) = Ops240[o - 239] /\ PureRow(o) = PureOps240[o - 239]
  <2>1. o \div 16 = 15 /\ o % 16 = o - 240
    OBVIOUS
  <2> QED
    BY <2>1 DEF OpRow, PureRow
<1> USE <1>0 DEF PureAt, isPureOp, pureOpSet, noCase, PureBody, PureSteps, Prologue, Epilogue,
                 Ops240, PureOps240
<1>1.  CASE o = 240  BY <1>1
<1>2.  CASE o = 241  BY <1>2
<1>3.  CASE o = 242  BY <1>3
<1>4.  CASE o = 243  BY <1>4
<1>5.  CASE o = 244  BY <1>5
<1>6.  CASE o = 245  BY <1>6
<1>7.  CASE o = 246  BY <1>7
<1>8.  CASE o = 247  BY <1>8
<1>9.  CASE o = 248  BY <1>9
<1>10. CASE o = 249  BY <1>10
<1>11. CASE o = 250  BY <1>11
<1>12. CASE o = 251  BY <1>12
<1>13. CASE o = 252  BY <1>13
<1>14. CASE o = 253  BY <1>14
<1>15. CASE o = 254  BY <1>15
<1>16. CASE o = 255  BY <1>16
<1> HIDE <1>0 DEF PureAt, Ops240, PureOps240
<1> QED
  BY <1>1, <1>2, <1>3, <1>4, <1>5, <1>6, <1>7, <1>8, <1>9, <1>10, <1>11, <1>12, <1>13,
     <1>14, <1>15, <1>16

\* All operations.
LEMMA PureAtAll == ASSUME NEW o \in Byte PROVE PureAt(o)
<1>1. \E k \in 0..15 : o \in (16 * k)..(16 * k + 15)
  <2>1. o \div 16 \in 0..15 /\ o \in (16 * (o \div 16))..(16 * (o \div 16) + 15)
    BY DEF Byte
  <2> QED
    BY <2>1
<1> QED
  BY <1>1, PureOps0Are, PureOps16Are, PureOps32Are, PureOps48Are, PureOps64Are,
     PureOps80Are, PureOps96Are, PureOps112Are, PureOps128Are, PureOps144Are,
     PureOps160Are, PureOps176Are, PureOps192Are, PureOps208Are, PureOps224Are,
     PureOps240Are

\* The tables of steps of the miner and of the reference are the same.
LEMMA RowsAgree == ASSUME NEW o PROVE OpRow(o) = RefRow(o)
<1>1. Ops0 = RefOps0
  BY DEF Ops0, RefOps0
<1>2. Ops16 = RefOps16
  BY DEF Ops16, RefOps16
<1>3. Ops32 = RefOps32
  BY DEF Ops32, RefOps32
<1>4. Ops48 = RefOps48
  BY DEF Ops48, RefOps48
<1>5. Ops64 = RefOps64
  BY DEF Ops64, RefOps64
<1>6. Ops80 = RefOps80
  BY DEF Ops80, RefOps80
<1>7. Ops96 = RefOps96
  BY DEF Ops96, RefOps96
<1>8. Ops112 = RefOps112
  BY DEF Ops112, RefOps112
<1>9. Ops128 = RefOps128
  BY DEF Ops128, RefOps128
<1>10. Ops144 = RefOps144
  BY DEF Ops144, RefOps144
<1>11. Ops160 = RefOps160
  BY DEF Ops160, RefOps160
<1>12. Ops176 = RefOps176
  BY DEF Ops176, RefOps176
<1>13. Ops192 = RefOps192
  BY DEF Ops192, RefOps192
<1>14. Ops208 = RefOps208
  BY DEF Ops208, RefOps208
<1>15. Ops224 = RefOps224
  BY DEF Ops224, RefOps224
<1>16. Ops240 = RefOps240
  BY DEF Ops240, RefOps240
<1> QED
  BY <1>1, <1>2, <1>3, <1>4, <1>5, <1>6, <1>7, <1>8, <1>9, <1>10, <1>11, <1>12,
     <1>13, <1>14, <1>15, <1>16 DEF OpRow, RefRow

\* What the operations do besides their steps is the same, too.
LEMMA AroundAgrees ==
    ASSUME NEW o \in Byte
    PROVE  Prologue(o) = RefPrologue(o) /\ Epilogue(o) = RefEpilogue(o)
  BY DEF Byte, Prologue, RefPrologue, Epilogue, RefEpilogue

\* Pure steps do not read s[pos2].
LEMMA PureIsPure ==
    ASSUME NEW code, \A n \in 1..4 : code[n] \in PureSteps, NEW x, NEW y, NEW z
    PROVE  Steps(code, x, y) = Steps(code, x, z)
<1>1. ASSUME NEW n \in 1..4, NEW v PROVE Step(code[n], v, y) = Step(code[n], v, z)
  <2>1. code[n] \in PureSteps
    OBVIOUS
  <2>2. code[n] # "and" /\ code[n] # "xor"
    BY <2>1 DEF PureSteps
  <2> QED
    BY <2>2 DEF Step
<1> QED
  BY <1>1 DEF Steps

\* A window lies within the chunk.
LEMMA WindowIs ==
    ASSUME NEW p1 \in Byte, NEW p2 \in Byte
    PROVE  LET w == Window(p1, p2)
           IN  w.pos1 \in Byte /\ w.pos2 \in Byte /\ w.pos1 <= w.pos2
<1> DEFINE lo   == IF p1 > p2 THEN p2 ELSE p1
           hi   == IF p1 > p2 THEN p1 ELSE p2
           span == (hi - lo) % 256
           near == (lo + (span % 32)) % 256
<1>1. lo \in 0..255 /\ hi \in 0..255 /\ lo <= hi
  BY DEF Byte
<1>2. Window(p1, p2) = [pos1 |-> lo, pos2 |-> IF span > 32 THEN near ELSE hi]
  BY DEF Window
<1> HIDE DEF lo, hi
<1>3. span \in Nat /\ span = hi - lo
  BY <1>1
<1> HIDE DEF span
<1>4. span % 32 \in Nat /\ span % 32 <= span
  BY <1>3
<1>5. near \in 0..255 /\ lo <= near
  <2>1. lo + (span % 32) \in 0..255 /\ lo <= lo + (span % 32)
    BY <1>1, <1>3, <1>4
  <2> QED
    BY <2>1
<1> HIDE DEF near
<1> QED
  BY <1>1, <1>2, <1>5 DEF Byte

\* Every byte of a window goes through the steps by itself.
Mapped(code, s, pos1, pos2) ==
    [s      |-> [i \in Byte |-> IF i \in pos1..(pos2 - 1) THEN Steps(code, s[i], 0) ELSE s[i]],
     hashed |-> <<>>, keyed |-> <<>>]

\* The loop of an operation without anything around its steps changes every byte of
\* the window by itself when the steps are pure.
LEMMA PureLoopIs ==
    ASSUME NEW code, \A n \in 1..4 : code[n] \in PureSteps,
           NEW V, NEW s \in [Byte -> V],
           NEW pos1 \in Byte, NEW pos2 \in Byte, pos1 <= pos2
    PROVE  OpLoop(code, "none", "none", s, pos1, pos2) = Mapped(code, s, pos1, pos2)
<1> DEFINE N == pos2 - pos1
           C(n) == [i \in Byte |-> IF i \in pos1..(pos1 + n - 1) THEN Steps(code, s[i], 0)
                                                                ELSE s[i]]
           R(n) == [s |-> C(n), hashed |-> <<>>, keyed |-> <<>>]
           start == [s |-> s, hashed |-> <<>>, keyed |-> <<>>]
           B(n, st) == OpByte(code, "none", st, pos1 + n - 1, pos1, pos2)
           T == [n \in 0..N |-> {R(n)}]
           step == [n \in 1..N |-> [st \in {R(n - 1)} |-> B(n, st)]]
           G(f) == f = [n \in 0..N |-> IF n = 0 THEN start ELSE B(n, f[n - 1])]
           f == CHOOSE g : G(g)
<1>1. N \in Nat /\ pos1 \in 0..255 /\ pos2 \in 0..255 /\ N = pos2 - pos1 /\ pos1 + N = pos2
  BY DEF Byte
<1> HIDE DEF N
<1>2. start = R(0)
  <2>1. pos1..(pos1 + 0 - 1) = {}
    BY <1>1
  <2>2. C(0) = s
    BY <2>1
  <2> QED
    BY <2>2
<1>3. ASSUME NEW n \in 1..N PROVE B(n, R(n - 1)) = R(n)
  <2> DEFINE i == pos1 + n - 1
  <2>1. i \in Byte /\ i \notin pos1..(pos1 + (n - 1) - 1)
    BY <1>1 DEF Byte
  <2>2. \A j \in Byte : j \in pos1..(pos1 + n - 1) <=> j = i \/ j \in pos1..(pos1 + (n - 1) - 1)
    BY <1>1 DEF Byte
  <2> DEFINE x == C(n - 1)
  <2>3. x = [j \in Byte |-> IF j \in pos1..(pos1 + (n - 1) - 1) THEN Steps(code, s[j], 0)
                                                             ELSE s[j]]
    OBVIOUS
  <2>4. x[i] = s[i]
    BY <2>1, <2>3
  <2>5. Steps(code, x[i], x[pos2]) = Steps(code, s[i], 0)
    BY <2>4, PureIsPure
  <2>6. B(n, R(n - 1)) = [R(n - 1) EXCEPT !.s = [x EXCEPT ![i] = Steps(code, x[i], x[pos2])]]
    <3>1. R(n - 1).s = x
      OBVIOUS
    <3> HIDE DEF R, x
    <3> QED
      BY <3>1 DEF OpByte
  <2>7. [x EXCEPT ![i] = Steps(code, s[i], 0)] = C(n)
    <3> DEFINE u == [x EXCEPT ![i] = Steps(code, s[i], 0)]
    <3>1. u = [j \in Byte |-> IF j = i THEN Steps(code, s[i], 0) ELSE x[j]]
      <4> HIDE DEF i
      <4> QED
        BY <2>3
    <3>2. ASSUME NEW j \in Byte PROVE u[j] = C(n)[j]
      <4> HIDE DEF i
      <4>1. u[j] = IF j = i THEN Steps(code, s[i], 0) ELSE x[j]
        BY <3>1
      <4>2. x[j] = IF j \in pos1..(pos1 + (n - 1) - 1) THEN Steps(code, s[j], 0) ELSE s[j]
        BY <2>3
      <4>3. C(n)[j] = IF j \in pos1..(pos1 + n - 1) THEN Steps(code, s[j], 0) ELSE s[j]
        OBVIOUS
      <4> HIDE DEF C, x, u
      <4> QED
        BY <2>2, <4>1, <4>2, <4>3
    <3>3. C(n) = [j \in Byte |-> C(n)[j]]
      OBVIOUS
    <3> HIDE DEF C, u, x
    <3>4. u = [j \in Byte |-> u[j]]
      BY <3>1
    <3> QED
      BY <3>2, <3>3, <3>4 DEF u
  <2>8. B(n, R(n - 1)) = [R(n - 1) EXCEPT !.s = C(n)]
    BY <2>5, <2>6, <2>7
  <2> QED
    <3> HIDE DEF B, C
    <3> QED
      BY <2>8
<1>4. \E g : Solves(g, N, T, start, step)
  <2>1. start \in T[0]
    BY <1>1, <1>2
  <2>2. ASSUME NEW n \in 1..N, NEW st \in T[n - 1] PROVE step[n][st] \in T[n]
    <3>1. n - 1 \in 0..N /\ n \in 0..N
      BY <1>1
    <3>2. st = R(n - 1)
      BY <3>1
    <3>3. step[n][st] = B(n, R(n - 1))
      <4> HIDE DEF B, R
      <4> QED
        BY <3>2
    <3>4. T[n] = {R(n)}
      BY <3>1
    <3> HIDE DEF B, R, T, step
    <3> QED
      BY <1>3, <3>3, <3>4
  <2> HIDE DEF T, start, step
  <2> QED
    BY <1>1, <2>1, <2>2, RecursionWithin
<1>5. PICK g : Solves(g, N, T, start, step)
  BY <1>4
<1>6. G(g)
  <2>1. ASSUME NEW n \in 1..N PROVE g[n] = B(n, g[n - 1])
    <3>1. n - 1 \in 0..N
      BY <1>1
    <3>2. g[n] = step[n][g[n - 1]] /\ g[n - 1] \in T[n - 1]
      BY <1>5, <3>1 DEF Solves
    <3>3. g[n - 1] = R(n - 1)
      BY <3>1, <3>2
    <3> HIDE DEF B, R
    <3> QED
      BY <3>2, <3>3
  <2>2. g = [n \in 0..N |-> g[n]] /\ g[0] = start
    BY <1>5 DEF Solves
  <2>3. ASSUME NEW n \in 0..N PROVE g[n] = IF n = 0 THEN start ELSE B(n, g[n - 1])
    <3> HIDE DEF B, start, T, step
    <3>1. CASE n = 0
      BY <2>2, <3>1
    <3>2. CASE n \in 1..N
      BY <2>1, <3>2
    <3> QED
      BY <1>1, <3>1, <3>2
  <2> HIDE DEF B, start, T, step
  <2> QED
    BY <2>2, <2>3
<1>7. G(f)
  BY <1>6
<1>8. OpLoop(code, "none", "none", s, pos1, pos2) = f[N]
  BY DEF OpLoop, N
<1>9. ASSUME NEW n \in 0..N PROVE f[n] = R(n)
  <2> DEFINE S == [k \in 0..N |-> {R(k)}]
  <2>1. f[0] = start
    <3>1. 0 \in 0..N
      BY <1>1
    <3> HIDE DEF B, start, f
    <3> QED
      BY <1>7, <3>1
  <2>2. f[0] \in S[0]
    BY <1>1, <1>2, <2>1
  <2>3. ASSUME NEW k \in 1..N, f[k - 1] \in S[k - 1] PROVE f[k] \in S[k]
    <3>1. k - 1 \in 0..N /\ k \in 0..N /\ k # 0
      BY <1>1
    <3>2. f[k] = B(k, f[k - 1])
      <4> HIDE DEF B, start, f
      <4> QED
        BY <1>7, <3>1
    <3>3. f[k - 1] = R(k - 1)
      BY <2>3, <3>1
    <3>4. f[k] = R(k)
      <4> HIDE DEF B, R, f
      <4> QED
        BY <1>3, <3>2, <3>3
    <3> HIDE DEF R, f
    <3> QED
      BY <3>1, <3>4
  <2>4. f[n] \in S[n]
    <3> HIDE DEF S, f
    <3> QED
      BY <1>1, <2>2, <2>3, HandedOn
  <2> QED
    <3> HIDE DEF R, f
    <3> QED
      BY <2>4
<1>10. f[N] = R(N)
  <2>1. N \in 0..N
    BY <1>1
  <2> HIDE DEF f, R
  <2> QED
    BY <1>9, <2>1
<1> HIDE DEF f
<1> QED
  BY <1>1, <1>8, <1>10 DEF Mapped

-----------------------------------------------------------------------------
(* How many of the operations below n are pure.                            *)

\* f counts the pure operations below each number.
Counts(f) ==
    /\ f \in [0..256 -> Nat]
    /\ f[0] = 0
    /\ \A n \in 1..256 : f[n] = IF isPureOp(n - 1) THEN f[n - 1] + 1 ELSE f[n - 1]

PureBelow == CHOOSE f : Counts(f)

\* There is such a count.
LEMMA PureBelowIs == Counts(PureBelow)
<1> DEFINE step == [n \in 1..256 |-> [c \in Nat |-> IF isPureOp(n - 1) THEN c + 1 ELSE c]]
<1>1. step \in [1..256 -> [Nat -> Nat]]
  OBVIOUS
<1>2. PICK f : Recursion(f, 256, Nat, 0, step)
  <2>1. 256 \in Nat /\ 0 \in Nat
    OBVIOUS
  <2> HIDE DEF step
  <2> QED
    BY <1>1, <2>1, RecursionExists
<1>3. Counts(f)
  <2>1. f \in [0..256 -> Nat] /\ f[0] = 0 /\ \A n \in 1..256 : f[n] = step[n][f[n - 1]]
    BY <1>2 DEF Recursion
  <2>2. ASSUME NEW n \in 1..256
        PROVE  f[n] = IF isPureOp(n - 1) THEN f[n - 1] + 1 ELSE f[n - 1]
    <3>1. n - 1 \in 0..256
      OBVIOUS
    <3>2. f[n - 1] \in Nat
      BY <2>1, <3>1
    <3> QED
      BY <2>1, <3>2
  <2> QED
    BY <2>1, <2>2 DEF Counts
<1> QED
  BY <1>3 DEF PureBelow

\* It grows.
LEMMA PureBelowGrows ==
    ASSUME NEW m \in 0..256 PROVE PureBelow[m] <= PureBelow[256]
<1> DEFINE P == {k \in Nat : k <= 256 => PureBelow[256 - k] <= PureBelow[256]}
<1>0. /\ \A n \in 0..256 : PureBelow[n] \in Nat
      /\ \A n \in 1..256 : PureBelow[n] = IF isPureOp(n - 1) THEN PureBelow[n - 1] + 1
                                                           ELSE PureBelow[n - 1]
  BY PureBelowIs DEF Counts
<1>1. 0 \in P
  <2>1. 256 \in 0..256 /\ 256 - 0 = 256
    OBVIOUS
  <2> QED
    BY <1>0, <2>1
<1>2. ASSUME NEW k \in Nat, k \in P PROVE k + 1 \in P
  <2> SUFFICES ASSUME k + 1 <= 256 PROVE PureBelow[256 - (k + 1)] <= PureBelow[256]
    OBVIOUS
  <2>1. PICK n \in 1..256 : n = 256 - k /\ n - 1 = 256 - (k + 1)
    OBVIOUS
  <2>2. n - 1 \in 0..256 /\ n \in 0..256 /\ 256 \in 0..256
    OBVIOUS
  <2>3. PureBelow[n] <= PureBelow[256]
    BY <1>2, <2>1
  <2> HIDE DEF P
  <2>4. PureBelow[n - 1] \in Nat /\ PureBelow[n] \in Nat /\ PureBelow[256] \in Nat
    <3>1. \A i \in 0..256 : PureBelow[i] \in Nat
      BY <1>0
    <3> QED
      BY <2>2, <3>1
  <2>5. PureBelow[n] = PureBelow[n - 1] + 1 \/ PureBelow[n] = PureBelow[n - 1]
    BY <1>0
  <2>6. PureBelow[n - 1] <= PureBelow[256]
    BY <2>3, <2>4, <2>5
  <2> QED
    BY <2>1, <2>6
<1>3. Nat \subseteq P
  <2> HIDE DEF P
  <2> QED
    BY <1>1, <1>2, SetInduction
<1>4. 256 - m \in Nat /\ 256 - m <= 256 /\ 256 - (256 - m) = m
  OBVIOUS
<1> QED
  BY <1>3, <1>4

\* There are 149 of them.
LEMMA PureBelowAll == PureBelow[256] = pureOpCount
<1>0. /\ PureBelow[0] = 0
      /\ \A n \in 1..256 : PureBelow[n] = IF isPureOp(n - 1) THEN PureBelow[n - 1] + 1
                                                           ELSE PureBelow[n - 1]
  BY PureBelowIs DEF Counts
<1> USE <1>0 DEF isPureOp, pureOpSet
<1>1. PureBelow[16] = 8
  OBVIOUS
<1>2. PureBelow[32] = 17
  BY <1>1
<1>3. PureBelow[48] = 27
  BY <1>2
<1>4. PureBelow[64] = 38
  BY <1>3
<1>5. PureBelow[80] = 48
  BY <1>4
<1>6. PureBelow[96] = 57
  BY <1>5
<1>7. PureBelow[112] = 70
  BY <1>6
<1>8. PureBelow[128] = 78
  BY <1>7
<1>9. PureBelow[144] = 86
  BY <1>8
<1>10. PureBelow[160] = 95
  BY <1>9
<1>11. PureBelow[176] = 107
  BY <1>10
<1>12. PureBelow[192] = 114
  BY <1>11
<1>13. PureBelow[208] = 123
  BY <1>12
<1>14. PureBelow[224] = 131
  BY <1>13
<1>15. PureBelow[240] = 140
  BY <1>14
<1>16. PureBelow[256] = 149
  BY <1>15
<1> QED
  BY <1>16 DEF pureOpCount

-----------------------------------------------------------------------------
(* The tables as init builds them.                                         *)

\* The operations up to the loop variable: the pure ones have a row that holds them,
\* the others have none, and as many rows are taken as operations were pure.
LutInv ==
    /\ op \in 0..256 /\ row = PureBelow[op]
    /\ rows \in Seq(Byte) /\ Len(rows) = row
    /\ opRow \in [Byte -> Int]
    /\ \A o \in 0..(op - 1) : IF isPureOp(o) THEN opRow[o] \in 0..(row - 1) /\ rows[opRow[o] + 1] = o
                                            ELSE opRow[o] = -1

\* Nothing is filled yet.
LEMMA LutInvInit == LutInit => LutInv
<1> SUFFICES ASSUME LutInit PROVE LutInv
  OBVIOUS
<1>1. PureBelow[0] = 0
  BY PureBelowIs DEF Counts
<1>2. opRow \in [Byte -> Int]
  BY DEF LutInit
<1>3. rows \in Seq(Byte) /\ Len(rows) = 0
  BY DEF LutInit
<1>4. op = 0 /\ row = 0 /\ op \in 0..256 /\ 0..(op - 1) = {}
  BY DEF LutInit
<1> QED
  BY <1>1, <1>2, <1>3, <1>4 DEF LutInv

\* A pure operation below 256 finds a free row.
LEMMA RowFree ==
    ASSUME NEW o \in Byte
    PROVE  /\ PureBelow[o] \in Nat
           /\ PureBelow[o + 1] = IF isPureOp(o) THEN PureBelow[o] + 1 ELSE PureBelow[o]
           /\ isPureOp(o) => PureBelow[o] < pureOpCount
<1>1. o \in 0..256 /\ o + 1 \in 1..256 /\ o + 1 \in 0..256 /\ (o + 1) - 1 = o
  BY DEF Byte
<1>2. /\ PureBelow[o] \in Nat
      /\ PureBelow[o + 1] = IF isPureOp(o) THEN PureBelow[o] + 1 ELSE PureBelow[o]
  <2>1. \A n \in 0..256 : PureBelow[n] \in Nat
    BY PureBelowIs DEF Counts
  <2>2. \A n \in 1..256 : PureBelow[n] = IF isPureOp(n - 1) THEN PureBelow[n - 1] + 1
                                                        ELSE PureBelow[n - 1]
    BY PureBelowIs DEF Counts
  <2> QED
    BY <1>1, <2>1, <2>2
<1>3. PureBelow[o + 1] <= pureOpCount
  BY <1>1, PureBelowGrows, PureBelowAll
<1> QED
  BY <1>2, <1>3 DEF pureOpCount

\* An iteration fills one row or none.
LEMMA LutInvStep == LutInv /\ [FillRow]_lutVars => LutInv'
<1> SUFFICES ASSUME LutInv, [FillRow]_lutVars PROVE LutInv'
  OBVIOUS
<1>1. CASE UNCHANGED lutVars
  BY <1>1 DEF lutVars, LutInv, isPureOp
<1>2. CASE FillRow
  <2>1. op \in Byte /\ op' = op + 1 /\ op' \in 0..256 /\ op' - 1 = op
    <3>1. op < 256 /\ op' = op + 1
      BY <1>2 DEF FillRow
    <3>2. op \in 0..256
      BY DEF LutInv
    <3> QED
      BY <3>1, <3>2 DEF Byte
  <2>2. \A o \in 0..(op' - 1) : o \in Byte /\ (o = op \/ (o # op /\ o \in 0..(op - 1)))
    BY <2>1 DEF Byte
  <2>3. /\ rows \in Seq(Byte) /\ Len(rows) = row /\ row = PureBelow[op]
        /\ opRow \in [Byte -> Int] /\ row \in Nat
        /\ PureBelow[op + 1] = IF isPureOp(op) THEN row + 1 ELSE row
    BY <2>1, RowFree DEF LutInv
  <2>4. CASE isPureOp(op)
    <3>1. /\ opRow' = [opRow EXCEPT ![op] = row]
          /\ rows' = Append(rows, op) /\ row' = row + 1
      BY <1>2, <2>4 DEF FillRow
    <3>2. /\ rows' \in Seq(Byte) /\ Len(rows') = row'
          /\ \A k \in 1..row : rows'[k] = rows[k]
          /\ rows'[row + 1] = op
      BY <2>1, <2>3, <3>1
    <3>3. opRow' \in [Byte -> Int] /\ opRow'[op] = row
          /\ \A o \in Byte : o # op => opRow'[o] = opRow[o]
      BY <2>1, <2>3, <3>1
    <3>4. ASSUME NEW o \in 0..(op' - 1)
          PROVE  IF isPureOp(o) THEN opRow'[o] \in 0..(row' - 1) /\ rows'[opRow'[o] + 1] = o
                                ELSE opRow'[o] = -1
      <4>1. CASE o = op
        <5>1. opRow'[o] = row /\ rows'[row + 1] = o /\ row \in 0..(row' - 1)
          BY <2>3, <3>1, <3>2, <3>3, <4>1
        <5> QED
          BY <2>4, <4>1, <5>1
      <4>2. CASE o # op
        <5>1. o \in Byte /\ o \in 0..(op - 1) /\ opRow'[o] = opRow[o]
          BY <2>2, <3>3, <4>2
        <5>2. IF isPureOp(o) THEN opRow[o] \in 0..(row - 1) /\ rows[opRow[o] + 1] = o
                             ELSE opRow[o] = -1
          BY <5>1 DEF LutInv
        <5>3. ASSUME isPureOp(o)
              PROVE  opRow'[o] \in 0..(row' - 1) /\ rows'[opRow'[o] + 1] = o
          <6>1. opRow[o] \in 0..(row - 1) /\ rows[opRow[o] + 1] = o
            BY <5>2, <5>3
          <6>2. opRow[o] + 1 \in 1..row /\ opRow[o] \in 0..(row' - 1)
            <7>1. \A k \in 0..(row - 1) : k + 1 \in 1..row /\ k \in 0..((row + 1) - 1)
              BY <2>3
            <7> QED
              BY <3>1, <6>1, <7>1
          <6> QED
            BY <3>2, <5>1, <6>1, <6>2
        <5> QED
          BY <5>1, <5>2, <5>3
      <4> QED
        BY <4>1, <4>2
    <3>5. row' = PureBelow[op']
      BY <2>1, <2>3, <2>4, <3>1
    <3> QED
      BY <2>1, <3>2, <3>3, <3>4, <3>5 DEF LutInv, isPureOp
  <2>5. CASE ~isPureOp(op)
    <3>1. opRow' = [opRow EXCEPT ![op] = -1] /\ rows' = rows /\ row' = row
      BY <1>2, <2>5 DEF FillRow
    <3>2. opRow' \in [Byte -> Int] /\ opRow'[op] = -1
          /\ \A o \in Byte : o # op => opRow'[o] = opRow[o]
      BY <2>1, <2>3, <3>1
    <3>3. ASSUME NEW o \in 0..(op' - 1)
          PROVE  IF isPureOp(o) THEN opRow'[o] \in 0..(row' - 1) /\ rows'[opRow'[o] + 1] = o
                                ELSE opRow'[o] = -1
      <4>1. CASE o = op
        BY <2>5, <3>2, <4>1
      <4>2. CASE o # op
        <5>1. o \in 0..(op - 1) /\ opRow'[o] = opRow[o]
          BY <2>2, <3>2, <4>2
        <5> QED
          BY <3>1, <5>1 DEF LutInv
      <4> QED
        BY <4>1, <4>2
    <3>4. row' = PureBelow[op']
      BY <2>1, <2>3, <2>5, <3>1
    <3> QED
      BY <2>1, <2>3, <3>1, <3>2, <3>3, <3>4 DEF LutInv, isPureOp
  <2> QED
    BY <2>4, <2>5
<1> QED
  BY <1>1, <1>2

\* The tables are only written while they are built.
LEMMA StartupLut == StartupSpec => []LutInv
<1>1. StartupInit => LutInv
  BY LutInvInit DEF StartupInit
<1>2. LutInv /\ [StartupNext]_<<vars, lutVars>> => LutInv'
  BY LutInvStep DEF StartupNext, PackageInit, MainRuns
<1> QED
  BY <1>1, <1>2, PTL DEF StartupSpec

\* An operation init has been through is done by its row as by the reference's switch.
LEMMA OperationsMatch ==
    ASSUME LutInv, NEW o \in Byte, o < op, NEW V, NEW s \in [Byte -> V],
           NEW pos1 \in Byte, NEW pos2 \in Byte, pos1 <= pos2
    PROVE  MinerOp(o, s, pos1, pos2) = RefOp(o, s, pos1, pos2)
<1>1. RefOp(o, s, pos1, pos2) = SwitchOp(o, s, pos1, pos2)
  BY RowsAgree, AroundAgrees DEF RefOp, SwitchOp
<1>2. o \in 0..(op - 1)
  <2>1. op \in 0..256
    BY DEF LutInv
  <2> QED
    BY <2>1 DEF Byte
<1>3. CASE isPureOp(o)
  <2>1. PureRow(o) = OpRow(o) /\ PureRow(o) # noCase /\ PureBody(o)
    BY <1>3, PureAtAll DEF PureAt
  <2>2. /\ Prologue(o) = "none" /\ Epilogue(o) = "none"
        /\ \A n \in 1..4 : OpRow(o)[n] \in PureSteps
    BY <2>1 DEF PureBody
  <2>3. opRow[o] >= 0 /\ rows[opRow[o] + 1] = o
    BY <1>2, <1>3 DEF LutInv
  <2>4. \A x : opLUT(opRow[o], x) = Steps(OpRow(o), x, 0)
    BY <2>1, <2>3 DEF opLUT, pureOp
  <2>5. MinerOp(o, s, pos1, pos2) = Mapped(OpRow(o), s, pos1, pos2)
    BY <2>3, <2>4 DEF MinerOp, Mapped
  <2>6. SwitchOp(o, s, pos1, pos2) = OpLoop(OpRow(o), "none", "none", s, pos1, pos2)
    BY <2>2 DEF SwitchOp
  <2>7. OpLoop(OpRow(o), "none", "none", s, pos1, pos2) = Mapped(OpRow(o), s, pos1, pos2)
    BY <2>2, PureLoopIs
  <2> QED
    BY <1>1, <2>5, <2>6, <2>7
<1>4. CASE ~isPureOp(o)
  <2>1. opRow[o] = -1
    BY <1>2, <1>4 DEF LutInv
  <2>2. MinerOp(o, s, pos1, pos2) = SwitchOp(o, s, pos1, pos2)
    BY <2>1 DEF MinerOp
  <2> QED
    BY <1>1, <2>2
<1> QED
  BY <1>3, <1>4

\* So is every byte.
LEMMA BytesMatch ==
    ASSUME LutInv, NEW o \in Byte, o < op, NEW x, NEW y
    PROVE  /\ Steps(OpRow(o), x, y) = Steps(RefRow(o), x, y)
           /\ opRow[o] >= 0 => opLUT(opRow[o], x) = Steps(OpRow(o), x, y)
<1>1. Steps(OpRow(o), x, y) = Steps(RefRow(o), x, y)
  BY RowsAgree
<1>2. ASSUME opRow[o] >= 0 PROVE opLUT(opRow[o], x) = Steps(OpRow(o), x, y)
  <2>1. o \in 0..(op - 1)
    <3>1. op \in 0..256
      BY DEF LutInv
    <3> QED
      BY <3>1 DEF Byte
  <2>2. isPureOp(o) /\ rows[opRow[o] + 1] = o
    BY <1>2, <2>1 DEF LutInv
  <2>3. PureRow(o) = OpRow(o) /\ PureRow(o) # noCase /\ PureBody(o)
    BY <2>2, PureAtAll DEF PureAt
  <2>4. opLUT(opRow[o], x) = Steps(OpRow(o), x, 0)
    BY <2>2, <2>3 DEF opLUT, pureOp
  <2>5. \A n \in 1..4 : OpRow(o)[n] \in PureSteps
    BY <2>3 DEF PureBody
  <2> QED
    BY <2>4, <2>5, PureIsPure
<1> QED
  BY <1>1, <1>2

\* What OpMatches samples, in full: for every operation so far, every byte, every value
\* of s[pos2], every window and every chunk, the miner does what the reference does.
TablesMatch ==
    \A o \in 0..(op - 1) :
       /\ \A x \in Byte, y \in Byte :
             /\ Steps(OpRow(o), x, y) = Steps(RefRow(o), x, y)
             /\ opRow[o] >= 0 => opLUT(opRow[o], x) = Steps(OpRow(o), x, y)
       /\ \A w \in Byte \X Byte : \A s \in [Byte -> Byte] :
             LET win == Window(w[1], w[2])
             IN  MinerOp(o, s, win.pos1, win.pos2) = RefOp(o, s, win.pos1, win.pos2)

\* The tables hold what the switch would do, and the switch does what the reference does.
LEMMA TablesMatchAll == LutInv => TablesMatch
<1> SUFFICES ASSUME LutInv, NEW o \in 0..(op - 1)
             PROVE  /\ \A x \in Byte, y \in Byte :
                          /\ Steps(OpRow(o), x, y) = Steps(RefRow(o), x, y)
                          /\ opRow[o] >= 0 => opLUT(opRow[o], x) = Steps(OpRow(o), x, y)
                    /\ \A w \in Byte \X Byte : \A s \in [Byte -> Byte] :
                          LET win == Window(w[1], w[2])
                          IN  MinerOp(o, s, win.pos1, win.pos2)
                                = RefOp(o, s, win.pos1, win.pos2)
  BY DEF TablesMatch
<1>1. o \in Byte /\ o < op
  <2>1. op \in 0..256
    BY DEF LutInv
  <2> QED
    BY <2>1 DEF Byte
<1>2. \A x \in Byte, y \in Byte :
         /\ Steps(OpRow(o), x, y) = Steps(RefRow(o), x, y)
         /\ opRow[o] >= 0 => opLUT(opRow[o], x) = Steps(OpRow(o), x, y)
  BY <1>1, BytesMatch
<1>3. ASSUME NEW w \in Byte \X Byte, NEW s \in [Byte -> Byte]
      PROVE  MinerOp(o, s, Window(w[1], w[2]).pos1, Window(w[1], w[2]).pos2)
               = RefOp(o, s, Window(w[1], w[2]).pos1, Window(w[1], w[2]).pos2)
  <2>1. w[1] \in Byte /\ w[2] \in Byte
    OBVIOUS
  <2> DEFINE win == Window(w[1], w[2])
  <2>2. win.pos1 \in Byte /\ win.pos2 \in Byte /\ win.pos1 <= win.pos2
    BY <2>1, WindowIs
  <2> HIDE DEF win
  <2>3. MinerOp(o, s, win.pos1, win.pos2) = RefOp(o, s, win.pos1, win.pos2)
    BY <1>1, <2>2, OperationsMatch
  <2> QED
    BY <2>3 DEF win
<1> QED
  BY <1>2, <1>3

\* The miner's branchy stage, by table or by switch, is the reference's for every
\* operation, byte, window and chunk, from the moment init has been through the
\* operation and for as long as the process runs.
THEOREM TablesAreRight == StartupSpec => []TablesMatch
  BY StartupLut, TablesMatchAll, PTL

\* The run compares some of this.
LEMMA SampleIs ==
    ASSUME LutInv, TablesMatch, op > 0
    PROVE  OpMatches(Seen)
<1>1. op - 1 \in 0..(op - 1) /\ Seen = op - 1
  BY DEF LutInv, Seen
<1>2. SampleBytes \subseteq Byte /\ SampleWindows \subseteq Byte \X Byte
  BY SampleAssumption
<1>3. ASSUME NEW k \in {1, 37} PROVE Chunk(k) \in [Byte -> Byte]
  <2>1. ASSUME NEW i \in Byte PROVE (i * k + 3 * k) % 256 \in Byte
    <3>1. i * k + 3 * k \in Nat
      BY <1>3 DEF Byte
    <3> HIDE DEF Byte
    <3> QED
      BY <3>1 DEF Byte
  <2> QED
    BY <2>1 DEF Chunk
<1>4. \A x \in Byte, y \in SampleBytes :
           /\ Steps(OpRow(Seen), x, y) = Steps(RefRow(Seen), x, y)
           /\ opRow[Seen] >= 0 => opLUT(opRow[Seen], x) = Steps(OpRow(Seen), x, y)
  BY <1>1, <1>2 DEF TablesMatch
<1>5. ASSUME NEW w \in SampleWindows, NEW k \in {1, 37}
      PROVE  LET win == Window(w[1], w[2])
             IN  MinerOp(Seen, Chunk(k), win.pos1, win.pos2)
                   = RefOp(Seen, Chunk(k), win.pos1, win.pos2)
  BY <1>1, <1>2, <1>3 DEF TablesMatch
<1> QED
  BY <1>4, <1>5 DEF OpMatches

\* On any sample of bytes and windows the miner does what the reference does, for every
\* operation init has been through (pow.go, lut.go, refpow/pow.go).
THEOREM MinerIsReference == StartupSpec => []MinerMatchesReference
<1>1. LutInv /\ TablesMatch => MinerMatchesReference
  BY SampleIs DEF MinerMatchesReference
<1> QED
  BY <1>1, StartupLut, TablesAreRight, PTL

\* The table kernel has the operations its generator would accept and no other; init
\* runs past no row, and leaves none free (lut.go, pureop_gen.go).
THEOREM PureSetIsExact == StartupSpec => []PureSetIsCurrent
<1>1. LutInv => PureSetIsCurrent
  <2> SUFFICES ASSUME LutInv
               PROVE  /\ op > 0 => (isPureOp(Seen) <=> PureBody(Seen))
                      /\ ~LutPanics
                      /\ op = 256 => LutBuilt
    BY DEF PureSetIsCurrent
  <2>1. op \in 0..256
    BY DEF LutInv
  <2>2. op > 0 => (isPureOp(Seen) <=> PureBody(Seen))
    <3>1. op > 0 => Seen \in Byte
      BY <2>1 DEF Seen, Byte
    <3> QED
      BY <3>1, PureAtAll DEF PureAt
  <2>3. ~LutPanics
    <3>1. op < 256 => op \in Byte
      BY <2>1 DEF Byte
    <3>2. op < 256 /\ isPureOp(op) => row \in Nat /\ row < pureOpCount
      BY <3>1, RowFree DEF LutInv
    <3> QED
      BY <3>2 DEF LutPanics, pureOpCount
  <2>4. op = 256 => LutBuilt
    BY PureBelowAll DEF LutInv, LutBuilt
  <2> QED
    BY <2>2, <2>3, <2>4
<1> QED
  BY <1>1, StartupLut, PTL

\* The whole process behaves as Launch says: main starts from what Init allows, and the
\* tables take no part in its steps. What is proved of Spec is true of the process.
THEOREM StartupRunsLaunch == StartupSpec => Spec
<1>1. StartupInit => Init
  BY DEF StartupInit
<1>2. [StartupNext]_<<vars, lutVars>> => [Next]_vars
  BY DEF StartupNext, PackageInit, MainRuns
<1> QED
  BY <1>1, <1>2, PTL DEF StartupSpec, Spec

=============================================================================
