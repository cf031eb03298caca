------------------------------- MODULE Launch -------------------------------
(***************************************************************************)
(* From the start of the process to the first hash that is judged          *)
(* (main.go, internal/config, internal/miner): run tests its hash,         *)
(* resolves the settings from flags, config.json and defaults, picks the   *)
(* CPUs of the workers, and a job brings a target. Meanwhile another       *)
(* process may run --setup and rewrite config.json, crash while it does,   *)
(* and the kernel may take CPUs away.                                      *)
(*                                                                         *)
(* What the process finds outside is one of Worlds, a record:              *)
(*   flags    [daemon, wallet, threads, pin, bench]                        *)
(*   file     config.json: Missing, Torn (not JSON) or [daemon, wallet,    *)
(*            threads], where Absent is a key that is not there            *)
(*   machine  see Affinity                                                 *)
(*   diff     the difficulty of the first job                              *)
(***************************************************************************)
EXTENDS Affinity, Difficulty

CONSTANTS Worlds, MaxThreads,
          Names, Blank,                \* endpoints and wallets; the empty string
          Missing, Torn, Absent,       \* contents of the file
          DefaultDaemon, DefaultWallet,
          None,                        \* nothing there yet
          Answers                      \* what is typed at --setup, see SetupAnswer

Content == [daemon: Names \cup {Absent}, wallet: Names \cup {Absent},
            threads: Int \cup {Absent}]

\* Whatever is typed at --setup: a value, or Absent.
ASSUME SettingsAssumption ==
    /\ MaxThreads \in Nat
    /\ Blank \in Names /\ {DefaultDaemon, DefaultWallet} \subseteq Names
    /\ Absent \notin Names \cup Int
    /\ Missing # Torn /\ {Missing, Torn} \cap Content = {}
    /\ \A a \in Answers : a \in Content /\ a.daemon # Blank /\ a.wallet # Blank

ASSUME WorldsAssumption ==
    \A w \in Worlds : /\ w.flags.threads \in Int
                      /\ w.flags.bench \in BOOLEAN /\ w.flags.pin \in BOOLEAN
                      /\ w.file \in Content \cup {Missing, Torn}
                      /\ DOMAIN w.machine = MachineFields
                      /\ w.machine.allowed \subseteq Nat
                      /\ IsFiniteSet(w.machine.allowed)
                      /\ w.machine.os = "windows" /\ w.machine.records # <<>> =>
                            ListsEachOnce(w.machine)
                      /\ w.diff \in Nat

VARIABLES pc,        \* where run is
          world,
          file,      \* config.json
          setup,     \* the --setup process
          conf,      \* what run mines with
          online,    \* the CPUs the kernel lets the process use now
          mask,      \* the affinity mask of the thread in PinOrder
          order,     \* the order PinOrder is checking or has returned
          tried,     \* how many of its CPUs have been tried
          pinned,    \* the workers that sit on their CPU
          target, verdict,
          contents,  \* history: every whole content the file had
          late       \* history: the CPUs of the order that went after they were tried

outside == <<world, file, setup, online, contents, late>>
pinVars == <<mask, order, tried, pinned>>
vars == <<world, pc, file, setup, conf, online, mask, order, tried, pinned,
          target, verdict, contents, late>>

Init ==
    /\ pc = "init" /\ world = None /\ file = Missing /\ contents = {}
    /\ setup = [pc |-> "off"]
    /\ conf = None /\ target = None /\ verdict = None
    /\ online = {} /\ mask = {} /\ order = NoOrder /\ tried = 0 /\ pinned = {}
    /\ late = {}

-----------------------------------------------------------------------------
(* The settings.                                                           *)
NumCPU == Cardinality(world.machine.allowed)

normalizedThreadCount(n) ==
    LET wanted == IF n <= 0 THEN NumCPU ELSE n
    IN  IF wanted > MaxThreads THEN MaxThreads ELSE wanted

\* The value of a setting, from a flag, a file and a default; blank is "not given".
Pick(flag, f, key, blank, default) ==
    LET given == IF flag = blank /\ f # Missing /\ f[key] # Absent THEN f[key] ELSE flag
    IN  IF given = blank THEN default ELSE given

resolve(flags, f) ==
    [daemon  |-> Pick(flags.daemon, f, "daemon", Blank, DefaultDaemon),
     wallet  |-> Pick(flags.wallet, f, "wallet", Blank, DefaultWallet),
     threads |-> normalizedThreadCount(Pick(flags.threads, f, "threads", 0, 0))]

\* Load: a file that is not JSON is an error, a missing one is not.
LoadFails(f) == f = Torn

\* main begins: arguments, files and machine are what they are.
ParseFlags ==
    /\ pc = "init"
    /\ \E w \in Worlds :
         /\ world' = w
         /\ file' = w.file
         /\ contents' = {w.file} \ {Torn}
         /\ online' = w.machine.allowed /\ mask' = w.machine.allowed
    /\ pc' = "kat"
    /\ UNCHANGED <<setup, conf, order, tried, pinned, target, verdict, late>>

\* The known-answer test; a miner whose hash is wrong exits. The benchmarks take
\* their thread count from the flags alone.
SelfTest ==
    /\ pc = "kat"
    /\ \E good \in BOOLEAN :
         IF ~good THEN pc' = "exit 1" /\ UNCHANGED conf
         ELSE IF world.flags.bench
         THEN /\ conf' = [daemon |-> None, wallet |-> None,
                          threads |-> normalizedThreadCount(world.flags.threads)]
              /\ pc' = "order"
         ELSE pc' = "load" /\ UNCHANGED conf
    /\ UNCHANGED <<outside, pinVars, target, verdict>>

\* A variant of LoadConfig (below): a file that is not JSON is taken for none.
LoadConfigLenient ==
    /\ pc = "load"
    /\ pc' = "order"
    /\ conf' = resolve(world.flags, IF LoadFails(file) THEN Missing ELSE file)
    /\ UNCHANGED <<outside, pinVars, target, verdict>>

LoadConfig ==
    /\ pc = "load"
    /\ IF LoadFails(file) THEN pc' = "exit 1" /\ UNCHANGED conf
       ELSE pc' = "order" /\ conf' = resolve(world.flags, file)
    /\ UNCHANGED <<outside, pinVars, target, verdict>>

-----------------------------------------------------------------------------
(* The --setup process: load, ask, truncate, write.                        *)
\* A variant of SetupCurrent (below) that ignores the file.
SetupCurrentDefaults(f) ==
    [daemon |-> DefaultDaemon, wallet |-> DefaultWallet, threads |-> -1]

SetupCurrent(f) ==
    LET keep(key, default) == IF f \in {Missing, Torn} \/ f[key] = Absent THEN default
                              ELSE f[key]
    IN  [daemon |-> keep("daemon", DefaultDaemon), wallet |-> keep("wallet", DefaultWallet),
         threads |-> keep("threads", -1)]

SetupLoad ==
    /\ world # None /\ setup.pc = "off"
    /\ setup' = [pc |-> "ask", before |-> file, new |-> SetupCurrent(file)]
    /\ UNCHANGED <<world, pc, file, conf, online, pinVars, target, verdict,
                   contents, late>>

\* An answer is [daemon, wallet, threads]; Absent is Enter, the end of the input, a
\* blank custom endpoint or threads that are not a number, and keeps what was there.
\* An invalid choice or endpoint is asked again.
promptEndpoint(current, typed) == IF typed = Absent THEN current ELSE typed
prompt(default, typed)         == IF typed = Absent THEN default ELSE typed

SetupAnswer ==
    /\ setup.pc = "ask"
    /\ \E a \in Answers :
         setup' = [pc |-> "save", before |-> setup.before, typed |-> a,
                   new |-> [daemon  |-> promptEndpoint(setup.new.daemon, a.daemon),
                            wallet  |-> prompt(setup.new.wallet, a.wallet),
                            threads |-> prompt(setup.new.threads, a.threads)]]
    /\ UNCHANGED <<world, pc, file, conf, online, pinVars, target, verdict,
                   contents, late>>

\* WriteFile truncates and then writes: what a reader or a crash sees in between
\* is not JSON. It may also fail before it touches the file.
SaveTruncates ==
    /\ setup.pc = "save"
    /\ \/ file' = Torn /\ setup' = [setup EXCEPT !.pc = "write"]
       \/ setup' = [setup EXCEPT !.pc = "failed"] /\ UNCHANGED file
    /\ UNCHANGED <<world, pc, conf, online, pinVars, target, verdict, contents, late>>

SaveWrites ==
    /\ setup.pc = "write"
    /\ \/ /\ file' = setup.new /\ contents' = contents \cup {setup.new}
          /\ setup' = [setup EXCEPT !.pc = "saved"]
       \/ /\ setup' = [setup EXCEPT !.pc = "failed"]      \* a crash or a full disk
          /\ UNCHANGED <<file, contents>>
    /\ UNCHANGED <<world, pc, conf, online, pinVars, target, verdict, late>>

-----------------------------------------------------------------------------
(* Pinning. On Linux the CPUs are those of the thread's mask as it is then,*)
(* and every CPU of the order is tried on the calling thread before any    *)
(* worker starts; the kernel grants the part of a mask that is online.     *)
PinOrder ==
    /\ pc = "order"
    /\ order' = IF ~world.flags.pin THEN NoOrder
                ELSE WantedOrder([world.machine EXCEPT !.allowed = mask], conf.threads)
    /\ pc' = IF world.machine.os = "linux" /\ order' # NoOrder THEN "preflight" ELSE "start"
    /\ tried' = 0
    /\ UNCHANGED <<outside, conf, mask, pinned, target, verdict>>

\* A variant of Preflight (below) that passes over a CPU that is refused.
PreflightSkips ==
    /\ pc = "preflight" /\ tried < Len(order)
    /\ mask' = IF order[tried + 1] \in online THEN {order[tried + 1]} ELSE mask
    /\ tried' = tried + 1
    /\ UNCHANGED <<outside, pc, order, conf, pinned, target, verdict>>

Preflight ==
    /\ pc = "preflight" /\ tried < Len(order)
    /\ IF order[tried + 1] \in online
       THEN /\ mask' = {order[tried + 1]} /\ tried' = tried + 1
            /\ UNCHANGED <<pc, order>>
       ELSE /\ mask' = world.machine.allowed \cap online
            /\ order' = NoOrder /\ tried' = 0 /\ pc' = "start"
    /\ UNCHANGED <<outside, conf, pinned, target, verdict>>

PreflightDone ==
    /\ pc = "preflight" /\ tried = Len(order)
    /\ mask' = world.machine.allowed \cap online
    /\ tried' = 0 /\ pc' = "start"
    /\ UNCHANGED <<outside, conf, order, pinned, target, verdict>>

\* Whether worker t gets onto its CPU; a failure is ignored.
pinCurrentThread(t) ==
    world.machine.os # "other" /\ order # NoOrder /\ order[t + 1] \in online

StartWorkers ==
    /\ pc = "start"
    /\ pinned' = {t \in 0..(conf.threads - 1) : pinCurrentThread(t)}
    /\ pc' = IF world.flags.bench THEN "bench" ELSE "mining"
    /\ UNCHANGED <<outside, conf, mask, order, tried, target, verdict>>

\* The CPUs PinOrder has tried of the order that is still wanted.
Vetted ==
    IF order = NoOrder THEN {}
    ELSE {order[i] : i \in 1..(IF pc = "start" THEN Len(order) ELSE tried)}

\* The kernel takes a CPU away (a cpuset shrinks, a CPU goes offline). A thread
\* with no CPU left may run on all that remain.
LoseCPU ==
    /\ pc \in {"order", "preflight", "start"} /\ world.machine.os = "linux"
    /\ world.flags.pin
    /\ \E c \in online :
         /\ online # {c}
         /\ online' = online \ {c}
         /\ mask' = IF mask = {c} THEN online' ELSE mask \ {c}
         /\ late' = late \cup ({c} \cap Vetted)
    /\ UNCHANGED <<world, pc, file, setup, conf, order, tried, pinned, target,
                   verdict, contents>>

-----------------------------------------------------------------------------
\* SetJob refuses a job of difficulty zero; every other one brings a target, and
\* the workers judge hashes by it.
FirstJob ==
    /\ pc = "mining" /\ target = None /\ world.diff > 0
    /\ target' = ComputeTarget(world.diff)
    /\ UNCHANGED <<outside, pc, conf, pinVars, verdict>>

JudgeHash ==
    /\ target # None
    /\ \E n \in 0..(Limit - 1) :
         verdict' = [hash |-> n, share |-> MeetsTarget(HashOf(n), target)]
    /\ UNCHANGED <<outside, pc, conf, pinVars, target>>

Next == \/ ParseFlags \/ SelfTest \/ LoadConfig
        \/ SetupLoad \/ SetupAnswer \/ SaveTruncates \/ SaveWrites
        \/ PinOrder \/ Preflight \/ PreflightDone \/ StartWorkers \/ LoseCPU
        \/ FirstJob \/ JudgeHash

Spec == Init /\ [][Next]_vars

-----------------------------------------------------------------------------
Mining == pc = "mining"

\* Whatever a setup run does to config.json and wherever it stops, the miner mines
\* with the flags over one whole content the file has had, or does not start: it
\* never takes a truncated file for a missing one (config.go, Load and Save).
MinesWholeSettings ==
    Mining => \E f \in contents : conf = resolve(world.flags, f)

\* A finished setup run does what was typed, and Enter changes nothing: each
\* setting the next start resolves without flags is the one typed, or the one the
\* file gave before (main.go, runSetupIO, with Load, Save and resolve).
SetupIsHonoured ==
    setup.pc = "saved" =>
        LET none   == [daemon |-> Blank, wallet |-> Blank, threads |-> 0]
            before == resolve(none, IF setup.before = Torn THEN Missing ELSE setup.before)
            after  == resolve(none, file)
        IN  \A k \in {"daemon", "wallet", "threads"} :
                after[k] = IF setup.typed[k] = Absent THEN before[k]
                           ELSE IF k = "threads" THEN normalizedThreadCount(setup.typed[k])
                           ELSE setup.typed[k]

\* On Linux either every worker is pinned or none is, also when the kernel takes
\* CPUs away while PinOrder tries them.  Only a CPU that goes after it was tried
\* itself is missed: then the worker on it, and no other, runs unpinned.  And
\* however the trial ends, the thread that made it may run again wherever it could
\* before (affinity_linux.go, PinOrder and preflightPinOrder).
PinsAllOrNone ==
    pc \in {"mining", "bench"} /\ world.machine.os = "linux" =>
        /\ mask = world.machine.allowed \cap online
        /\ pinned = IF order = NoOrder THEN {}
                    ELSE {t \in 0..(conf.threads - 1) : order[t + 1] \notin late}

\* Every worker has a CPU of its own in the order, whatever the sibling files say
\* (Windows lists a CPU once, see WorldsAssumption); and no worker shares a physical core while another core that the process may use has
\* none, when the kernel's description of the cores is right (linuxPinOrder,
\* pCoreFirstOrder); and on Windows the first worker of a core never comes before
\* that of a core of a higher efficiency class.
CoresFirst ==
    pc \in {"mining", "bench"} /\ order # NoOrder =>
        LET core(i)   == world.machine.coreOf[order[i]]
            second(i) == \E h \in 1..(i - 1) : core(h) = core(i)
            class(i)  == world.machine.classOf[core(i)]
        IN  /\ IsInjective(order)
            /\ Truthful(world.machine) =>
                 \A i \in 1..Len(order) :
                    /\ second(i) => \A c \in online :
                                       \E h \in 1..(i - 1) : core(h) = world.machine.coreOf[c]
                    /\ world.machine.os = "windows" =>
                         \A h \in 1..(i - 1) : ~second(i) => class(h) >= class(i)

\* The target and the digit-wise comparison are the definition: a hash is a share
\* when its value times the difficulty is at most Base^Digits (difficulty.go).
TargetIsDefinition ==
    verdict # None => (verdict.share <=> verdict.hash * world.diff <= Limit)

=============================================================================
