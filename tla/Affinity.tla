------------------------------ MODULE Affinity ------------------------------
(***************************************************************************)
(* The order in which workers are pinned to logical CPUs                   *)
(* (internal/miner/affinity_*.go). A machine is a record:                  *)
(*   os       "linux", "windows" or "other"                                *)
(*   allowed  the CPUs the process may use                                 *)
(*   lists    linux: CPU -> the fields of its thread_siblings_list, each   *)
(*            a range <<lo, hi>> or Garbled; a CPU whose file cannot be    *)
(*            read has no entry                                            *)
(*   records  windows: the processor cores as the kernel lists them,       *)
(*            [class, lps], or <<>> when they cannot be read               *)
(*   coreOf   the physical core of each CPU, and                           *)
(*   classOf  the efficiency class of each core (no code reads these two)  *)
(***************************************************************************)
EXTENDS FiniteSets, Functions, Sorting

CONSTANTS Garbled, NoOrder

\* What a machine is described by, see above.
MachineFields == {"os", "allowed", "lists", "records", "coreOf", "classOf"}

\* The numbers of S in order: each stands where as many are below it.
Ascending(S) ==
    [i \in 1..Cardinality(S) |-> CHOOSE c \in S : Cardinality({d \in S : d < c}) = i - 1]

Evens(n) == [i \in 1..((n + 1) \div 2) |-> 2 * (i - 1)]
Odds(n)  == [i \in 1..(n \div 2) |-> 2 * i - 1]

\* An order for every worker or none.
pinOrderForThreads(order, threads) ==
    IF threads <= 0 \/ Len(order) < threads THEN NoOrder
    ELSE [i \in 1..threads |-> order[i]]

\* The CPUs of a list of ranges; one bad field spoils the list.
parseCPUList(list) ==
    IF \E i \in DOMAIN list : list[i] = Garbled \/ list[i][2] < list[i][1] THEN Garbled
    ELSE UNION {list[i][1]..list[i][2] : i \in DOMAIN list}

\* The siblings of c that may be used, per the file of c.
Group(m, c) == parseCPUList(m.lists[c]) \cap m.allowed

\* Of several lists, the first elements, and all others list by list.
Firsts(groups) == [i \in 1..Len(groups) |-> groups[i][1]]

Rests(groups) ==
    LET rests[n \in 0..Len(groups)] ==
            IF n = 0 THEN <<>>
            ELSE rests[n - 1] \o SubSeq(groups[n], 2, Len(groups[n]))
    IN  rests[Len(groups)]

\* A variant of linuxPinOrder (below) that does not look at the topology.
linuxPinOrderNumeric(m) == Ascending(m.allowed)

\* One CPU of each core, then the siblings; sibling files that are malformed,
\* do not name their own CPU or contradict each other: all CPUs in order.
linuxPinOrder(m) ==
    LET usable == \A c \in m.allowed : /\ parseCPUList(m.lists[c]) # Garbled
                                       /\ c \in Group(m, c)
        groups == {Group(m, c) : c \in m.allowed}
        apart  == \A c \in m.allowed : Cardinality({g \in groups : c \in g}) = 1
        \* groups in the order of their lowest CPU, which is where each is first met
        heads  == Ascending({Ascending(g)[1] : g \in groups})
        sorted == [i \in 1..Len(heads) |-> Ascending(Group(m, heads[i]))]
    IN  IF usable /\ apart THEN Firsts(sorted) \o Rests(sorted) ELSE Ascending(m.allowed)

\* Windows: cores by efficiency class, highest first and otherwise as listed.
pCoreFirstOrder(m) ==
    LET records == {m.records[i] : i \in 1..Len(m.records)}
        cores   == InsertionSort(m.records,
                       {p \in records \X records : p[1].class > p[2].class})
        lps     == [i \in 1..Len(cores) |-> cores[i].lps]
    IN  Firsts(lps) \o Rests(lps)

\* Every other CPU first; a Windows affinity mask addresses 64 CPUs.
interleaveOrder(m) ==
    LET cpus == Cardinality(m.allowed)
        n == IF m.os = "windows" /\ cpus > 64 THEN 64 ELSE cpus
    IN  Evens(n) \o Odds(n)

\* The order before any CPU has been tried. On Linux an unreadable sibling file
\* means all CPUs in numeric order.
WantedOrder(m, threads) ==
    pinOrderForThreads(
        CASE m.os = "linux"   -> IF m.allowed \subseteq DOMAIN m.lists
                                 THEN linuxPinOrder(m) ELSE Ascending(m.allowed)
          [] m.os = "windows" -> IF m.records # <<>> THEN pCoreFirstOrder(m)
                                                     ELSE interleaveOrder(m)
          [] OTHER            -> interleaveOrder(m),
        threads)

-----------------------------------------------------------------------------
(* What is true of the machine; no code can see it.                        *)

\* The kernel lists each logical CPU once, in the mask of one core (Windows).
ListsEachOnce(m) ==
    /\ m.records \in Seq([class: Nat, lps: Seq(Nat)])
    /\ \A i \in 1..Len(m.records) : /\ m.records[i].lps # <<>>
                                    /\ IsInjective(m.records[i].lps)
    /\ \A i, j \in 1..Len(m.records) : i # j =>
          \A k \in DOMAIN m.records[i].lps, l \in DOMAIN m.records[j].lps :
             m.records[i].lps[k] # m.records[j].lps[l]

\* The kernel's description of the cores is right.
Truthful(m) ==
    CASE m.os = "linux" ->
            \A c \in m.allowed : /\ c \in DOMAIN m.lists
                                 /\ parseCPUList(m.lists[c]) # Garbled
                                 /\ Group(m, c) = {d \in m.allowed : m.coreOf[d] = m.coreOf[c]}
      [] m.os = "windows" ->
            /\ \A c \in m.allowed : \E i \in DOMAIN m.records :
                  \E k \in DOMAIN m.records[i].lps : m.records[i].lps[k] = c
            /\ \A i, j \in DOMAIN m.records :
                  \A k \in DOMAIN m.records[i].lps, l \in DOMAIN m.records[j].lps :
                     LET a == m.coreOf[m.records[i].lps[k]]
                         b == m.coreOf[m.records[j].lps[l]]
                     IN  (a = b <=> i = j) /\ m.classOf[a] = m.records[i].class
      [] OTHER -> FALSE

=============================================================================
