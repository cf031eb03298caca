------------------------------ MODULE MCLaunch ------------------------------
(* Model-checking instance of Startup: arguments, files, machines, jobs.   *)
EXTENDS Startup

CONSTANTS p1, p2, w1, w2, dp, dw      \* pools and wallets, and the defaults

\* A set of CPUs as the kernel writes it, with a range where there is one.
List(S) == LET s == Ascending(S)
               n == Len(s)
           IN  IF S = s[1]..s[n] THEN <<<<s[1], s[n]>>>> ELSE [i \in 1..n |-> <<s[i], s[i]>>]

Lists(m) == [c \in m.allowed |->
                List({d \in DOMAIN m.coreOf : m.coreOf[d] = m.coreOf[c]})]

Machine(os, allowed, coreOf, classOf) ==
    [os |-> os, allowed |-> allowed, lists |-> <<>>, records |-> <<>>,
     coreOf |-> coreOf, classOf |-> classOf]

\* Two cores with two threads each, numbered side by side or half a machine apart,
\* and a core with two threads beside two with one.
Cores == {<<0, 0, 1, 1>>, <<0, 1, 0, 1>>, <<0, 1, 2, 0>>}
CoreOf(s) == [c \in 0..3 |-> s[c + 1]]

WithLists(m) == [m EXCEPT !.lists = Lists(m)]

LinuxMachines ==
    {WithLists(Machine("linux", a, CoreOf(s), <<>>)) : s \in Cores,
        a \in {0..3, {1, 2, 3}, {0, 1, 3}}}

\* Files that are unreadable, malformed, silent about their own CPU or at odds.
BadMachines ==
    LET m == WithLists(Machine("linux", 0..3, CoreOf(<<0, 1, 0, 1>>), <<>>))
    IN  {[m EXCEPT !.lists = l] : l \in {
            [c \in {0, 1, 3} |-> m.lists[c]],
            [m.lists EXCEPT ![1] = <<<<1, 1>>, Garbled>>],
            [m.lists EXCEPT ![1] = <<<<3, 1>>>>],
            [m.lists EXCEPT ![2] = List({0})],
            [m.lists EXCEPT ![2] = List({2})],
            [m.lists EXCEPT ![0] = List({0, 1, 2})]}}

Record(k, l) == [class |-> k, lps |-> l]

WindowsMachines ==
    {[Machine("windows", 0..3, CoreOf(<<0, 0, 1, 2>>),
              [c \in 0..2 |-> <<0, 0, 1>>[c + 1]])
        EXCEPT !.records = <<Record(0, <<0, 1>>), Record(0, <<2>>), Record(1, <<3>>)>>],
     Machine("windows", 0..3, CoreOf(<<0, 0, 1, 2>>), [c \in 0..2 |-> 0])}

OtherMachines == {Machine("other", 0..3, CoreOf(<<0, 0, 1, 1>>), <<>>)}

Plain == WithLists(Machine("linux", 0..2, CoreOf(<<0, 1, 2, 2>>), <<>>))
Large == WithLists(Machine("linux", 0..5, [c \in 0..5 |-> c], <<>>))

Arguments(d, w, t, p, b) == [daemon |-> d, wallet |-> w, threads |-> t, pin |-> p, bench |-> b]
Settings(d, w, t) == [daemon |-> d, wallet |-> w, threads |-> t]

MCNames == {Blank, p1, p2, w1, w2, dp, dw}

MCFiles == {Missing, Torn}
             \cup {Settings(d, w, t) : d \in {Absent, Blank, p1}, w \in {Absent, w1},
                                      t \in {Absent, -1, 0, 2, 9}}

World(a, f, m, d) == [flags |-> a, file |-> f, machine |-> m, diff |-> d]

\* Settings without pinning; pinning on every machine; targets of every difficulty.
MCWorlds ==
    {World(Arguments(d, w, t, FALSE, b), f, Plain, 0) :
        d \in {Blank, p2}, w \in {Blank, w2}, t \in {-3, 0, 1, 9}, b \in {FALSE}, f \in MCFiles}
      \cup {World(Arguments(Blank, Blank, t, FALSE, TRUE), Missing, m, 0) :
              t \in {0, 9}, m \in {Plain, Large}}
      \cup {World(Arguments(Blank, Blank, t, TRUE, FALSE), Missing, m, 0) :
              t \in 1..5,
              m \in LinuxMachines \cup BadMachines \cup WindowsMachines \cup OtherMachines}
      \cup {World(Arguments(Blank, Blank, 1, FALSE, FALSE), Missing, Plain, d) :
              d \in 0..(Limit)}

MCAnswers == {Settings(d, w, t) : d \in {Absent, p2}, w \in {Absent, w2}, t \in {Absent, -1, 2}}

MCSampleBytes   == {0, 97, 170, 255}
MCSampleWindows == {<<5, 9>>, <<203, 200>>, <<0, 255>>, <<10, 42>>, <<7, 7>>}

=============================================================================
