------------------------------ MODULE Sorting -------------------------------
(***************************************************************************)
(* The sorting algorithms the suffix sort is put together from             *)
(* (internal/astrobwt/sa_v114_emit.go, sa_v114_merge.go). A comparison is  *)
(* the set of the pairs whose first element is less.                       *)
(***************************************************************************)
EXTENDS Integers, Sequences

\* A variant of Inserted (below) that never moves x before the first element.
InsertedBehindFirst(done, x, less) ==
    LET stop == {IF done = <<>> THEN 0 ELSE 1}
                    \cup {j \in 1..Len(done) : <<x, done[j]>> \notin less}
        at   == CHOOSE j \in stop : \A k \in stop : k <= j
    IN  [i \in 1..(Len(done) + 1) |-> IF i <= at THEN done[i]
                                      ELSE IF i = at + 1 THEN x ELSE done[i - 1]]

\* x moves left from the end of done while it is less than its neighbour.
Inserted(done, x, less) ==
    LET stop == {0} \cup {j \in 1..Len(done) : <<x, done[j]>> \notin less}
        at   == CHOOSE j \in stop : \A k \in stop : k <= j
    IN  [i \in 1..(Len(done) + 1) |-> IF i <= at THEN done[i]
                                      ELSE IF i = at + 1 THEN x ELSE done[i - 1]]

InsertionSort(s, less) ==
    LET sorted[n \in 0..Len(s)] ==
            IF n = 0 THEN <<>> ELSE Inserted(sorted[n - 1], s[n], less)
    IN  sorted[Len(s)]

Swapped(o, i, j) == [o EXCEPT ![i] = o[j], ![j] = o[i]]

\* The element at root moves down while a child is greater: at most n times.
SiftDown(o, root, n, less) ==
    LET down[k \in 0..n] ==
            IF k = 0 THEN [order |-> o, root |-> root]
            ELSE LET h     == down[k - 1]
                     left  == 2 * h.root
                     child == IF left < n /\ <<h.order[left], h.order[left + 1]>> \in less
                              THEN left + 1 ELSE left
                 IN  IF left > n \/ <<h.order[h.root], h.order[child]>> \notin less THEN h
                     ELSE [order |-> Swapped(h.order, h.root, child), root |-> child]
    IN  down[n].order

\* A heap is built from the last parent up.
Heapified(o, less) ==
    LET n == Len(o)
        heap[k \in 0..(n \div 2)] ==
            IF k = 0 THEN o ELSE SiftDown(heap[k - 1], n \div 2 - k + 1, n, less)
    IN  heap[n \div 2]

\* The greatest element is moved behind the heap, again and again.
HeapSort(o, less) ==
    LET n == Len(o)
        sorted[k \in 0..(n - 1)] ==
            IF k = 0 THEN Heapified(o, less)
            ELSE SiftDown(Swapped(sorted[k - 1], 1, n - k + 1), 1, n - k, less)
    IN  IF n = 0 THEN o ELSE sorted[n - 1]

\* One element per step; left counts those taken from l.
Merge(l, r, less) ==
    LET merge[n \in 0..(Len(l) + Len(r))] ==
            IF n = 0 THEN [left |-> 0, out |-> <<>>]
            ELSE LET m == merge[n - 1]
                     i == m.left + 1
                     j == n - m.left
                 IN  IF j > Len(r) \/ (i <= Len(l) /\ <<l[i], r[j]>> \in less)
                     THEN [left |-> i, out |-> Append(m.out, l[i])]
                     ELSE [left |-> m.left, out |-> Append(m.out, r[j])]
    IN  merge[Len(l) + Len(r)].out

\* Neighbours are merged, the last list stays alone when their number is odd.
MergePairs(lists, less) ==
    [i \in 1..((Len(lists) + 1) \div 2) |->
        IF 2 * i > Len(lists) THEN lists[2 * i - 1]
        ELSE Merge(lists[2 * i - 1], lists[2 * i], less)]

\* Until one list is left, in fewer rounds than lists.
MergeAll(lists, less) ==
    LET round[k \in 0..Len(lists)] ==
            IF k = 0 THEN lists ELSE MergePairs(round[k - 1], less)
    IN  round[Len(lists)][1]

=============================================================================
