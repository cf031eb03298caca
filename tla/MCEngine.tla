------------------------------ MODULE MCEngine ------------------------------
(* Model-checking instance of Engine: the frames a server may push.        *)
EXTENDS Engine, TLC

\* Threads are interchangeable: no definition tells one from another.
ThreadSymmetry == Permutations(Threads)

Good(w) == [blobOK |-> TRUE, jobidOK |-> TRUE, versionOK |-> TRUE,
            diffOK |-> TRUE, work |-> w]

AnyWork == CHOOSE w \in Work : TRUE

\* Every valid job, a wrong version, and each of the other rejections
\* (alone and with the failures that come after it in SetJob's order).
MCPushes ==
    {Good(w) : w \in Work}
      \cup {[Good(AnyWork) EXCEPT !.versionOK = FALSE]}
      \cup {[Good(AnyWork) EXCEPT !.blobOK = FALSE, !.versionOK = FALSE],
            [Good(AnyWork) EXCEPT !.jobidOK = FALSE, !.versionOK = FALSE],
            [Good(AnyWork) EXCEPT !.diffOK = FALSE]}

=============================================================================
