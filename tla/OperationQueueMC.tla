-------------------------- MODULE OperationQueueMC --------------------------
(* Instances of OperationQueue for TLC.                                    *)
EXTENDS OperationQueue, TLC

CONSTANTS w1, w2, c1

OneWorker == {w1}
TwoWorkers == {w1, w2}
OneClient == {c1}
NoClient == {}
OnePriority == {1}
TwoPriorities == {0, 2}

\* Workers are told apart by nothing but their place in _workers, and the code
\* treats every place alike.
Symmetry == Permutations({w1, w2})

=============================================================================
