---------------------------- MODULE MCThreadPool ----------------------------
(* ThreadPool with interchangeable threads and tasks.                      *)
EXTENDS ThreadPool, TLC

Symmetry == Permutations(Worker) \cup Permutations(Producer) \cup Permutations(Task)
              \cup Permutations(Waiter)

=============================================================================
