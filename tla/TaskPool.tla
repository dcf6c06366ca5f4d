------------------------------ MODULE TaskPool ------------------------------
(***************************************************************************)
(* What a pool of workers promises its callers, whatever its threads and   *)
(* condition variables do: an accepted task is started once, in the order  *)
(* of acceptance, runs beside at most Size - 1 others, and the pool        *)
(* reports that it is closed only when every accepted task has finished.   *)
(***************************************************************************)
EXTENDS Integers, Sequences, FiniteSets

CONSTANTS Task, Size

VARIABLES waiting,   \* accepted, in order
          running, finished, open, closed

avars == <<waiting, running, finished, open, closed>>

Elems(s)   == {s[i] : i \in 1 .. Len(s)}
Accepted == Elems(waiting) \cup running \cup finished

Init == /\ waiting = <<>>
        /\ running = {}
        /\ finished = {}
        /\ open = TRUE
        /\ closed = FALSE

Accept(t) == /\ open
             /\ t \notin Accepted
             /\ waiting' = Append(waiting, t)
             /\ UNCHANGED <<running, finished, open, closed>>

Start == /\ waiting # <<>>
         /\ Cardinality(running) < Size
         /\ running' = running \cup {Head(waiting)}
         /\ waiting' = Tail(waiting)
         /\ UNCHANGED <<finished, open, closed>>

Finish(t) == /\ t \in running
             /\ running' = running \ {t}
             /\ finished' = finished \cup {t}
             /\ UNCHANGED <<waiting, open, closed>>

Shut == /\ open' = FALSE
        /\ UNCHANGED <<waiting, running, finished, closed>>

Close == /\ ~open
         /\ waiting = <<>>
         /\ running = {}
         /\ closed' = TRUE
         /\ UNCHANGED <<waiting, running, finished, open>>

Next == \/ \E t \in Task : Accept(t) \/ Finish(t)
        \/ Start
        \/ Shut
        \/ Close

Spec == Init /\ [][Next]_avars

=============================================================================
