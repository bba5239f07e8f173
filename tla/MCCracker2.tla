------------------------------ MODULE MCCracker2 ------------------------------
(* An instance of Cracker2 for TLC.                                        *)
EXTENDS Cracker2

\* A space that three workers share unevenly; the secret in its last place, or
\* nowhere.
MCTasks == { [space |-> 2, secret |-> 1], [space |-> 2, secret |-> 2] }

\* The shares of getSubrange tile the search space.
ASSUME \A space \in 1..7 : \A x \in 0..space-1 : \E w \in Searcher :
          x \in StartOf(w, space) .. StartOf(w, space) + CountOf(w, space) - 1
=============================================================================
