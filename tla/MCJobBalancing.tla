--------------------------- MODULE MCJobBalancing ---------------------------
(* A small instance of the load balancer and its workers. *)
EXTENDS JobBalancing

\* A program that forks once.
OneFork == {<< >>}
=============================================================================
