------------------------------- MODULE MCRset -------------------------------
(***************************************************************************)
(* Rset for TLC: the threads are interchangeable.                          *)
(***************************************************************************)
EXTENDS Rset, TLC

AnyThread == Permutations(Threads)

=============================================================================
