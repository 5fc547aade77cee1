----------------------------- MODULE MCSasSession -----------------------------
(***************************************************************************)
(* SasSession for TLC.  The threads differ in nothing but their names, and *)
(* so do the semaphores; the ids of mailboxes do not, for 0 is one of them.*)
(***************************************************************************)
EXTENDS SasSession

AnyThreadAnySync == Permutations(Threads) \cup Permutations(Syncs)

=============================================================================
