----------------------------- MODULE MCSasWait -----------------------------
(***************************************************************************)
(* An instance of SasWait for TLC: all sources in one interrupt group, so  *)
(* that one interrupt may find several of them.                            *)
(***************************************************************************)
EXTENDS SasWait

OneGroup == [m \in Mbx |-> "g0"]

=============================================================================
