-------------------------------- MODULE MCBdi --------------------------------
(***************************************************************************)
(* Instances of Bdi for TLC.  Pages are interchangeable: the specification *)
(* picks any free page, and no property names one.                         *)
(***************************************************************************)
EXTENDS Bdi

AnyPage == Permutations(Pages)

=============================================================================
