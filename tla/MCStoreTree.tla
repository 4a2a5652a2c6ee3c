---------------------------- MODULE MCStoreTree ----------------------------
(***************************************************************************)
(* A small tree: three directories one in the other, and a secret in each  *)
(* of the lower two.  An rm -r of the second then has one to fail in below *)
(* and one to clean up above.                                              *)
(***************************************************************************)
EXTENDS StoreTree, TLC

CONSTANTS top, work, mail, inWork, inMail

MCParent == top :> Root @@ work :> top @@ mail :> work @@ inWork :> work @@ inMail :> mail

Symmetry == Permutations(Terminals)

=============================================================================
