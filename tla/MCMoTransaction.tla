-------------------------- MODULE MCMoTransaction --------------------------
(***************************************************************************)
(* Two transactions on a managed object and its child.                     *)
(***************************************************************************)
EXTENDS MoTransaction, TLC

CONSTANTS t1, t2, Top, Child

MCParent == (Top :> Root) @@ (Child :> Top)

TxSymmetry == Permutations(Tx)
=============================================================================
