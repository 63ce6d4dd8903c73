----------------------------- MODULE MCOIProxy -----------------------------
(***************************************************************************)
(* One class with two objects, which can also be registered by themselves, *)
(* and one struct attribute.                                               *)
(***************************************************************************)
EXTENDS OIProxy, TLC

CONSTANTS moc, obj1, obj2, attr, comp1, comp2

MCRegs == {moc, obj1, obj2}
MCClassOf == [r \in MCRegs |-> moc]
MCCtClasses == {attr}
MCStruct == [r \in MCRegs |-> {attr}]
MCComponents == {comp1, comp2}
Symmetry == Permutations(MCComponents) \cup Permutations({obj1, obj2})
=============================================================================
