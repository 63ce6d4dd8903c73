---------------------------- MODULE MCCmEvents ----------------------------
(***************************************************************************)
(* Two configured objects, one with a struct, and a runtime object with    *)
(* a struct; another object is not notifiable.                             *)
(***************************************************************************)
EXTENDS CmEvents, TLC

CONSTANTS m1, m2, m3, m4, s1, s2

MCOwner == (s1 :> m1) @@ (s2 :> m3)
=============================================================================
