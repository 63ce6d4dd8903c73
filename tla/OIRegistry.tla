----------------------------- MODULE OIRegistry -----------------------------
(***************************************************************************)
(* The registration of object implementers (OIproxy/                       *)
(* OamSARegisterObjectImplementer.cc, OamSARegisterObjectUtils.cc).        *)
(*                                                                         *)
(* A COM component registers for a class or for one object.  COM SA then   *)
(* makes itself the implementer in IMM and, as a struct attribute is an    *)
(* IMM object of a class of its own, an applier of the classes of all      *)
(* struct attributes.  A struct class is shared by every registration      *)
(* that has an attribute of it: the registry counts the paths, and the     *)
(* applier is set for the first and released with the last.                *)
(*                                                                         *)
(* A call is several calls of IMM, between which the dispatch thread looks *)
(* into the registry.  One call is under way at a time.  A call that is    *)
(* refused before it changes anything is not a step.                       *)
(***************************************************************************)
EXTENDS Naturals, FiniteSets

CONSTANTS
    Regs,        \* what can be registered: classes and single objects
    ClassOf,     \* [Regs -> Regs], a class is its own
    CtClasses,   \* IMM classes of struct attributes
    Struct,      \* [Regs -> SUBSET CtClasses]
    Components,  \* the COM components
    None,        \* no component
    MaxCalls     \* bound: calls of the interface

Classes == {r \in Regs : ClassOf[r] = r}

ASSUME RegistryAssumption ==
    /\ ClassOf \in [Regs -> Regs]
    /\ \A r \in Regs : ClassOf[r] \in Classes
    /\ Struct \in [Regs -> SUBSET CtClasses]
    /\ None \notin Components
    /\ MaxCalls \in Nat

VARIABLES
    registered,  \* registeredClass and registeredDN: the component of each
    ctOwner,     \* registeredComplexTypeClass: the component of each path
    implemented, \* IMM: what COM SA is the implementer of
    applier,     \* IMM: the struct classes it is an applier of
    registrar,   \* the call under way
    calls,       \* calls so far
    immFaults    \* history: "release", IMM refused to release an
                 \* implementer; "handle", the handles were replaced;
                 \* "search", IMM did not tell the objects of a class

registryVars == <<registered, ctOwner, implemented, applier, registrar,
                  calls, immFaults>>

Idle == [pc |-> "idle", r |-> None, component |-> None, todo |-> {}]

RegistryTypeOK ==
    /\ registered \in [Regs -> Components \cup {None}]
    /\ ctOwner \in [Regs \X CtClasses -> Components \cup {None}]
    /\ implemented \subseteq Regs /\ applier \subseteq CtClasses
    /\ registrar \in {Idle} \cup
          [pc : {"attributes", "release", "unattributes"}, r : Regs,
           component : Components, todo : SUBSET CtClasses]
    /\ calls \in 0 .. MaxCalls
    /\ immFaults \subseteq {"release", "handle", "search"}

RegistryInit ==
    /\ registered = [r \in Regs |-> None]
    /\ ctOwner = [path \in Regs \X CtClasses |-> None]
    /\ implemented = {} /\ applier = {}
    /\ registrar = Idle /\ calls = 0 /\ immFaults = {}

-----------------------------------------------------------------------------
existRegisteredCTClassAttr(r, ct) == ctOwner[<<r, ct>>] # None
existRegisteredCTClass(ct) == \E r \in Regs : existRegisteredCTClassAttr(r, ct)

\* Only the registration of a class asks for objects of it that are
\* registered by themselves, not the other way round.  An error of that
\* search is ignored, and then there seem to be none.
exclusion(r) ==
    r \in Classes => \A o \in Regs : ClassOf[o] = r => registered[o] = None

\* registerClass_2, registerDn_2 up to the struct attributes.
register(r, component) ==
    /\ registrar = Idle /\ calls < MaxCalls
    /\ registered[r] = None
    /\ immFaults' = IF exclusion(r) THEN immFaults ELSE immFaults \cup {"search"}
    /\ implemented' = implemented \cup {r}
    /\ registrar' = [pc |-> "attributes", r |-> r, component |-> component,
                     todo |-> Struct[r]]
    /\ calls' = calls + 1
    /\ UNCHANGED <<registered, ctOwner, applier>>

\* registerComplexTypeAttrClasses: the applier is set for a struct class that
\* has no path yet; any failure ends the loop.
addNewRegisteredCTClass(ct) ==
    /\ ctOwner' = [ctOwner EXCEPT ![<<registrar.r, ct>>] = registrar.component]
    /\ registrar' = [registrar EXCEPT !.todo = @ \ {ct}]

registerComplexTypeAttrClass(ct) ==
    /\ registrar.pc = "attributes" /\ ct \in registrar.todo
    /\ \/ /\ existRegisteredCTClass(ct)
          /\ IF existRegisteredCTClassAttr(registrar.r, ct)
             THEN registrar' = [registrar EXCEPT !.pc = "release"]
                  /\ UNCHANGED ctOwner
             ELSE addNewRegisteredCTClass(ct)
          /\ UNCHANGED applier
       \/ /\ ~existRegisteredCTClass(ct)
          /\ addNewRegisteredCTClass(ct)
          /\ applier' = applier \cup {ct}
       \/ /\ ~existRegisteredCTClass(ct)
          /\ registrar' = [registrar EXCEPT !.pc = "release"]
          /\ UNCHANGED <<ctOwner, applier>>
    /\ UNCHANGED <<registered, implemented, calls, immFaults>>

\* addNewRegisteredClass, addNewRegisteredDN
registerEnds ==
    /\ registrar.pc = "attributes" /\ registrar.todo = {}
    /\ registered' = [registered EXCEPT ![registrar.r] = registrar.component]
    /\ registrar' = Idle
    /\ UNCHANGED <<ctOwner, implemented, applier, calls, immFaults>>

\* The way back: the implementer is released, a failure is only logged, and
\* the paths of all struct attributes are removed.
registerFails ==
    /\ registrar.pc = "release"
    /\ registrar' = [registrar EXCEPT !.pc = "unattributes",
                                      !.todo = Struct[registrar.r]]
    /\ \/ implemented' = implemented \ {registrar.r} /\ UNCHANGED immFaults
       \/ /\ registrar.r \in implemented
          /\ immFaults' = immFaults \cup {"release"} /\ UNCHANGED implemented
    /\ UNCHANGED <<registered, ctOwner, applier, calls>>

\* unregisterClass_2, unregisterDn_2: only the component that registered, and
\* only when IMM releases the implementer.  For an object, IMM may also say
\* that there is none.
mayUnregister(r, component) ==
    /\ registered[r] = component
    /\ r \in implemented \/ r \notin Classes

unregister(r, component) ==
    /\ registrar = Idle /\ calls < MaxCalls
    /\ mayUnregister(r, component)
    /\ implemented' = implemented \ {r}
    /\ registered' = [registered EXCEPT ![r] = None]
    /\ registrar' = [pc |-> "unattributes", r |-> r, component |-> component,
                     todo |-> Struct[r]]
    /\ calls' = calls + 1
    /\ UNCHANGED <<ctOwner, applier, immFaults>>

\* unregisterComplexTypeAttrClasses: the applier is released when the last
\* path of the struct class is gone.
\* Mutant: the path that is being taken out counts.
countsOwnPath(ct) == ~existRegisteredCTClass(ct)
lastPathGone(ct) ==
    \A r \in Regs : r # registrar.r => ~existRegisteredCTClassAttr(r, ct)

unregisterComplexTypeAttrClass(ct) ==
    /\ registrar.pc = "unattributes" /\ ct \in registrar.todo
    /\ ctOwner' = [ctOwner EXCEPT ![<<registrar.r, ct>>] = None]
    /\ registrar' = [registrar EXCEPT !.todo = @ \ {ct}]
    /\ \/ /\ applier' = IF lastPathGone(ct) THEN applier \ {ct} ELSE applier
          /\ UNCHANGED immFaults
       \/ /\ lastPathGone(ct) /\ ct \in applier
          /\ immFaults' = immFaults \cup {"release"}
          /\ UNCHANGED applier
    /\ UNCHANGED <<registered, implemented, calls>>

unregisterEnds ==
    /\ registrar.pc = "unattributes" /\ registrar.todo = {}
    /\ registrar' = Idle
    /\ UNCHANGED <<registered, ctOwner, implemented, applier, calls, immFaults>>

\* ObjImp_finalize_imm and ObjImp_init_imm after a BAD_HANDLE: the new
\* handles implement nothing, the registry is not consulted.
reinitializeHandles ==
    /\ "handle" \notin immFaults
    /\ implemented' = {} /\ applier' = {}
    /\ immFaults' = immFaults \cup {"handle"}
    /\ UNCHANGED <<registered, ctOwner, registrar, calls>>

RegistrarNext ==
    \/ \E r \in Regs, component \in Components :
          register(r, component) \/ unregister(r, component)
    \/ \E ct \in CtClasses : \/ registerComplexTypeAttrClass(ct)
                             \/ unregisterComplexTypeAttrClass(ct)
    \/ registerEnds \/ registerFails \/ unregisterEnds

RegistrySpec == RegistryInit /\ [][RegistrarNext \/ reinitializeHandles]_registryVars

-----------------------------------------------------------------------------
(***************************************************************************)
(* Between calls, what a component has registered is what IMM calls COM SA *)
(* for: the implementers and appliers in IMM are those of the registry,    *)
(* and every registration has the paths of all its struct attributes, for  *)
(* its own component.  So a failed registration leaves nothing behind, and *)
(* neither it nor an unregistration takes a struct class away from another *)
(* registration, even when a class and its objects are registered beside   *)
(* each other.  Excepted are a release that IMM refused and the            *)
(* replacement of the handles, after which nothing is set again.           *)
(***************************************************************************)
ImplementersMatch ==
    registrar = Idle /\ immFaults \subseteq {"search"} =>
        /\ implemented = {r \in Regs : registered[r] # None}
        /\ applier = {ct \in CtClasses : existRegisteredCTClass(ct)}
        /\ \A r \in Regs, ct \in CtClasses :
              ctOwner[<<r, ct>>] = IF ct \in Struct[r] THEN registered[r]
                                                       ELSE None
=============================================================================
