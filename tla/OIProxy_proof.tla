--------------------------- MODULE OIProxy_proof ---------------------------
(***************************************************************************)
(* Proofs about the object implementer proxy, for all classes, objects,    *)
(* struct attributes and components, and any number of calls.              *)
(***************************************************************************)
EXTENDS OIProxy, TLAPS

(***************************************************************************)
(* The inductive invariant behind ImplementersMatch.  While a call is      *)
(* under way the registry and IMM differ by what the call has done so far: *)
(* its registration is in IMM from the first step to the release, and its  *)
(* paths are those of the attributes it has handled, on the way in, or has *)
(* not yet handled, on the way out.                                        *)
(***************************************************************************)
Busy(r) == registrar.pc # "idle" /\ r = registrar.r

CallOK ==
    registrar.pc # "idle" =>
        /\ registered[registrar.r] = None
        /\ registrar.todo \subseteq Struct[registrar.r]

PathOK(r, ct) ==
    /\ ~Busy(r) => ctOwner[<<r, ct>>] =
                      IF ct \in Struct[r] THEN registered[r] ELSE None
    /\ Busy(r) /\ registrar.pc = "attributes" =>
          ctOwner[<<r, ct>>] = IF ct \in Struct[r] \ registrar.todo
                               THEN registrar.component ELSE None
    /\ Busy(r) /\ registrar.pc = "release" /\ ct \notin Struct[r] =>
          ctOwner[<<r, ct>>] = None
    /\ Busy(r) /\ registrar.pc = "unattributes" /\ ct \notin registrar.todo =>
          ctOwner[<<r, ct>>] = None

PathsOK == \A r \in Regs, ct \in CtClasses : PathOK(r, ct)

InImm(r) == Busy(r) /\ registrar.pc \in {"attributes", "release"}

ImplementedOK ==
    immFaults \subseteq {"search"} =>
        \A r \in Regs : r \in implemented <=> registered[r] # None \/ InImm(r)

ApplierOK ==
    immFaults \subseteq {"search"} =>
        \A ct \in CtClasses : ct \in applier <=> existRegisteredCTClass(ct)

RegistryInv ==
    RegistryTypeOK /\ CallOK /\ PathsOK /\ ImplementedOK /\ ApplierOK

RegistryNext == RegistrarNext \/ reinitializeHandles

-----------------------------------------------------------------------------
\* Between calls the invariant is what ImplementersMatch says.
LEMMA InvImpliesMatch == RegistryInv => ImplementersMatch
<1> SUFFICES ASSUME RegistryInv, registrar = Idle, immFaults \subseteq {"search"}
             PROVE  /\ implemented = {r \in Regs : registered[r] # None}
                    /\ applier = {ct \in CtClasses : existRegisteredCTClass(ct)}
                    /\ \A r \in Regs, ct \in CtClasses :
                          ctOwner[<<r, ct>>] = IF ct \in Struct[r]
                                               THEN registered[r] ELSE None
  BY DEF ImplementersMatch
<1>1. registrar.pc = "idle"
  BY DEF Idle
<1>2. implemented = {r \in Regs : registered[r] # None}
  BY <1>1 DEF RegistryInv, RegistryTypeOK, ImplementedOK, InImm, Busy
<1>3. applier = {ct \in CtClasses : existRegisteredCTClass(ct)}
  BY DEF RegistryInv, RegistryTypeOK, ApplierOK
<1>4. \A r \in Regs, ct \in CtClasses :
         ctOwner[<<r, ct>>] = IF ct \in Struct[r] THEN registered[r] ELSE None
  BY <1>1 DEF RegistryInv, PathsOK, PathOK, Busy
<1> QED
  BY <1>2, <1>3, <1>4

\* The empty registry satisfies it.
LEMMA RegistryInitInv == RegistryInit => RegistryInv
<1> SUFFICES ASSUME RegistryInit PROVE RegistryInv
  OBVIOUS
<1> USE RegistryAssumption DEF RegistryInit
<1>1. registrar.pc = "idle"
  BY DEF Idle
<1>2. RegistryTypeOK
  BY DEF RegistryTypeOK
<1>3. CallOK /\ PathsOK
  BY <1>1 DEF CallOK, PathsOK, PathOK, Busy
<1>4. ImplementedOK /\ ApplierOK
  BY <1>1 DEF ImplementedOK, ApplierOK, InImm, Busy, existRegisteredCTClass,
              existRegisteredCTClassAttr
<1> QED
  BY <1>2, <1>3, <1>4 DEF RegistryInv

-----------------------------------------------------------------------------
(***************************************************************************)
(* One lemma per action of the registrar.                                  *)
(***************************************************************************)
\* A call under way is a record of its kind.
LEMMA CallUnderWay ==
    ASSUME RegistryTypeOK, registrar.pc # "idle"
    PROVE  /\ registrar \in [pc : {"attributes", "release", "unattributes"},
                             r : Regs, component : Components,
                             todo : SUBSET CtClasses]
           /\ registrar # Idle
  BY DEF RegistryTypeOK, Idle

\* register keeps the invariant.
LEMMA RegisterInv ==
    ASSUME RegistryInv, NEW r \in Regs, NEW component \in Components,
           register(r, component)
    PROVE  RegistryInv'
<1> USE RegistryAssumption DEF register
<1>1. registrar.pc = "idle"
  BY DEF Idle
<1>2. registrar' = [pc |-> "attributes", r |-> r, component |-> component,
                    todo |-> Struct[r]]
  OBVIOUS
<1>3. RegistryTypeOK'
  <2>1. registrar' \in [pc : {"attributes", "release", "unattributes"},
                        r : Regs, component : Components,
                        todo : SUBSET CtClasses]
    BY <1>2
  <2>2. calls' \in 0 .. MaxCalls
    BY DEF RegistryInv, RegistryTypeOK
  <2> QED
    BY <2>1, <2>2 DEF RegistryInv, RegistryTypeOK
<1>4. CallOK'
  BY <1>2 DEF CallOK
<1>5. PathsOK'
  <2> SUFFICES ASSUME NEW q \in Regs, NEW ct \in CtClasses PROVE PathOK(q, ct)'
    BY DEF PathsOK
  <2>1. ctOwner[<<q, ct>>] = IF ct \in Struct[q] THEN registered[q] ELSE None
    BY <1>1 DEF RegistryInv, PathsOK, PathOK, Busy
  <2> QED
    BY <1>2, <2>1 DEF PathOK, Busy
<1>6. ImplementedOK'
  BY <1>1, <1>2 DEF RegistryInv, RegistryTypeOK, ImplementedOK, InImm, Busy
<1>7. ApplierOK'
  BY DEF RegistryInv, ApplierOK, existRegisteredCTClass,
         existRegisteredCTClassAttr
<1> QED
  BY <1>3, <1>4, <1>5, <1>6, <1>7 DEF RegistryInv

\* unregister keeps the invariant.
LEMMA UnregisterInv ==
    ASSUME RegistryInv, NEW r \in Regs, NEW component \in Components,
           unregister(r, component)
    PROVE  RegistryInv'
<1> USE RegistryAssumption DEF unregister, mayUnregister
<1>1. registrar.pc = "idle"
  BY DEF Idle
<1>2. registrar' = [pc |-> "unattributes", r |-> r, component |-> component,
                    todo |-> Struct[r]]
  OBVIOUS
<1>3. RegistryTypeOK'
  <2>1. registrar' \in [pc : {"attributes", "release", "unattributes"},
                        r : Regs, component : Components,
                        todo : SUBSET CtClasses]
    BY <1>2
  <2>2. calls' \in 0 .. MaxCalls
    BY DEF RegistryInv, RegistryTypeOK
  <2> QED
    BY <2>1, <2>2 DEF RegistryInv, RegistryTypeOK
<1>4. CallOK'
  BY <1>2 DEF CallOK, RegistryInv, RegistryTypeOK
<1>5. PathsOK'
  <2> SUFFICES ASSUME NEW q \in Regs, NEW ct \in CtClasses PROVE PathOK(q, ct)'
    BY DEF PathsOK
  <2>1. ctOwner[<<q, ct>>] = IF ct \in Struct[q] THEN registered[q] ELSE None
    BY <1>1 DEF RegistryInv, PathsOK, PathOK, Busy
  <2> QED
    BY <1>2, <2>1 DEF PathOK, Busy, RegistryInv, RegistryTypeOK
<1>6. ImplementedOK'
  BY <1>1, <1>2 DEF RegistryInv, RegistryTypeOK, ImplementedOK, InImm, Busy
<1>7. ApplierOK'
  BY DEF RegistryInv, ApplierOK, existRegisteredCTClass,
         existRegisteredCTClassAttr
<1> QED
  BY <1>3, <1>4, <1>5, <1>6, <1>7 DEF RegistryInv

\* A struct attribute that is still to be registered has no path, so the
\* check for one that exists never ends a registration.
LEMMA NoPathYet ==
    ASSUME RegistryInv, registrar.pc = "attributes",
           NEW ct \in CtClasses, ct \in registrar.todo
    PROVE  ~existRegisteredCTClassAttr(registrar.r, ct)
  BY CallUnderWay DEF RegistryInv, PathsOK, PathOK, Busy,
                      existRegisteredCTClassAttr

\* A path is added: registerComplexTypeAttrClass keeps the invariant.
LEMMA RegisterAttrInv ==
    ASSUME RegistryInv, NEW ct \in CtClasses, registerComplexTypeAttrClass(ct)
    PROVE  RegistryInv'
<1> USE RegistryAssumption DEF registerComplexTypeAttrClass
<1> DEFINE me == registrar.r
<1>1. /\ registrar \in [pc : {"attributes", "release", "unattributes"}, r : Regs,
                        component : Components, todo : SUBSET CtClasses]
      /\ RegistryTypeOK
  BY CallUnderWay DEF RegistryInv
<1>2. ~existRegisteredCTClassAttr(me, ct)
  BY NoPathYet
<1>3. CASE registrar' = [registrar EXCEPT !.pc = "release"]
           /\ UNCHANGED <<ctOwner, applier>>
  <2>1. RegistryTypeOK'
    BY <1>1, <1>3 DEF RegistryTypeOK
  <2>2. CallOK'
    BY <1>1, <1>3 DEF RegistryInv, CallOK
  <2>3. PathsOK'
    <3> SUFFICES ASSUME NEW q \in Regs, NEW a \in CtClasses PROVE PathOK(q, a)'
      BY DEF PathsOK
    <3>1. PathOK(q, a)
      BY DEF RegistryInv, PathsOK
    <3> QED
      BY <1>1, <1>3, <3>1 DEF PathOK, Busy
  <2>4. ImplementedOK'
    BY <1>1, <1>3 DEF RegistryInv, ImplementedOK, InImm, Busy
  <2>5. ApplierOK'
    BY <1>3 DEF RegistryInv, ApplierOK, existRegisteredCTClass,
                existRegisteredCTClassAttr
  <2> QED
    BY <2>1, <2>2, <2>3, <2>4, <2>5 DEF RegistryInv
<1>4. CASE /\ addNewRegisteredCTClass(ct)
           /\ applier' \in {applier, applier \cup {ct}}
           /\ immFaults \subseteq {"search"} => applier' = applier \cup {ct}
  <2>0. /\ ctOwner' = [ctOwner EXCEPT ![<<me, ct>>] = registrar.component]
        /\ registrar' = [registrar EXCEPT !.todo = @ \ {ct}]
    BY <1>4 DEF addNewRegisteredCTClass
  <2>1. RegistryTypeOK'
    <3>1. registrar' \in [pc : {"attributes", "release", "unattributes"}, r : Regs,
                          component : Components, todo : SUBSET CtClasses]
      BY <1>1, <2>0
    <3>2. ctOwner' \in [Regs \X CtClasses -> Components \cup {None}]
      BY <1>1, <2>0 DEF RegistryTypeOK
    <3> QED
      BY <1>1, <1>4, <3>1, <3>2 DEF RegistryTypeOK
  <2>2. CallOK'
    BY <1>1, <2>0 DEF RegistryInv, CallOK
  <2>7. \A q \in Regs, a \in CtClasses :
           ctOwner'[<<q, a>>] = IF q = me /\ a = ct THEN registrar.component
                                ELSE ctOwner[<<q, a>>]
    BY <1>1, <2>0 DEF RegistryTypeOK
  <2>3. PathsOK'
    <3> SUFFICES ASSUME NEW q \in Regs, NEW a \in CtClasses PROVE PathOK(q, a)'
      BY DEF PathsOK
    <3>1. PathOK(q, a)
      BY DEF RegistryInv, PathsOK
    <3>2. registrar.todo \subseteq Struct[me]
      BY DEF RegistryInv, CallOK
    <3> QED
      BY <1>1, <2>0, <2>7, <3>1, <3>2 DEF PathOK, Busy
  <2>4. ImplementedOK'
    BY <1>1, <2>0 DEF RegistryInv, ImplementedOK, InImm, Busy
  <2>5. ApplierOK'
    <3> SUFFICES ASSUME immFaults' \subseteq {"search"}, NEW a \in CtClasses
                 PROVE  a \in applier' <=> existRegisteredCTClass(a)'
      BY DEF ApplierOK
    <3>1. a \in applier <=> \E q \in Regs : ctOwner[<<q, a>>] # None
      BY DEF RegistryInv, ApplierOK, existRegisteredCTClass,
             existRegisteredCTClassAttr
    <3>2. ctOwner'[<<me, ct>>] # None
      BY <1>1, <2>7
    <3>3. a # ct => \A q \in Regs : ctOwner'[<<q, a>>] = ctOwner[<<q, a>>]
      BY <2>7
    <3> QED
      BY <1>1, <1>4, <3>1, <3>2, <3>3 DEF existRegisteredCTClass,
                                        existRegisteredCTClassAttr
  <2> QED
    BY <2>1, <2>2, <2>3, <2>4, <2>5 DEF RegistryInv
<1>5. existRegisteredCTClass(ct) /\ immFaults \subseteq {"search"} => ct \in applier
  BY DEF RegistryInv, ApplierOK
<1> QED
  BY <1>2, <1>3, <1>4, <1>5 DEF addNewRegisteredCTClass

\* registerEnds keeps the invariant.
LEMMA RegisterEndsInv ==
    ASSUME RegistryInv, registerEnds
    PROVE  RegistryInv'
<1> USE RegistryAssumption DEF registerEnds
<1> DEFINE me == registrar.r
<1>1. /\ registrar \in [pc : {"attributes", "release", "unattributes"}, r : Regs,
                        component : Components, todo : SUBSET CtClasses]
      /\ RegistryTypeOK
  BY CallUnderWay DEF RegistryInv
<1>2. registrar'.pc = "idle"
  BY DEF Idle
<1>3. \A q \in Regs : registered'[q] = IF q = me THEN registrar.component
                                       ELSE registered[q]
  BY <1>1 DEF RegistryTypeOK
<1>4. RegistryTypeOK'
  BY <1>1 DEF RegistryTypeOK
<1>5. CallOK'
  BY <1>2 DEF CallOK
<1>6. PathsOK'
  <2> SUFFICES ASSUME NEW q \in Regs, NEW a \in CtClasses PROVE PathOK(q, a)'
    BY DEF PathsOK
  <2>1. PathOK(q, a)
    BY DEF RegistryInv, PathsOK
  <2> QED
    BY <1>1, <1>2, <1>3, <2>1 DEF PathOK, Busy
<1>7. ImplementedOK'
  BY <1>1, <1>2, <1>3 DEF RegistryInv, ImplementedOK, InImm, Busy
<1>8. ApplierOK'
  BY DEF RegistryInv, ApplierOK, existRegisteredCTClass,
         existRegisteredCTClassAttr
<1> QED
  BY <1>4, <1>5, <1>6, <1>7, <1>8 DEF RegistryInv

\* registerFails keeps the invariant.
LEMMA RegisterFailsInv ==
    ASSUME RegistryInv, registerFails
    PROVE  RegistryInv'
<1> USE RegistryAssumption DEF registerFails
<1> DEFINE me == registrar.r
<1>1. /\ registrar \in [pc : {"attributes", "release", "unattributes"}, r : Regs,
                        component : Components, todo : SUBSET CtClasses]
      /\ RegistryTypeOK
  BY CallUnderWay DEF RegistryInv
<1>2. /\ registrar' \in [pc : {"attributes", "release", "unattributes"}, r : Regs,
                         component : Components, todo : SUBSET CtClasses]
      /\ registrar'.pc = "unattributes" /\ registrar'.r = me
      /\ registrar'.todo = Struct[me]
  BY <1>1
<1>3. RegistryTypeOK'
  BY <1>1, <1>2 DEF RegistryTypeOK
<1>4. CallOK'
  BY <1>2 DEF RegistryInv, CallOK
<1>5. PathsOK'
  <2> SUFFICES ASSUME NEW q \in Regs, NEW a \in CtClasses PROVE PathOK(q, a)'
    BY DEF PathsOK
  <2>1. PathOK(q, a)
    BY DEF RegistryInv, PathsOK
  <2> QED
    BY <1>2, <2>1 DEF PathOK, Busy
<1>6. ImplementedOK'
  BY <1>1, <1>2 DEF RegistryInv, CallOK, ImplementedOK, InImm, Busy
<1>7. ApplierOK'
  BY DEF RegistryInv, ApplierOK, existRegisteredCTClass,
         existRegisteredCTClassAttr
<1> QED
  BY <1>3, <1>4, <1>5, <1>6, <1>7 DEF RegistryInv

\* A path is removed: unregisterComplexTypeAttrClass keeps the invariant.
LEMMA UnregisterAttrInv ==
    ASSUME RegistryInv, NEW ct \in CtClasses, unregisterComplexTypeAttrClass(ct)
    PROVE  RegistryInv'
<1> USE RegistryAssumption DEF unregisterComplexTypeAttrClass
<1> DEFINE me == registrar.r
<1>1. /\ registrar \in [pc : {"attributes", "release", "unattributes"}, r : Regs,
                        component : Components, todo : SUBSET CtClasses]
      /\ RegistryTypeOK
  BY CallUnderWay DEF RegistryInv
<1>2. /\ registrar' \in [pc : {"attributes", "release", "unattributes"}, r : Regs,
                         component : Components, todo : SUBSET CtClasses]
      /\ registrar'.pc = "unattributes" /\ registrar'.r = me
      /\ registrar'.todo = registrar.todo \ {ct}
  BY <1>1
<1>3. \A q \in Regs, a \in CtClasses :
         ctOwner'[<<q, a>>] = IF q = me /\ a = ct THEN None
                              ELSE ctOwner[<<q, a>>]
  BY <1>1 DEF RegistryTypeOK
<1>4. RegistryTypeOK'
  <2>1. ctOwner' \in [Regs \X CtClasses -> Components \cup {None}]
    BY <1>1 DEF RegistryTypeOK
  <2> QED
    BY <1>1, <1>2, <2>1 DEF RegistryTypeOK
<1>5. CallOK'
  BY <1>2 DEF RegistryInv, CallOK
<1>6. PathsOK'
  <2> SUFFICES ASSUME NEW q \in Regs, NEW a \in CtClasses PROVE PathOK(q, a)'
    BY DEF PathsOK
  <2>1. PathOK(q, a)
    BY DEF RegistryInv, PathsOK
  <2> QED
    BY <1>2, <1>3, <2>1 DEF PathOK, Busy
<1>7. ImplementedOK'
  BY <1>1, <1>2 DEF RegistryInv, ImplementedOK, InImm, Busy
<1>8. ApplierOK'
  <2> SUFFICES ASSUME immFaults' \subseteq {"search"}, NEW a \in CtClasses
               PROVE  a \in applier' <=> existRegisteredCTClass(a)'
    BY DEF ApplierOK
  <2>1. a \in applier <=> \E q \in Regs : ctOwner[<<q, a>>] # None
    BY DEF RegistryInv, ApplierOK, existRegisteredCTClass,
           existRegisteredCTClassAttr
  <2>2. applier' = IF lastPathGone(ct) THEN applier \ {ct} ELSE applier
    OBVIOUS
  <2>3. lastPathGone(ct) <=> \A q \in Regs : ctOwner'[<<q, ct>>] = None
    BY <1>1, <1>3 DEF lastPathGone, existRegisteredCTClassAttr
  <2>4. a # ct => \A q \in Regs : ctOwner'[<<q, a>>] = ctOwner[<<q, a>>]
    BY <1>3
  <2>5. ~lastPathGone(ct) => \E q \in Regs : ctOwner[<<q, ct>>] # None
    BY DEF lastPathGone, existRegisteredCTClassAttr
  <2> QED
    BY <2>1, <2>2, <2>3, <2>4, <2>5 DEF existRegisteredCTClass,
                                      existRegisteredCTClassAttr
<1> QED
  BY <1>4, <1>5, <1>6, <1>7, <1>8 DEF RegistryInv

\* unregisterEnds keeps the invariant.
LEMMA UnregisterEndsInv ==
    ASSUME RegistryInv, unregisterEnds
    PROVE  RegistryInv'
<1> USE DEF unregisterEnds
<1>1. /\ registrar \in [pc : {"attributes", "release", "unattributes"}, r : Regs,
                        component : Components, todo : SUBSET CtClasses]
      /\ RegistryTypeOK
  BY CallUnderWay DEF RegistryInv
<1>2. registrar'.pc = "idle"
  BY DEF Idle
<1>3. RegistryTypeOK' /\ CallOK'
  BY <1>1, <1>2 DEF RegistryTypeOK, CallOK
<1>4. PathsOK'
  <2> SUFFICES ASSUME NEW q \in Regs, NEW a \in CtClasses PROVE PathOK(q, a)'
    BY DEF PathsOK
  <2>1. PathOK(q, a)
    BY DEF RegistryInv, PathsOK
  <2> QED
    BY <1>2, <2>1 DEF PathOK, Busy, RegistryInv, CallOK
<1>5. ImplementedOK'
  BY <1>2 DEF RegistryInv, ImplementedOK, InImm, Busy
<1>6. ApplierOK'
  BY DEF RegistryInv, ApplierOK, existRegisteredCTClass,
         existRegisteredCTClassAttr
<1> QED
  BY <1>3, <1>4, <1>5, <1>6 DEF RegistryInv

\* The replacement of the handles keeps the invariant: it is a fault.
LEMMA ReinitializeInv ==
    ASSUME RegistryInv, reinitializeHandles
    PROVE  RegistryInv'
<1> USE DEF reinitializeHandles
<1>1. RegistryTypeOK' /\ CallOK'
  BY DEF RegistryInv, RegistryTypeOK, CallOK
<1>2. PathsOK'
  BY DEF RegistryInv, PathsOK, PathOK, Busy
<1>3. ImplementedOK' /\ ApplierOK'
  BY DEF ImplementedOK, ApplierOK
<1> QED
  BY <1>1, <1>2, <1>3 DEF RegistryInv

-----------------------------------------------------------------------------
\* Every step of the registry keeps the invariant.
LEMMA RegistryStep == RegistryInv /\ [RegistryNext]_registryVars => RegistryInv'
<1> SUFFICES ASSUME RegistryInv, [RegistryNext]_registryVars PROVE RegistryInv'
  OBVIOUS
<1>1. ASSUME NEW r \in Regs, NEW component \in Components,
             register(r, component) \/ unregister(r, component)
      PROVE  RegistryInv'
  BY <1>1, RegisterInv, UnregisterInv
<1>2. ASSUME NEW ct \in CtClasses, \/ registerComplexTypeAttrClass(ct)
                                   \/ unregisterComplexTypeAttrClass(ct)
      PROVE  RegistryInv'
  BY <1>2, RegisterAttrInv, UnregisterAttrInv
<1>3. CASE registerEnds \/ registerFails \/ unregisterEnds
  BY <1>3, RegisterEndsInv, RegisterFailsInv, UnregisterEndsInv
<1>4. CASE reinitializeHandles
  BY <1>4, ReinitializeInv
<1>5. CASE UNCHANGED registryVars
  BY <1>5 DEF registryVars, RegistryInv, RegistryTypeOK, CallOK, PathsOK,
              PathOK, Busy, ImplementedOK, InImm, ApplierOK,
              existRegisteredCTClass, existRegisteredCTClassAttr
<1> QED
  BY <1>1, <1>2, <1>3, <1>4, <1>5 DEF RegistryNext, RegistrarNext

(***************************************************************************)
(* The registry by itself: whatever components register and unregister,    *)
(* and however IMM answers, between calls the implementers and appliers in *)
(* IMM are those of the registry.                                          *)
(***************************************************************************)
THEOREM RegistryMatches == RegistrySpec => []ImplementersMatch
<1>1. RegistryInit => RegistryInv
  BY RegistryInitInv
<1>2. RegistryInv /\ [RegistrarNext \/ reinitializeHandles]_registryVars
        => RegistryInv'
  BY RegistryStep DEF RegistryNext
<1>3. RegistryInv => ImplementersMatch
  BY InvImpliesMatch
<1> QED
  BY <1>1, <1>2, <1>3, PTL DEF RegistrySpec

(***************************************************************************)
(* The proxy implements the registry: the dispatch thread only reads it,   *)
(* and a bad handle only replaces the handles.                             *)
(***************************************************************************)
THEOREM ProxyImplementsRegistry == Spec => RegistrySpec
<1>1. Init => RegistryInit
  BY DEF Init
<1>2. [Next]_vars => [RegistrarNext \/ reinitializeHandles]_registryVars
  <2> SUFFICES ASSUME [Next]_vars
               PROVE  [RegistrarNext \/ reinitializeHandles]_registryVars
    OBVIOUS
  <2>1. CASE Dispatch
    <3>1. ASSUME NEW c, NEW kind, NEW o, NEW path, mainCallback(c, kind, o, path)
          PROVE  UNCHANGED registryVars
      BY <3>1 DEF mainCallback
    <3>2. ASSUME NEW c, NEW o, \/ handleCcbCreateObject(c, o)
                               \/ handleCcbDeleteObject(c, o)
                               \/ handleCcbModification(c, o)
          PROVE  UNCHANGED registryVars
      BY <3>1, <3>2 DEF handleCcbCreateObject, handleCcbDeleteObject,
                        handleCcbModification
    <3>3. ASSUME NEW c, \/ handleCcbCompleted(c) \/ handleCcbApply(c)
                        \/ handleCcbAbort(c) \/ EndUninvolved(c)
          PROVE  UNCHANGED registryVars
      BY <3>3 DEF handleCcbCompleted, handleCcbApply, handleCcbAbort,
                  EndUninvolved
    <3>4. ASSUME NEW c, NEW path, ChangeStruct(c, path)
          PROVE  UNCHANGED registryVars
      BY <3>4 DEF ChangeStruct
    <3>5. CASE handleComplexTypeCcbChange \/ handleComplexTypeCcbEnd
      BY <3>5 DEF handleComplexTypeCcbChange, handleComplexTypeCcbEnd
    <3>6. ASSUME NEW o, handleAdminOperation(o) \/ handleRtAttrUpdate(o)
          PROVE  UNCHANGED registryVars
      BY <3>6 DEF handleAdminOperation, handleRtAttrUpdate
    <3> QED
      BY <2>1, <3>2, <3>3, <3>4, <3>5, <3>6 DEF Dispatch
  <2>2. CASE BadHandle
    BY <2>2 DEF BadHandle
  <2>3. CASE UNCHANGED vars
    BY <2>3 DEF vars
  <2> QED
    BY <2>1, <2>2, <2>3 DEF Next
<1> QED
  BY <1>1, <1>2, PTL DEF Spec, RegistrySpec

(***************************************************************************)
(* The same for the whole proxy, with CCBs, administrative operations and  *)
(* reads under way.                                                        *)
(***************************************************************************)
THEOREM ProxyMatches == Spec => []ImplementersMatch
  BY RegistryMatches, ProxyImplementsRegistry, PTL

\* The invariant of the registry holds in the proxy too.
LEMMA ProxyRegistry == Spec => []RegistryInv
<1>1. RegistryInit => RegistryInv
  BY RegistryInitInv
<1>2. RegistryInv /\ [RegistrarNext \/ reinitializeHandles]_registryVars
        => RegistryInv'
  BY RegistryStep DEF RegistryNext
<1> QED
  BY <1>1, <1>2, ProxyImplementsRegistry, PTL DEF RegistrySpec
=============================================================================
