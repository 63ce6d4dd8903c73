--------------------------- MODULE CmEvents_proof ---------------------------
(***************************************************************************)
(* Proofs about the CM events, for all CCBs and objects, any limit of the  *)
(* memory and any number of notifications.                                 *)
(***************************************************************************)
EXTENDS CmEvents, FiniteSetTheorems, TLAPS

(***************************************************************************)
(* The inductive invariant behind DiscardedNotCached.  The list of         *)
(* discarded CCBs is consulted when a notification arrives, and cached     *)
(* under it only later, attribute by attribute: in between, the CCB of the *)
(* notification must not get on the list while something is left to do.    *)
(***************************************************************************)
CurrentOK ==
    /\ current \in Current
    /\ "member" \in current.todo => current.obj \in Structs

StillWanted ==
    current.todo # {} \/ current.send => current.ccb \notin discardedCcbList

CacheInv == CurrentOK /\ StillWanted /\ DiscardedNotCached

-----------------------------------------------------------------------------
\* No notification is under way at the beginning and the end of one.
LEMMA NoNotificationOK ==
    /\ NoNotification \in Current
    /\ NoNotification.todo = {} /\ ~NoNotification.send
  BY DEF NoNotification, Current

\* What is added to the cache for an attribute is an attribute.
LEMMA AttrType ==
    ASSUME CurrentOK, current.pc = "attributes",
           NEW attr \in {"simple", "struct", "member"}, attr \in current.todo
    PROVE  getAttrType(attr) \in Attributes
  BY DEF CurrentOK, getAttrType, Attributes

\* discardAllCcbs puts on the list what it takes out of the cache.
LEMMA DiscardKeepsApart ==
    ASSUME DiscardedNotCached, NEW forgotten, discardAllCcbs(forgotten)
    PROVE  DiscardedNotCached'
<1> PICK C \in SUBSET DOMAIN cacheMap :
       /\ discardedCcbList' = addDiscardedCcb(C) \ forgotten
       /\ cacheMap' = WithoutCcbs(C)
  BY DEF discardAllCcbs
<1>1. DOMAIN cacheMap' = DOMAIN cacheMap \ C
  BY DEF WithoutCcbs, Restrict
<1> QED
  BY <1>1 DEF DiscardedNotCached, addDiscardedCcb

\* A notification arrives.
LEMMA ConvertInv ==
    ASSUME CacheInv, Notify
    PROVE  CacheInv'
<1>1. PICK obj \in Objects, kind \in EventTypes :
        \E ccb \in (IF obj \in Runtime THEN {0} ELSE Ccbs \ ended),
           attrs \in (IF kind = "delete" THEN {{}} ELSE SUBSET AttributesOf(obj)),
           last \in (IF obj \in Runtime THEN {FALSE} ELSE BOOLEAN) :
             convertCMNotificationHeader(
                 [obj |-> obj, kind |-> kind, ccb |-> ccb, attrs |-> attrs,
                  last |-> last])
  BY DEF Notify
<1>2. PICK ccb \in CcbIds, attrs \in SUBSET AttributesOf(obj), last \in BOOLEAN :
        convertCMNotificationHeader(
            [obj |-> obj, kind |-> kind, ccb |-> ccb, attrs |-> attrs,
             last |-> last])
  BY <1>1 DEF CcbIds
<1> DEFINE n == [obj |-> obj, kind |-> kind, ccb |-> ccb, attrs |-> attrs,
                 last |-> last]
<1>3. /\ current' = [pc |-> "attributes", obj |-> n.obj, kind |-> n.kind,
                     ccb |-> ccbIdRead(n), last |-> ccbLastRead(n),
                     todo |-> IF isDiscardedCcb(ccbIdRead(n)) THEN {} ELSE n.attrs,
                     added |-> {}, send |-> sendsetDnInCmCache(n)]
      /\ UNCHANGED cacheVars
  BY <1>2 DEF convertCMNotificationHeader
<1>4. /\ ccbIdRead(n) \in CcbIds
      /\ ccbLastRead(n) \in BOOLEAN
      /\ sendsetDnInCmCache(n) \in BOOLEAN
  BY DEF ccbIdRead, CcbIds, ccbLastRead, sendsetDnInCmCache
<1>5. /\ AttributesOf(obj) \subseteq {"simple", "struct", "member"}
      /\ "member" \in AttributesOf(obj) => obj \in Structs
  BY DEF AttributesOf
<1>6. CurrentOK'
  BY <1>3, <1>4, <1>5 DEF CurrentOK, Current
<1>7. StillWanted'
  BY <1>3 DEF StillWanted, sendsetDnInCmCache, isDiscardedCcb, cacheVars
<1>8. DiscardedNotCached'
  BY <1>3 DEF CacheInv, DiscardedNotCached, cacheVars
<1> QED
  BY <1>6, <1>7, <1>8 DEF CacheInv

\* An attribute is put into the cache.
LEMMA AddAttrInv ==
    ASSUME CacheInv, NEW attr \in {"simple", "struct", "member"}, addAttr(attr)
    PROVE  CacheInv'
<1> USE DEF CacheInv
<1>0. /\ current \in Current /\ current.pc = "attributes"
      /\ attr \in current.todo
  BY DEF addAttr, CurrentOK
<1>1. current \in [pc : {"attributes", "dn"}, obj : Objects, kind : EventTypes,
                   ccb : CcbIds, last : BOOLEAN,
                   todo : SUBSET {"simple", "struct", "member"},
                   added : SUBSET Attributes, send : BOOLEAN]
  BY <1>0 DEF Current, NoNotification
<1>2. CASE /\ discardAllCcbs({})
           /\ current' = [current EXCEPT !.todo = {}, !.send = FALSE]
  <2>1. CurrentOK' /\ StillWanted'
    BY <1>1, <1>2 DEF CurrentOK, StillWanted, Current
  <2> QED
    BY <1>2, <2>1, DiscardKeepsApart
<1>3. CASE /\ \E ccbCache : cacheMap' = WithCcb(current.ccb, ccbCache)
           /\ current' = [current EXCEPT !.todo = @ \ {attr},
                                         !.added = @ \cup {getAttrType(attr)}]
           /\ UNCHANGED discardedCcbList
  <2>1. CurrentOK'
    BY <1>0, <1>1, <1>3, AttrType DEF CurrentOK, Current
  <2>2. StillWanted'
    BY <1>0, <1>1, <1>3 DEF StillWanted
  <2>3. DOMAIN cacheMap' = DOMAIN cacheMap \cup {current.ccb}
    BY <1>3 DEF WithCcb
  <2>4. DiscardedNotCached'
    BY <1>0, <1>3, <2>3 DEF DiscardedNotCached, StillWanted
  <2> QED
    BY <2>1, <2>2, <2>4
<1>4. CASE /\ current' = [current EXCEPT !.todo = @ \ {attr}]
           /\ UNCHANGED cacheVars
  <2>1. CurrentOK' /\ StillWanted'
    BY <1>0, <1>1, <1>4 DEF CurrentOK, StillWanted, Current, cacheVars
  <2> QED
    BY <1>4, <2>1 DEF DiscardedNotCached, cacheVars
<1> QED
  <2> DEFINE c == current.ccb
             temp == [tempCache(c) EXCEPT
                         !.attrs = @ \cup {getAttrType(attr)},
                         !.runtimeStruct = @ \/ (c = 0 /\ current.obj \in Structs)]
             put(bytes) == [WithDn(CcbCache(c), Temp, temp) EXCEPT
                               !.memory = updateMemory(@, bytes, 0)]
  <2>1. CASE \E bytes \in Amounts : cacheMap' = WithCcb(c, put(bytes))
    <3>1. \E ccbCache : cacheMap' = WithCcb(c, ccbCache)
      BY <2>1
    <3> QED
      BY <1>2, <1>3, <1>4, <3>1 DEF addAttr
  <2>2. CASE ~\E bytes \in Amounts : cacheMap' = WithCcb(c, put(bytes))
    BY <1>2, <1>4, <2>2 DEF addAttr
  <2> QED
    BY <2>1, <2>2

\* The DN is translated, or the notification is given up.
LEMMA ConvertDnInv ==
    ASSUME CacheInv, convertTo3GPPDN
    PROVE  CacheInv'
<1> USE DEF CacheInv, convertTo3GPPDN
<1>1. DiscardedNotCached'
  BY DEF DiscardedNotCached, cacheVars
<1>2. current' = NoNotification => CurrentOK' /\ StillWanted'
  BY NoNotificationOK DEF CurrentOK, StillWanted
<1>3. current' = [current EXCEPT !.pc = "dn"] => CurrentOK' /\ StillWanted'
  BY DEF CurrentOK, StillWanted, Current, NoNotification, cacheVars
<1> QED
  BY <1>1, <1>2, <1>3

\* setDn adds the CCB of the notification to the cache or takes it away.
LEMMA SetDnDomain ==
    ASSUME setDn
    PROVE  DOMAIN cacheMap' \subseteq DOMAIN cacheMap \cup {current.ccb}
<1>1. \/ \E ccbCache : cacheMap' = WithCcb(current.ccb, ccbCache)
      \/ cacheMap' = WithoutCcbs({current.ccb})
  BY DEF setDn
<1> QED
  BY <1>1 DEF WithCcb, WithoutCcbs, Restrict

\* The notification is ended.
LEMMA SetDnInv ==
    ASSUME CacheInv, setDnInCmCache
    PROVE  CacheInv'
<1> USE DEF CacheInv
<1>1. CurrentOK' /\ StillWanted'
  BY NoNotificationOK DEF setDnInCmCache, CurrentOK, StillWanted
<1>2. CASE discardAllCcbs(ccbsForgotten)
  BY <1>1, <1>2, DiscardKeepsApart
<1>3. CASE UNCHANGED cacheMap /\ discardedCcbList' = discardedCcbList \ ccbsForgotten
  BY <1>1, <1>3 DEF DiscardedNotCached
<1>4. CASE current.send /\ setDn
           /\ discardedCcbList' = discardedCcbList \ ccbsForgotten
  BY <1>1, <1>4, SetDnDomain DEF DiscardedNotCached, StillWanted
<1> QED
  BY <1>2, <1>3, <1>4 DEF setDnInCmCache

\* Init establishes the invariant.
LEMMA CacheInit == Init => CacheInv
  BY NoNotificationOK DEF Init, CacheInv, CurrentOK, StillWanted,
                          DiscardedNotCached

\* Every step keeps it.
LEMMA CacheStep == CacheInv /\ [Next]_vars => CacheInv'
<1> SUFFICES ASSUME CacheInv, [Next]_vars PROVE CacheInv'
  OBVIOUS
<1>1. CASE start_CmEventHandler \/ RegexpFilter \/ pushOverflow \/ UNCHANGED vars
  BY <1>1 DEF start_CmEventHandler, RegexpFilter, pushOverflow, vars, cacheVars,
              CacheInv, CurrentOK, StillWanted, DiscardedNotCached
<1>2. CASE stop_CmEventHandler
  BY <1>2 DEF stop_CmEventHandler, CacheInv, CurrentOK, StillWanted,
              DiscardedNotCached
<1>3. CASE Notify
  BY <1>3, ConvertInv
<1>4. ASSUME NEW attr \in {"simple", "struct", "member"}, addAttr(attr)
      PROVE  CacheInv'
  BY <1>4, AddAttrInv
<1>5. CASE convertTo3GPPDN \/ setDnInCmCache
  BY <1>5, ConvertDnInv, SetDnInv
<1> QED
  BY <1>1, <1>2, <1>3, <1>4, <1>5 DEF Next

(***************************************************************************)
(* After an overflow nothing is collected for a CCB on the list of         *)
(* discarded CCBs, also when the iterator in discardAllCcbs goes wrong.    *)
(***************************************************************************)
THEOREM CacheSafe == Spec => []DiscardedNotCached
<1>1. CacheInv => DiscardedNotCached
  BY DEF CacheInv
<1> QED
  BY CacheInit, CacheStep, <1>1, PTL DEF Spec

-----------------------------------------------------------------------------
\* The steps that handle a notification do not touch the subscription, and
\* no step forgets what has gone wrong.
LEMMA NotificationSteps ==
    /\ Notify \/ convertTo3GPPDN \/ setDnInCmCache
         => UNCHANGED startVars /\ faults \subseteq faults'
    /\ \A attr : addAttr(attr) => UNCHANGED startVars /\ faults \subseteq faults'
<1>1. ASSUME NEW n, convertCMNotificationHeader(n)
      PROVE  UNCHANGED startVars /\ faults \subseteq faults'
  BY <1>1 DEF convertCMNotificationHeader
<1>2. ASSUME NEW forgotten, discardAllCcbs(forgotten)
      PROVE  faults \subseteq faults'
  BY <1>2 DEF discardAllCcbs
<1>3. ASSUME setDn PROVE faults \subseteq faults'
  BY <1>3 DEF setDn, Note
<1>4. Notify => UNCHANGED startVars /\ faults \subseteq faults'
  BY <1>1 DEF Notify
<1>5. convertTo3GPPDN => UNCHANGED startVars /\ faults \subseteq faults'
  BY DEF convertTo3GPPDN, Note
<1>6. setDnInCmCache => UNCHANGED startVars /\ faults \subseteq faults'
  BY <1>2, <1>3 DEF setDnInCmCache
<1>7. ASSUME NEW attr, addAttr(attr)
      PROVE  UNCHANGED startVars /\ faults \subseteq faults'
  <2>1. UNCHANGED startVars
    BY <1>7 DEF addAttr
  <2>2. discardAllCcbs({}) \/ UNCHANGED faults
    BY <1>7 DEF addAttr
  <2> QED
    BY <1>2, <2>1, <2>2
<1> QED
  BY <1>4, <1>5, <1>6, <1>7

(***************************************************************************)
(* However often the service is closed and opened, a consumer with a       *)
(* filter has the subscription of NTF behind it, unless NTF refused it.    *)
(***************************************************************************)
THEOREM FilterServed == Spec => []FilterMeansSubscribed
<1>1. Init => FilterMeansSubscribed
  BY DEF Init, FilterMeansSubscribed
<1>2. FilterMeansSubscribed /\ [Next]_vars => FilterMeansSubscribed'
  <2> SUFFICES ASSUME FilterMeansSubscribed, [Next]_vars
               PROVE  FilterMeansSubscribed'
    OBVIOUS
  <2>1. CASE start_CmEventHandler
    BY <2>1 DEF start_CmEventHandler, newProducer, FilterMeansSubscribed
  <2>2. CASE RegexpFilter
    BY <2>2 DEF RegexpFilter, Note, FilterMeansSubscribed
  <2>3. CASE stop_CmEventHandler
    BY <2>3 DEF stop_CmEventHandler, FilterMeansSubscribed
  <2>4. CASE UNCHANGED startVars /\ faults \subseteq faults'
    BY <2>4 DEF startVars, FilterMeansSubscribed
  <2>5. CASE pushOverflow \/ UNCHANGED vars
    BY <2>4, <2>5 DEF pushOverflow, vars
  <2>6. CASE Notify \/ convertTo3GPPDN \/ setDnInCmCache
             \/ \E attr \in {"simple", "struct", "member"} : addAttr(attr)
    BY <2>4, <2>6, NotificationSteps
  <2> QED
    BY <2>1, <2>2, <2>3, <2>5, <2>6 DEF Next
<1> QED
  BY <1>1, <1>2, PTL DEF Spec

-----------------------------------------------------------------------------
(***************************************************************************)
(* Sums over the CCBs of the cache.  A sum is a recursion over a finite    *)
(* set.  It is shown to count a set, the bytes of the CCBs numbered within *)
(* each, so that the facts about cardinalities apply to it: the recursion  *)
(* has a solution, which is that count, and only one, for otherwise there  *)
(* were a smallest set on which two differed.                              *)
(***************************************************************************)
SumOf(map, C) == MapThenSumSet(LAMBDA c : getMemory(map[c]), C)

Bytes(map, C) == {b \in C \X Nat : b[2] < getMemory(map[b[1]])}

Charges(map, C) == IsFiniteSet(C) /\ \A c \in C : getMemory(map[c]) \in Nat

\* The bytes of one CCB are as many as it is charged for.
LEMMA BytesOfOne ==
    ASSUME NEW map, NEW c, getMemory(map[c]) \in Nat
    PROVE  /\ IsFiniteSet(Bytes(map, {c}))
           /\ Cardinality(Bytes(map, {c})) = getMemory(map[c])
<1> DEFINE n == getMemory(map[c])
<1>1. Bytes(map, {c}) = {c} \X (0 .. n - 1)
  BY DEF Bytes
<1> HIDE DEF n
<1>2. n \in Nat /\ 0 \in Int /\ n - 1 \in Int
  BY DEF n
<1>3. /\ IsFiniteSet(0 .. n - 1)
      /\ Cardinality(0 .. n - 1) = IF 0 > n - 1 THEN 0 ELSE (n - 1) - 0 + 1
  BY <1>2, FS_Interval
<1>4. Cardinality(0 .. n - 1) = n
  BY <1>2, <1>3
<1>5. IsFiniteSet({c}) /\ Cardinality({c}) = 1
  BY FS_Singleton
<1> DEFINE I == 0 .. n - 1
<1>6. IsFiniteSet(I) /\ Cardinality(I) = n
  BY <1>3, <1>4
<1> HIDE DEF I
<1>7. /\ IsFiniteSet({c} \X I)
      /\ Cardinality({c} \X I) = Cardinality({c}) * Cardinality(I)
  BY <1>5, <1>6, FS_Product
<1>8. Cardinality({c} \X I) = n
  BY <1>2, <1>5, <1>6, <1>7
<1> QED
  BY <1>1, <1>7, <1>8 DEF n, I

\* Finitely many CCBs have finitely many bytes.
LEMMA BytesFinite ==
    ASSUME NEW map, NEW C, Charges(map, C)
    PROVE  IsFiniteSet(Bytes(map, C))
<1> DEFINE f == [c \in C |-> Bytes(map, {c})]
           T == {f[c] : c \in C}
<1>1. IsFiniteSet(C) /\ \A c \in C : getMemory(map[c]) \in Nat
  BY DEF Charges
<1>2. f \in Surjection(C, T)
  BY DEF Surjection
<1>3. \A t \in T : IsFiniteSet(t)
  BY <1>1, BytesOfOne
<1>4. Bytes(map, C) = UNION T
  BY DEF Bytes
<1> HIDE DEF f, T
<1>5. IsFiniteSet(T)
  BY <1>1, <1>2, FS_Surjection
<1> QED
  BY <1>3, <1>4, <1>5, FS_UNION

\* The bytes of disjoint sets of CCBs add up.
LEMMA BytesAddUp ==
    ASSUME NEW map, NEW C, NEW D \in SUBSET C, Charges(map, C)
    PROVE  /\ Charges(map, D) /\ Charges(map, C \ D)
           /\ Cardinality(Bytes(map, C)) \in Nat
           /\ Cardinality(Bytes(map, D)) \in Nat
           /\ Cardinality(Bytes(map, C \ D)) \in Nat
           /\ Cardinality(Bytes(map, C))
                = Cardinality(Bytes(map, D)) + Cardinality(Bytes(map, C \ D))
<1> DEFINE A == Bytes(map, D)
           B == Bytes(map, C \ D)
<1>1. IsFiniteSet(C) /\ \A c \in C : getMemory(map[c]) \in Nat
  BY DEF Charges
<1>2. IsFiniteSet(D) /\ IsFiniteSet(C \ D)
  BY <1>1, FS_Subset
<1>3. Charges(map, D) /\ Charges(map, C \ D)
  BY <1>1, <1>2 DEF Charges
<1>4. Bytes(map, C) = A \cup B /\ A \cap B = {}
  BY DEF Bytes
<1> HIDE DEF A, B
<1>5. IsFiniteSet(A) /\ IsFiniteSet(B)
  BY <1>3, BytesFinite DEF A, B
<1>6. Cardinality(A) \in Nat /\ Cardinality(B) \in Nat
  BY <1>5, FS_CardinalityType
<1>7. Cardinality(A \cup B) = Cardinality(A) + Cardinality(B) - Cardinality({})
  BY <1>4, <1>5, FS_Union
<1>8. Cardinality(A \cup B) = Cardinality(A) + Cardinality(B)
  BY <1>6, <1>7, FS_EmptySet
<1> QED
  BY <1>3, <1>4, <1>6, <1>8 DEF A, B

\* Among some subsets of a finite set there is one that no other is made of
\* by removing an element from it.
LEMMA SmallestSet ==
    ASSUME NEW S, IsFiniteSet(S), NEW T, T \subseteq SUBSET S, T # {}
    PROVE  \E s \in T : \A x \in s : s \ {x} \notin T
<1> DEFINE N == {Cardinality(s) : s \in T}
<1>1. \A s \in T : IsFiniteSet(s) /\ Cardinality(s) \in Nat
  BY FS_Subset, FS_CardinalityType
<1>2. N \subseteq Nat /\ N # {}
  BY <1>1
<1>3. PICK n \in N : \A m \in N : ~(<<m, n>> \in OpToRel(<, Nat))
  <2> HIDE DEF N
  <2> QED
    BY <1>2, NatLessThanWellFounded, WFMin
<1>4. \A m \in N : ~(m < n)
  BY <1>2, <1>3 DEF OpToRel
<1>5. PICK s \in T : Cardinality(s) = n
  BY <1>3
<1>6. ASSUME NEW x \in s, s \ {x} \in T PROVE FALSE
  <2>1. IsFiniteSet(s) /\ Cardinality(s) \in Nat
    BY <1>1
  <2>2. Cardinality(s \ {x}) = Cardinality(s) - 1
    BY <2>1, FS_RemoveElement
  <2>3. Cardinality(s \ {x}) \in N
    BY <1>6
  <2> HIDE DEF N
  <2>4. ~(Cardinality(s \ {x}) < n)
    BY <1>4, <2>3
  <2> QED
    BY <1>5, <2>1, <2>2, <2>4
<1> QED
  BY <1>5, <1>6

\* The sum over CCBs is the number of their bytes.
LEMMA SumCounts ==
    ASSUME NEW map, NEW C, Charges(map, C)
    PROVE  SumOf(map, C) = Cardinality(Bytes(map, C))
<1> DEFINE h == [s \in SUBSET C |-> Cardinality(Bytes(map, s))]
           next(it) == [s \in SUBSET C |->
                          IF s = {} THEN 0
                          ELSE getMemory(map[CHOOSE x \in s : TRUE])
                                 + it[s \ {CHOOSE x \in s : TRUE}]]
           iter == CHOOSE it : it = next(it)
<1>1. SumOf(map, C) = iter[C]
  BY DEF SumOf, MapThenSumSet, MapThenFoldSet
<1>2. h = next(h)
  <2>1. ASSUME NEW s \in SUBSET C PROVE h[s] = next(h)[s]
    <3>1. CASE s = {}
      <4>1. Bytes(map, {}) = {}
        BY DEF Bytes
      <4>2. h[{}] = 0
        BY <4>1, FS_EmptySet
      <4> QED
        BY <3>1, <4>2
    <3>2. CASE s # {}
      <4> DEFINE x == CHOOSE x \in s : TRUE
      <4>1. x \in s
        BY <3>2
      <4>2. next(h)[s] = getMemory(map[x]) + h[s \ {x}]
        BY <3>2
      <4>3. /\ h[s] = Cardinality(Bytes(map, s))
            /\ h[s \ {x}] = Cardinality(Bytes(map, s \ {x}))
        OBVIOUS
      <4> HIDE DEF x, h, next
      <4>4. Charges(map, s)
        BY BytesAddUp
      <4>5. Cardinality(Bytes(map, s))
              = Cardinality(Bytes(map, {x})) + Cardinality(Bytes(map, s \ {x}))
        BY <4>1, <4>4, BytesAddUp
      <4>6. Cardinality(Bytes(map, {x})) = getMemory(map[x])
        BY <4>1, <4>4, BytesOfOne DEF Charges
      <4> QED
        BY <4>2, <4>3, <4>5, <4>6
    <3> QED
      BY <3>1, <3>2
  <2>2. /\ h = [s \in SUBSET C |-> h[s]]
        /\ next(h) = [s \in SUBSET C |-> next(h)[s]]
    OBVIOUS
  <2> HIDE DEF h, next
  <2> QED
    BY <2>1, <2>2
<1>3. iter = next(iter)
  <2> HIDE DEF next, h
  <2> QED
    BY <1>2
<1> DEFINE T == {s \in SUBSET C : iter[s] # h[s]}
<1>4. T = {}
  <2> SUFFICES ASSUME T # {} PROVE FALSE
    OBVIOUS
  <2>1. T \subseteq SUBSET C /\ IsFiniteSet(C)
    BY DEF Charges
  <2>2. PICK s \in T : \A x \in s : s \ {x} \notin T
    <3> HIDE DEF T
    <3> QED
      BY <2>1, SmallestSet
  <2> HIDE DEF iter, h
  <2>3. s \in SUBSET C /\ iter[s] # h[s]
    OBVIOUS
  <2>4. iter[s] = next(iter)[s] /\ h[s] = next(h)[s]
    <3> HIDE DEF next
    <3> QED
      BY <1>2, <1>3
  <2>5. CASE s = {}
    BY <2>3, <2>4, <2>5
  <2>6. CASE s # {}
    <3> DEFINE x == CHOOSE x \in s : TRUE
    <3>1. x \in s
      BY <2>6
    <3>2. /\ next(iter)[s] = getMemory(map[x]) + iter[s \ {x}]
          /\ next(h)[s] = getMemory(map[x]) + h[s \ {x}]
      BY <2>3, <2>6
    <3> HIDE DEF x, next
    <3>3. s \ {x} \in SUBSET C /\ s \ {x} \notin T
      BY <2>2, <2>3, <3>1
    <3>4. iter[s \ {x}] = h[s \ {x}]
      BY <3>3
    <3> QED
      BY <2>3, <2>4, <3>2, <3>4
  <2> QED
    BY <2>5, <2>6
<1>5. iter[C] = h[C]
  <2> HIDE DEF iter, h
  <2> QED
    BY <1>4
<1> HIDE DEF iter, next
<1> QED
  BY <1>1, <1>5

\* A sum over a set is the sum over a part of it and over the rest.
LEMMA SumSplit ==
    ASSUME NEW map, NEW C, NEW D \in SUBSET C, Charges(map, C)
    PROVE  /\ SumOf(map, C) \in Nat /\ SumOf(map, D) \in Nat
           /\ SumOf(map, C \ D) \in Nat
           /\ SumOf(map, C) = SumOf(map, D) + SumOf(map, C \ D)
<1>1. Charges(map, D) /\ Charges(map, C \ D)
  BY BytesAddUp
<1>2. /\ SumOf(map, C) = Cardinality(Bytes(map, C))
      /\ SumOf(map, D) = Cardinality(Bytes(map, D))
      /\ SumOf(map, C \ D) = Cardinality(Bytes(map, C \ D))
  BY <1>1, SumCounts
<1> QED
  BY <1>2, BytesAddUp

\* The sum over one CCB is what it is charged for.
LEMMA SumOfOne ==
    ASSUME NEW map, NEW c, getMemory(map[c]) \in Nat
    PROVE  SumOf(map, {c}) = getMemory(map[c])
<1>1. Charges(map, {c})
  BY FS_Singleton DEF Charges
<1> QED
  BY <1>1, SumCounts, BytesOfOne

\* A sum depends on nothing but the CCBs that it is over.
LEMMA SumSame ==
    ASSUME NEW map, NEW other, NEW C, Charges(map, C),
           \A c \in C : other[c] = map[c]
    PROVE  Charges(other, C) /\ SumOf(other, C) = SumOf(map, C)
<1>1. Charges(other, C)
  BY DEF Charges
<1>2. Bytes(other, C) = Bytes(map, C)
  BY DEF Bytes
<1> QED
  BY <1>1, <1>2, SumCounts

\* What discardAllCcbs and NoPhantomMemory add up, now and after a step.
LEMMA SumInUse ==
    /\ \A C : MapThenSumSet(MemoryOf, C) = SumOf(cacheMap, C)
    /\ NoPhantomMemory <=> cacheMemory <= SumOf(cacheMap, DOMAIN cacheMap)
    /\ NoPhantomMemory' <=> cacheMemory' <= SumOf(cacheMap', DOMAIN cacheMap')
  BY DEF NoPhantomMemory, SumOf, MemoryOf, MapThenSumSet, MapThenFoldSet

=============================================================================
