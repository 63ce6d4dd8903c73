----------------------- MODULE CmEventContents_proof -----------------------
(***************************************************************************)
(* Proofs about what the CM events tell, for all CCBs and objects, any     *)
(* limit of the memory and any number of notifications; and the proof that *)
(* the cache implements CmEventSpec.                                       *)
(***************************************************************************)
EXTENDS CmEvents_proof

(***************************************************************************)
(* The cache holds the attributes of DNs by CCB.  Nothing is known of the  *)
(* amounts of memory, which the content does not depend on.                *)
(***************************************************************************)
IsCcbCache(k) ==
    /\ k = [dns |-> k.dns, memory |-> k.memory]
    /\ DOMAIN k.dns \subseteq Mos \cup {Temp}
    /\ k.dns \in [DOMAIN k.dns -> DnCaches]

MapOK ==
    /\ DOMAIN cacheMap \subseteq CcbIds
    /\ \A c \in DOMAIN cacheMap : IsCcbCache(cacheMap[c])

\* A notification that adds attributes is not a deletion, and sets a DN.
KindOK ==
    /\ current.kind = "delete" => current.todo = {} /\ current.added = {}
    /\ current.todo # {} => current.send

(***************************************************************************)
(* Unless a DN could not be translated or discardAllCcbs went wrong, what  *)
(* is under the temporary key is what the notification under way has added *)
(* so far, and it will be put under a DN.                                  *)
(***************************************************************************)
NoLeftover == faults \cap {"dn", "iterator"} = {}

HasTemp(c) == c \in DOMAIN cacheMap /\ Temp \in DOMAIN cacheMap[c].dns

TempInv ==
    NoLeftover =>
        /\ \A c : HasTemp(c) => /\ current.send /\ current.ccb = c
                                /\ current.added # {}
        /\ current.send /\ current.added # {} =>
              /\ HasTemp(current.ccb)
              /\ cacheMap[current.ccb].dns[Temp].attrs = current.added

(***************************************************************************)
(* A DN in the cache has a type, and has attributes only with a type that  *)
(* may have them; and the cache holds what the notifications said.         *)
(***************************************************************************)
DnFits(d) ==
    /\ d.eventTypeSet # {}
    /\ \/ d.runtimeStruct \/ d.attrs = {}
       \/ d.eventTypeSet \cap {"create", "change"} # {}

FitInv ==
    NoLeftover =>
        \A c \in DOMAIN cacheMap : \A d \in DOMAIN cacheMap[c].dns \ {Temp} :
            DnFits(cacheMap[c].dns[d])

Said(dns) == UNION {{d} \X (dns[d].attrs \cup {"named"}) :
                        d \in DOMAIN dns \ {Temp}}

NotedInv ==
    /\ noted \in [CcbIds -> SUBSET (Mos \X (Attributes \cup {"named"}))]
    /\ NoLeftover =>
          \A c \in CcbIds : noted[c] = IF c \in DOMAIN cacheMap
                                       THEN Said(cacheMap[c].dns) ELSE {}

EventInv ==
    /\ DOMAIN event.dns \subseteq Mos
    /\ EventTypesFit /\ EventTellsChanges

ContentInv ==
    CacheInv /\ MapOK /\ KindOK /\ TempInv /\ FitInv /\ NotedInv /\ EventInv

-----------------------------------------------------------------------------
(***************************************************************************)
(* The operators on the cache.                                             *)
(***************************************************************************)
\* A notification under way is a record with all its fields.
LEMMA UnderWay ==
    ASSUME CurrentOK, current.pc # "none"
    PROVE  current \in [pc : {"attributes", "dn"}, obj : Objects,
                        kind : EventTypes, ccb : CcbIds, last : BOOLEAN,
                        todo : SUBSET {"simple", "struct", "member"},
                        added : SUBSET Attributes, send : BOOLEAN]
  BY DEF CurrentOK, Current, NoNotification

\* The DN of an object is that of a managed object.
LEMMA DnOfObject == \A obj \in Objects : DnOf(obj) \in Mos /\ DnOf(obj) # Temp
  BY ConstantsAssumption, TempAssumption DEF DnOf, Objects

\* An empty DnCache and an empty CcbCache are of their type.
LEMMA EmptyCaches ==
    /\ EmptyDn \in DnCaches
    /\ IsCcbCache([dns |-> << >>, memory |-> 0])
<1>1. EmptyDn \in DnCaches
  BY DEF EmptyDn, DnCaches
<1>2. [dns |-> << >>, memory |-> 0].dns = << >>
  OBVIOUS
<1>3. << >> \in [DOMAIN << >> -> DnCaches] /\ DOMAIN << >> = {}
  OBVIOUS
<1> QED
  BY <1>1, <1>2, <1>3 DEF IsCcbCache

\* The CcbCache of a CCB, also if it is only made now.
LEMMA CcbCacheOK ==
    ASSUME MapOK, NEW c
    PROVE  /\ IsCcbCache(CcbCache(c))
           /\ c \in DOMAIN cacheMap => CcbCache(c) = cacheMap[c]
           /\ c \notin DOMAIN cacheMap => DOMAIN CcbCache(c).dns = {}
           /\ Temp \in DOMAIN CcbCache(c).dns <=> HasTemp(c)
<1>1. CASE c \in DOMAIN cacheMap
  BY <1>1 DEF CcbCache, MapOK, HasTemp
<1>2. CASE c \notin DOMAIN cacheMap
  BY <1>2, EmptyCaches DEF CcbCache, HasTemp
<1> QED
  BY <1>1, <1>2

\* A DnCache is put under a DN.
LEMMA WithDnOK ==
    ASSUME NEW k, IsCcbCache(k), NEW dn \in Mos \cup {Temp}, NEW d \in DnCaches
    PROVE  /\ IsCcbCache(WithDn(k, dn, d))
           /\ DOMAIN WithDn(k, dn, d).dns = DOMAIN k.dns \cup {dn}
           /\ WithDn(k, dn, d).dns[dn] = d
           /\ \A e \in DOMAIN k.dns : e # dn =>
                 WithDn(k, dn, d).dns[e] = k.dns[e]
           /\ WithDn(k, dn, d).memory = k.memory
<1> DEFINE f == [e \in DOMAIN k.dns \cup {dn} |-> IF e = dn THEN d ELSE k.dns[e]]
<1>1. WithDn(k, dn, d) = [dns |-> f, memory |-> k.memory]
  BY DEF WithDn, IsCcbCache
<1>2. /\ DOMAIN f = DOMAIN k.dns \cup {dn} /\ f[dn] = d
      /\ \A e \in DOMAIN k.dns : e # dn => f[e] = k.dns[e]
  OBVIOUS
<1>3. f \in [DOMAIN f -> DnCaches] /\ DOMAIN f \subseteq Mos \cup {Temp}
  BY DEF IsCcbCache
<1> HIDE DEF f
<1> QED
  BY <1>1, <1>2, <1>3 DEF IsCcbCache

\* The temporary key is removed.
LEMMA DeleteTempOK ==
    ASSUME NEW k, IsCcbCache(k)
    PROVE  /\ IsCcbCache(deleteTempCache(k))
           /\ DOMAIN deleteTempCache(k).dns = DOMAIN k.dns \ {Temp}
           /\ \A e \in DOMAIN k.dns \ {Temp} :
                 deleteTempCache(k).dns[e] = k.dns[e]
           /\ deleteTempCache(k).memory = k.memory
<1> DEFINE f == [e \in DOMAIN k.dns \ {Temp} |-> k.dns[e]]
<1>1. deleteTempCache(k) = [dns |-> f, memory |-> k.memory]
  BY DEF deleteTempCache, Restrict, IsCcbCache
<1>2. /\ DOMAIN f = DOMAIN k.dns \ {Temp}
      /\ \A e \in DOMAIN k.dns \ {Temp} : f[e] = k.dns[e]
  OBVIOUS
<1>3. f \in [DOMAIN f -> DnCaches] /\ DOMAIN f \subseteq Mos \cup {Temp}
  BY DEF IsCcbCache
<1> HIDE DEF f
<1> QED
  BY <1>1, <1>2, <1>3 DEF IsCcbCache

\* The counter of a CcbCache changes, its content does not.
LEMMA MemoryOnly ==
    ASSUME NEW k, IsCcbCache(k), NEW m
    PROVE  /\ IsCcbCache([k EXCEPT !.memory = m])
           /\ [k EXCEPT !.memory = m].dns = k.dns
           /\ [k EXCEPT !.memory = m].memory = m
<1>1. [k EXCEPT !.memory = m] = [dns |-> k.dns, memory |-> m]
  BY DEF IsCcbCache
<1> QED
  BY <1>1 DEF IsCcbCache

\* What the map of the CCBs is after a CCB is put into it or taken out.
LEMMA WithCcbOK ==
    ASSUME NEW c, NEW k
    PROVE  /\ DOMAIN WithCcb(c, k) = DOMAIN cacheMap \cup {c}
           /\ WithCcb(c, k)[c] = k
           /\ \A b \in DOMAIN cacheMap : b # c => WithCcb(c, k)[b] = cacheMap[b]
  BY DEF WithCcb

\* What the map of the CCBs is without some of them.
LEMMA WithoutCcbsOK ==
    ASSUME NEW C
    PROVE  /\ DOMAIN WithoutCcbs(C) = DOMAIN cacheMap \ C
           /\ \A b \in DOMAIN cacheMap \ C : WithoutCcbs(C)[b] = cacheMap[b]
  BY DEF WithoutCcbs, Restrict

-----------------------------------------------------------------------------
(***************************************************************************)
(* The steps, by what they do to the content of the cache.                 *)
(***************************************************************************)
\* What is collected under the temporary key.
LEMMA TempCacheOK ==
    ASSUME MapOK, NEW c
    PROVE  /\ tempCache(c) \in DnCaches
           /\ HasTemp(c) => tempCache(c) = cacheMap[c].dns[Temp]
           /\ ~HasTemp(c) => tempCache(c).attrs = {}
<1>1. CASE HasTemp(c)
  BY <1>1, CcbCacheOK DEF tempCache, IsCcbCache
<1>2. CASE ~HasTemp(c)
  BY <1>2, CcbCacheOK, EmptyCaches DEF tempCache, EmptyDn
<1> QED
  BY <1>1, <1>2

\* addAttr throws the cache away, puts the attribute under the temporary
\* key, or ignores it.
Stored(type, put) ==
    LET c == current.ccb
    IN  /\ cacheMap' = WithCcb(c, put)
        /\ IsCcbCache(put)
        /\ DOMAIN put.dns = DOMAIN CcbCache(c).dns \cup {Temp}
        /\ put.dns[Temp].attrs = tempCache(c).attrs \cup {type}
        /\ \A e \in DOMAIN CcbCache(c).dns \ {Temp} :
              put.dns[e] = CcbCache(c).dns[e]

\* These are the three outcomes of addAttr.
LEMMA AddAttrCases ==
    ASSUME CurrentOK, MapOK, NEW attr \in {"simple", "struct", "member"},
           addAttr(attr)
    PROVE  /\ current.pc = "attributes" /\ attr \in current.todo
           /\ getAttrType(attr) \in Attributes
           /\ UNCHANGED <<ntfVars, startVars>>
           /\ \/ /\ discardAllCcbs({})
                 /\ current' = [current EXCEPT !.todo = {}, !.send = FALSE]
              \/ /\ \E put : Stored(getAttrType(attr), put)
                 /\ current' = [current EXCEPT
                                   !.todo = @ \ {attr},
                                   !.added = @ \cup {getAttrType(attr)}]
                 /\ UNCHANGED <<discardedCcbList, partial, noted, eventVars,
                                faults>>
              \/ /\ current' = [current EXCEPT !.todo = @ \ {attr}]
                 /\ UNCHANGED <<cacheVars, eventVars, faults>>
<1> DEFINE c == current.ccb
           type == getAttrType(attr)
           temp == [tempCache(c) EXCEPT
                       !.attrs = @ \cup {type},
                       !.runtimeStruct = @ \/ (c = 0 /\ current.obj \in Structs)]
           put(bytes) == [WithDn(CcbCache(c), Temp, temp) EXCEPT
                             !.memory = updateMemory(@, bytes, 0)]
<1>1. /\ current.pc = "attributes" /\ attr \in current.todo
      /\ UNCHANGED <<ntfVars, startVars>>
  BY DEF addAttr
<1>2. type \in Attributes
  BY <1>1, AttrType
<1>3. temp \in DnCaches /\ temp.attrs = tempCache(c).attrs \cup {type}
  BY <1>2, TempCacheOK DEF DnCaches
<1>4. ASSUME NEW bytes, cacheMap' = WithCcb(c, put(bytes))
      PROVE  Stored(type, put(bytes))
  <2> DEFINE k == WithDn(CcbCache(c), Temp, temp)
             m == updateMemory(k.memory, bytes, 0)
  <2>1. IsCcbCache(CcbCache(c))
    BY CcbCacheOK
  <2> HIDE DEF temp, type, put
  <2>0. Temp \in Mos \cup {Temp} /\ temp \in DnCaches
    BY <1>3
  <2>2. /\ IsCcbCache(k) /\ DOMAIN k.dns = DOMAIN CcbCache(c).dns \cup {Temp}
        /\ k.dns[Temp] = temp
        /\ \A e \in DOMAIN CcbCache(c).dns : e # Temp =>
              k.dns[e] = CcbCache(c).dns[e]
    BY <2>0, <2>1, WithDnOK
  <2>3. put(bytes) = [k EXCEPT !.memory = m]
    BY DEF put
  <2> HIDE DEF k, m
  <2>4. IsCcbCache(put(bytes)) /\ put(bytes).dns = k.dns
    BY <2>2, <2>3, MemoryOnly
  <2> QED
    BY <1>3, <1>4, <2>2, <2>4 DEF Stored
<1>5. \/ /\ discardAllCcbs({})
         /\ current' = [current EXCEPT !.todo = {}, !.send = FALSE]
      \/ /\ \E bytes \in Amounts : cacheMap' = WithCcb(c, put(bytes))
         /\ current' = [current EXCEPT !.todo = @ \ {attr},
                                       !.added = @ \cup {type}]
         /\ UNCHANGED <<discardedCcbList, partial, noted, eventVars, faults>>
      \/ /\ current' = [current EXCEPT !.todo = @ \ {attr}]
         /\ UNCHANGED <<cacheVars, eventVars, faults>>
  BY DEF addAttr
<1> HIDE DEF put, type
<1>6. (\E bytes \in Amounts : cacheMap' = WithCcb(c, put(bytes)))
        => \E k : Stored(type, k)
  BY <1>4
<1> QED
  BY <1>1, <1>2, <1>5, <1>6 DEF type

\* discardAllCcbs takes the CCBs in C out of the cache.
Discarded(C, forgotten) ==
    /\ C \subseteq DOMAIN cacheMap /\ cacheMap' = WithoutCcbs(C)
    /\ discardedCcbList' = (discardedCcbList \cup C) \ forgotten
    /\ noted' = [c \in CcbIds |-> IF c \in C THEN {} ELSE noted[c]]
    /\ partial' = partial \cup ((C \cup {current.ccb}) \ {0})
    /\ event' = Overflow /\ UNCHANGED expected
    /\ faults \subseteq faults'
    /\ faults' \subseteq faults \cup {"iterator", "unlisted"}
    /\ "iterator" \notin faults' => C = DOMAIN cacheMap
    /\ "unlisted" \notin faults' => current.ccb \in C

\* This is all that discardAllCcbs does to the content.
LEMMA DiscardCases ==
    ASSUME NEW forgotten, discardAllCcbs(forgotten)
    PROVE  \E C : Discarded(C, forgotten)
<1>1. PICK C \in SUBSET DOMAIN cacheMap :
        /\ discardedCcbList' = addDiscardedCcb(C) \ forgotten
        /\ cacheMap' = WithoutCcbs(C)
        /\ noted' = [c \in CcbIds |-> IF c \in C THEN {} ELSE noted[c]]
        /\ partial' = partial \cup ((C \cup {current.ccb}) \ {0})
        /\ event' = Overflow
        /\ faults' = faults
             \cup (IF C # DOMAIN cacheMap THEN {"iterator"} ELSE {})
             \cup (IF current.ccb \notin C THEN {"unlisted"} ELSE {})
        /\ UNCHANGED expected
  BY DEF discardAllCcbs
<1> QED
  BY <1>1 DEF Discarded, addDiscardedCcb

\* setDn: what is collected for the CCB then, under its DNs.
Collected(k) ==
    LET c == current.ccb
        dn == DnOf(current.obj)
        old == CcbCache(c).dns
    IN  /\ IsCcbCache(k)
        /\ DOMAIN k.dns = (DOMAIN old \cup {dn}) \ {Temp}
        /\ k.dns[dn] = dnCacheSet(CcbCache(c), dn, current.kind)
        /\ \A e \in DOMAIN old \ {Temp, dn} : k.dns[e] = old[e]

SaidNow == noted[current.ccb]
             \cup ({DnOf(current.obj)} \X (current.added \cup {"named"}))

\* The type of a DN that is set, and its attributes, which are those that it
\* had and those of the temporary key.
LEMMA DnCacheSetOK ==
    ASSUME MapOK, NEW dn \in Mos, NEW type \in EventTypes,
           NEW c, c = current.ccb
    PROVE  LET old == CcbCache(c).dns
               new == dnCacheSet(CcbCache(c), dn, type)
           IN  /\ new \in DnCaches
               /\ new.attrs = (IF dn \in DOMAIN old THEN old[dn].attrs ELSE {})
                                 \cup tempCache(c).attrs
               /\ dn \in DOMAIN old => old[dn].eventTypeSet \subseteq new.eventTypeSet
               /\ dn \in DOMAIN old => new.runtimeStruct = old[dn].runtimeStruct
               /\ dn \notin DOMAIN old \/ HasTemp(c) => type \in new.eventTypeSet
<1> DEFINE k == CcbCache(c)
           temp == [tempCache(c) EXCEPT !.eventTypeSet = {type}]
           new == dnCacheSet(k, dn, type)
<1>1. IsCcbCache(k) /\ (Temp \in DOMAIN k.dns <=> HasTemp(c))
  BY CcbCacheOK
<1>2. tempCache(c) \in DnCaches
  BY TempCacheOK
<1>3. /\ temp \in DnCaches /\ temp.attrs = tempCache(c).attrs
      /\ temp.eventTypeSet = {type} /\ temp.runtimeStruct = tempCache(c).runtimeStruct
  BY <1>2 DEF DnCaches
<1>4. dn \in DOMAIN k.dns => k.dns[dn] \in DnCaches
  BY <1>1 DEF IsCcbCache
<1>5. ~HasTemp(c) => tempCache(c).attrs = {}
  BY TempCacheOK
<1> HIDE DEF k
<1>6. CASE ~HasTemp(c) /\ dn \notin DOMAIN k.dns
  <2>1. new = [EmptyDn EXCEPT !.eventTypeSet = {type}]
    BY <1>1, <1>6 DEF dnCacheSet
  <2>2. new \in DnCaches /\ new.attrs = {} /\ new.eventTypeSet = {type}
    BY <2>1 DEF EmptyDn, DnCaches
  <2> HIDE DEF new
  <2> QED
    BY <1>5, <1>6, <2>2 DEF new, k
<1>7. CASE ~HasTemp(c) /\ dn \in DOMAIN k.dns
  <2>1. new = k.dns[dn]
    BY <1>1, <1>7 DEF dnCacheSet
  <2> HIDE DEF new
  <2> QED
    BY <1>4, <1>5, <1>7, <2>1 DEF new, k
<1>8. CASE HasTemp(c) /\ dn \in DOMAIN k.dns
  <2>1. new = joined(k.dns[dn], temp)
    BY <1>1, <1>8 DEF dnCacheSet
  <2> HIDE DEF temp, new
  <2>2. /\ new \in DnCaches /\ new.attrs = k.dns[dn].attrs \cup temp.attrs
        /\ new.eventTypeSet = k.dns[dn].eventTypeSet \cup temp.eventTypeSet
        /\ new.runtimeStruct = k.dns[dn].runtimeStruct
    BY <1>3, <1>4, <1>8, <2>1 DEF joined, DnCaches
  <2> QED
    BY <1>3, <1>8, <2>2 DEF new, k
<1>9. CASE HasTemp(c) /\ dn \notin DOMAIN k.dns
  <2>1. new = temp
    BY <1>1, <1>9 DEF dnCacheSet
  <2> HIDE DEF temp, new
  <2> QED
    BY <1>3, <1>9, <2>1 DEF new, k
<1> QED
  BY <1>6, <1>7, <1>8, <1>9

\* setDn collects, or tells what was collected, or tells nothing.
LEMMA SetDnCases ==
    ASSUME CurrentOK, MapOK, current.pc = "dn", setDn
    PROVE  \E k : /\ Collected(k)
                  /\ \/ /\ ~lastInCcb /\ cacheMap' = WithCcb(current.ccb, k)
                        /\ noted' = [noted EXCEPT ![current.ccb] = SaidNow]
                        /\ UNCHANGED <<eventVars, faults>>
                     \/ /\ lastInCcb
                        /\ cacheMap' = WithoutCcbs({current.ccb})
                        /\ noted' = [noted EXCEPT ![current.ccb] = {}]
                        /\ \/ /\ current.kind = "change"
                              /\ k.dns[DnOf(current.obj)].attrs = {}
                              /\ Note("empty", DOMAIN k.dns # {DnOf(current.obj)})
                              /\ UNCHANGED eventVars
                           \/ /\ event' = buildEventStruct(k)
                              /\ expected' = SaidNow
                              /\ UNCHANGED faults
<1> DEFINE c == current.ccb
           dn == DnOf(current.obj)
           old == CcbCache(c)
           set == dnCacheSet(old, dn, current.kind)
           new == deleteTempCache(WithDn(old, dn, set))
           put(change) == [new EXCEPT
                              !.memory = updateMemory(@, change[1], change[2])]
<1>1. current.obj \in Objects /\ current.kind \in EventTypes /\ dn \in Mos /\ dn # Temp
  BY UnderWay, DnOfObject
<1>2. set \in DnCaches
  BY <1>1, DnCacheSetOK
<1>3. IsCcbCache(old)
  BY CcbCacheOK
<1>4. ASSUME NEW change PROVE Collected(put(change))
  <2> DEFINE with == WithDn(old, dn, set)
             m == updateMemory(new.memory, change[1], change[2])
  <2> HIDE DEF set, old, dn
  <2>1. /\ IsCcbCache(with) /\ DOMAIN with.dns = DOMAIN old.dns \cup {dn}
        /\ with.dns[dn] = set
        /\ \A e \in DOMAIN old.dns : e # dn => with.dns[e] = old.dns[e]
    BY <1>1, <1>2, <1>3, WithDnOK
  <2> HIDE DEF with
  <2>2. /\ IsCcbCache(new) /\ DOMAIN new.dns = DOMAIN with.dns \ {Temp}
        /\ \A e \in DOMAIN with.dns \ {Temp} : new.dns[e] = with.dns[e]
    BY <2>1, DeleteTempOK DEF with
  <2>3. put(change) = [new EXCEPT !.memory = m]
    OBVIOUS
  <2> HIDE DEF new, m, put
  <2>4. IsCcbCache(put(change)) /\ put(change).dns = new.dns
    BY <2>2, <2>3, MemoryOnly
  <2>5. /\ DOMAIN new.dns = (DOMAIN old.dns \cup {dn}) \ {Temp}
        /\ new.dns[dn] = set
        /\ \A e \in DOMAIN old.dns \ {Temp, dn} : new.dns[e] = old.dns[e]
    BY <1>1, <2>1, <2>2
  <2> QED
    BY <2>4, <2>5 DEF Collected, old, dn, set
<1>5. PICK change \in memoryChanges(old, dn) :
        \/ /\ ~lastInCcb /\ cacheMap' = WithCcb(c, put(change))
           /\ noted' = [noted EXCEPT ![c] = SaidNow]
           /\ UNCHANGED <<eventVars, faults>>
        \/ /\ lastInCcb
           /\ cacheMap' = WithoutCcbs({c})
           /\ noted' = [noted EXCEPT ![c] = {}]
           /\ IF nothingToSend(put(change), dn)
              THEN /\ Note("empty", DOMAIN put(change).dns # {dn})
                   /\ UNCHANGED eventVars
              ELSE /\ event' = buildEventStruct(put(change))
                   /\ expected' = SaidNow
                   /\ UNCHANGED faults
  BY DEF setDn, SaidNow
<1> HIDE DEF put
<1> WITNESS put(change)
<1> QED
  BY <1>4, <1>5 DEF nothingToSend

-----------------------------------------------------------------------------
(***************************************************************************)
(* What is said of a CCB.                                                  *)
(***************************************************************************)
\* The pairs of a DN and an attribute, or of a DN and "named".
LEMMA SaidPairs ==
    ASSUME NEW dns, NEW x
    PROVE  x \in Said(dns) <=> \E d \in DOMAIN dns \ {Temp} :
               \E a \in dns[d].attrs \cup {"named"} : x = <<d, a>>
  BY DEF Said

\* What is under the temporary key is not said.
LEMMA SaidSame ==
    ASSUME NEW f, NEW g, DOMAIN f \ {Temp} = DOMAIN g \ {Temp},
           \A e \in DOMAIN f \ {Temp} : f[e] = g[e]
    PROVE  Said(f) = Said(g)
<1>1. ASSUME NEW x PROVE x \in Said(f) <=> x \in Said(g)
  BY SaidPairs
<1> QED
  BY <1>1 DEF Said

\* What is said once attributes are added to a DN.
AttrsAdded(f, g, dn, attrs) ==
    /\ dn # Temp /\ DOMAIN g = (DOMAIN f \cup {dn}) \ {Temp}
    /\ g[dn].attrs = (IF dn \in DOMAIN f THEN f[dn].attrs ELSE {}) \cup attrs
    /\ \A e \in DOMAIN f \ {Temp, dn} : g[e] = f[e]

\* The attributes are said of the DN, besides what was said before.
LEMMA SaidMore ==
    ASSUME NEW f, NEW g, NEW dn, NEW attrs, AttrsAdded(f, g, dn, attrs)
    PROVE  Said(g) = Said(f) \cup ({dn} \X (attrs \cup {"named"}))
<1> USE DEF AttrsAdded
<1>1. ASSUME NEW x \in Said(g)
      PROVE  x \in Said(f) \cup ({dn} \X (attrs \cup {"named"}))
  <2>0. PICK d \in DOMAIN g \ {Temp} :
          \E a \in g[d].attrs \cup {"named"} : x = <<d, a>>
    BY <1>1, SaidPairs
  <2>1. PICK a \in g[d].attrs \cup {"named"} : x = <<d, a>>
    BY <2>0
  <2>2. CASE d # dn
    <3>1. d \in DOMAIN f \ {Temp} /\ a \in f[d].attrs \cup {"named"}
      BY <2>1, <2>2
    <3> QED
      BY <2>1, <3>1, SaidPairs
  <2>3. CASE d = dn /\ a \in attrs \cup {"named"}
    BY <2>1, <2>3
  <2>4. CASE d = dn /\ a \notin attrs \cup {"named"}
    <3>1. d \in DOMAIN f \ {Temp} /\ a \in f[d].attrs \cup {"named"}
      BY <2>1, <2>4
    <3> QED
      BY <2>1, <3>1, SaidPairs
  <2> QED
    BY <2>2, <2>3, <2>4
<1>2. ASSUME NEW x \in Said(f) PROVE x \in Said(g)
  <2>0. PICK d \in DOMAIN f \ {Temp} :
          \E a \in f[d].attrs \cup {"named"} : x = <<d, a>>
    BY <1>2, SaidPairs
  <2>1. PICK a \in f[d].attrs \cup {"named"} : x = <<d, a>>
    BY <2>0
  <2>2. d \in DOMAIN g \ {Temp} /\ a \in g[d].attrs \cup {"named"}
    BY <2>1
  <2> QED
    BY <2>1, <2>2, SaidPairs
<1>3. ASSUME NEW x \in {dn} \X (attrs \cup {"named"}) PROVE x \in Said(g)
  <2>1. PICK a \in attrs \cup {"named"} : x = <<dn, a>>
    BY <1>3
  <2>2. dn \in DOMAIN g \ {Temp} /\ a \in g[dn].attrs \cup {"named"}
    BY <2>1
  <2> QED
    BY <2>1, <2>2, SaidPairs
<1> QED
  BY <1>1, <1>2, <1>3

-----------------------------------------------------------------------------
(***************************************************************************)
(* One lemma per action.                                                   *)
(***************************************************************************)
\* An event that is not pushed again stays right as long as nothing more
\* goes wrong.
LEMMA EventKept ==
    ASSUME EventInv, UNCHANGED eventVars, faults \subseteq faults'
    PROVE  EventInv'
  BY DEF EventInv, EventTypesFit, EventTellsChanges, eventVars

\* An overflow event says nothing of any object.
LEMMA EventOverflow ==
    ASSUME event' = Overflow
    PROVE  EventInv'
<1>1. event'.type = "overflow" /\ DOMAIN event'.dns = {}
  BY DEF Overflow
<1> QED
  BY <1>1 DEF EventInv, EventTypesFit, EventTellsChanges

\* A notification arrives: nothing is under the temporary key.
LEMMA NotifyContent ==
    ASSUME ContentInv, Notify
    PROVE  ContentInv'
<1> USE DEF ContentInv
<1>1. PICK obj \in Objects, kind \in EventTypes :
        \E ccb \in (IF obj \in Runtime THEN {0} ELSE Ccbs \ ended),
           attrs \in (IF kind = "delete" THEN {{}} ELSE SUBSET AttributesOf(obj)),
           last \in (IF obj \in Runtime THEN {FALSE} ELSE BOOLEAN) :
             convertCMNotificationHeader(
                 [obj |-> obj, kind |-> kind, ccb |-> ccb, attrs |-> attrs,
                  last |-> last])
  BY DEF Notify
<1>2. PICK ccb, attrs, last :
        /\ kind = "delete" => attrs = {}
        /\ attrs \subseteq AttributesOf(obj)
        /\ convertCMNotificationHeader(
              [obj |-> obj, kind |-> kind, ccb |-> ccb, attrs |-> attrs,
               last |-> last])
  BY <1>1
<1> DEFINE n == [obj |-> obj, kind |-> kind, ccb |-> ccb, attrs |-> attrs,
                 last |-> last]
<1>3. /\ current = NoNotification
      /\ current' = [pc |-> "attributes", obj |-> n.obj, kind |-> n.kind,
                     ccb |-> ccbIdRead(n), last |-> ccbLastRead(n),
                     todo |-> IF isDiscardedCcb(ccbIdRead(n)) THEN {} ELSE n.attrs,
                     added |-> {}, send |-> sendsetDnInCmCache(n)]
      /\ UNCHANGED <<cacheVars, eventVars>> /\ faults \subseteq faults'
  BY <1>2 DEF convertCMNotificationHeader
<1>4. CacheInv' /\ EventInv'
  BY <1>3, ConvertInv, EventKept
<1>5. KindOK'
  <2>1. kind = "delete" => current'.todo = {} /\ current'.added = {}
    BY <1>2, <1>3
  <2>2. current'.todo # {} => sendsetDnInCmCache(n)
    <3>1. attrs # {} => obj \in Structs \/ obj \notin Unnotified
      BY <1>2 DEF AttributesOf
    <3> QED
      BY <1>2, <1>3, <3>1 DEF sendsetDnInCmCache, EventTypes
  <2> QED
    BY <1>3, <2>1, <2>2 DEF KindOK
<1>6. MapOK' /\ FitInv' /\ NotedInv'
  BY <1>3 DEF MapOK, FitInv, NotedInv, NoLeftover, cacheVars
<1>7. TempInv'
  <2>1. ~current.send /\ current'.added = {}
    BY <1>3 DEF NoNotification
  <2>2. NoLeftover' => \A c : ~HasTemp(c)'
    BY <1>3, <2>1 DEF TempInv, NoLeftover, HasTemp, cacheVars
  <2> QED
    BY <2>1, <2>2 DEF TempInv
<1> QED
  BY <1>4, <1>5, <1>6, <1>7

\* The cache is thrown away: if all of it is, nothing is left to be wrong.
LEMMA DiscardedContent ==
    ASSUME MapOK, NotedInv, NEW C, NEW forgotten, Discarded(C, forgotten),
           ~current'.send
    PROVE  MapOK' /\ TempInv' /\ FitInv' /\ NotedInv' /\ EventInv'
<1> USE DEF Discarded
<1>1. /\ DOMAIN cacheMap' = DOMAIN cacheMap \ C
      /\ \A b \in DOMAIN cacheMap' : cacheMap'[b] = cacheMap[b]
  BY WithoutCcbsOK
<1>2. MapOK'
  BY <1>1 DEF MapOK
<1>3. NoLeftover' => DOMAIN cacheMap' = {} /\ C = DOMAIN cacheMap
  BY <1>1 DEF NoLeftover
<1>4. TempInv' /\ FitInv'
  BY <1>3 DEF TempInv, FitInv, HasTemp
<1>5. NotedInv'
  <2>1. noted' \in [CcbIds -> SUBSET (Mos \X (Attributes \cup {"named"}))]
    BY DEF NotedInv
  <2>2. NoLeftover' => NoLeftover
    BY DEF NoLeftover
  <2>3. ASSUME NoLeftover', NEW c \in CcbIds PROVE noted'[c] = {}
    BY <1>3, <2>2, <2>3 DEF NotedInv
  <2> QED
    BY <1>3, <2>1, <2>3 DEF NotedInv
<1> QED
  BY <1>2, <1>4, <1>5, EventOverflow

\* An attribute is put under the temporary key, or is not.
LEMMA AddAttrContent ==
    ASSUME ContentInv, NEW attr \in {"simple", "struct", "member"}, addAttr(attr)
    PROVE  ContentInv'
<1> USE DEF ContentInv
<1> DEFINE c == current.ccb
           type == getAttrType(attr)
<1>0. CurrentOK /\ CacheInv'
  BY AddAttrInv DEF CacheInv
<1>1. /\ current.pc = "attributes" /\ attr \in current.todo /\ type \in Attributes
  BY <1>0, AddAttrCases
<1>2. current \in [pc : {"attributes", "dn"}, obj : Objects,
                   kind : EventTypes, ccb : CcbIds, last : BOOLEAN,
                   todo : SUBSET {"simple", "struct", "member"},
                   added : SUBSET Attributes, send : BOOLEAN]
  BY <1>0, <1>1, UnderWay
<1>3. current.send /\ current.kind # "delete"
  BY <1>1 DEF KindOK
<1>4. CASE /\ discardAllCcbs({})
           /\ current' = [current EXCEPT !.todo = {}, !.send = FALSE]
  <2>1. PICK C : Discarded(C, {})
    BY <1>4, DiscardCases
  <2>2. ~current'.send /\ KindOK'
    BY <1>2, <1>4 DEF KindOK
  <2> QED
    BY <1>0, <2>1, <2>2, DiscardedContent
<1>5. CASE /\ \E put : Stored(type, put)
           /\ current' = [current EXCEPT !.todo = @ \ {attr},
                                         !.added = @ \cup {type}]
           /\ UNCHANGED <<discardedCcbList, partial, noted, eventVars, faults>>
  <2>1. PICK put : Stored(type, put)
    BY <1>5
  <2>2. /\ DOMAIN cacheMap' = DOMAIN cacheMap \cup {c} /\ cacheMap'[c] = put
        /\ \A b \in DOMAIN cacheMap : b # c => cacheMap'[b] = cacheMap[b]
    <3>1. cacheMap' = WithCcb(c, put)
      BY <2>1 DEF Stored
    <3> HIDE DEF c
    <3> QED
      BY <3>1, Zenon DEF WithCcb
  <2>3. /\ current'.send /\ current'.ccb = c /\ current'.kind # "delete"
        /\ current'.added = current.added \cup {type}
    BY <1>2, <1>3, <1>5
  <2>4. KindOK' /\ EventInv'
    BY <1>5, <2>3, EventKept DEF KindOK
  <2>5. MapOK'
    BY <1>2, <2>1, <2>2 DEF MapOK, Stored
  <2>6. TempInv'
    <3> SUFFICES ASSUME NoLeftover
                 PROVE  /\ \A b : HasTemp(b)' => b = c
                        /\ HasTemp(c)'
                        /\ put.dns[Temp].attrs = current.added \cup {type}
      BY <1>5, <2>2, <2>3 DEF TempInv, NoLeftover
    <3>1. \A b : HasTemp(b)' => b = c
      BY <2>2 DEF HasTemp, TempInv
    <3>2. HasTemp(c)'
      BY <2>1, <2>2, <2>3 DEF HasTemp, Stored
    <3>3. tempCache(c).attrs = current.added
      BY <1>3, TempCacheOK DEF TempInv
    <3> QED
      BY <2>1, <3>1, <3>2, <3>3 DEF Stored
  <2>7. \A e \in DOMAIN put.dns \ {Temp} :
           c \in DOMAIN cacheMap /\ e \in DOMAIN cacheMap[c].dns \ {Temp}
             /\ put.dns[e] = cacheMap[c].dns[e]
    BY <2>1, CcbCacheOK DEF Stored
  <2>8. FitInv'
    BY <1>5, <2>2, <2>7 DEF FitInv, NoLeftover
  <2>9. NotedInv'
    <3> SUFFICES ASSUME NoLeftover
                 PROVE  Said(put.dns) = IF c \in DOMAIN cacheMap
                                        THEN Said(cacheMap[c].dns) ELSE {}
      BY <1>2, <1>5, <2>2 DEF NotedInv, NoLeftover
    <3>1. CASE c \in DOMAIN cacheMap
      <4>1. DOMAIN put.dns \ {Temp} = DOMAIN cacheMap[c].dns \ {Temp}
        BY <2>1, <3>1, CcbCacheOK DEF Stored
      <4> QED
        BY <2>7, <3>1, <4>1, SaidSame
    <3>2. CASE c \notin DOMAIN cacheMap
      BY <2>7, <3>2, SaidPairs
    <3> QED
      BY <3>1, <3>2
  <2> QED
    BY <1>0, <2>4, <2>5, <2>6, <2>8, <2>9
<1>6. CASE /\ current' = [current EXCEPT !.todo = @ \ {attr}]
           /\ UNCHANGED <<cacheVars, eventVars, faults>>
  <2>1. KindOK' /\ EventInv'
    BY <1>2, <1>3, <1>6, EventKept DEF KindOK
  <2>2. MapOK' /\ FitInv' /\ NotedInv'
    BY <1>6 DEF MapOK, FitInv, NotedInv, NoLeftover, cacheVars
  <2>3. /\ current'.send = current.send /\ current'.ccb = current.ccb
        /\ current'.added = current.added
    BY <1>2, <1>6
  <2>4. TempInv'
    BY <1>6, <2>3 DEF TempInv, HasTemp, NoLeftover, cacheVars
  <2> QED
    BY <1>0, <2>1, <2>2, <2>4
<1> QED
  BY <1>0, <1>4, <1>5, <1>6, AddAttrCases

\* The DN is translated, or what the notification added stays behind.
LEMMA ConvertDnContent ==
    ASSUME ContentInv, convertTo3GPPDN
    PROVE  ContentInv'
<1> USE DEF ContentInv
<1>0. CacheInv' /\ EventInv'
  BY ConvertDnInv, EventKept DEF convertTo3GPPDN, Note
<1>1. UNCHANGED cacheVars /\ faults \subseteq faults'
  BY DEF convertTo3GPPDN, Note
<1>2. MapOK' /\ FitInv' /\ NotedInv'
  BY <1>1 DEF MapOK, FitInv, NotedInv, NoLeftover, cacheVars
<1>3. CASE current' = [current EXCEPT !.pc = "dn"] /\ UNCHANGED faults
  <2>1. current.pc # "none"
    BY DEF convertTo3GPPDN
  <2>2. /\ current'.kind = current.kind /\ current'.todo = current.todo
        /\ current'.added = current.added /\ current'.send = current.send
        /\ current'.ccb = current.ccb
    BY <1>3, <2>1, UnderWay DEF CacheInv
  <2>3. KindOK' /\ TempInv'
    BY <1>1, <1>3, <2>2 DEF KindOK, TempInv, HasTemp, NoLeftover, cacheVars
  <2> QED
    BY <1>0, <1>2, <2>3
<1>4. CASE current' = NoNotification /\ Note("dn", TRUE)
  <2>1. KindOK' /\ TempInv'
    BY <1>4 DEF KindOK, TempInv, NoLeftover, NoNotification, Note
  <2> QED
    BY <1>0, <1>2, <2>1
<1> QED
  BY <1>3, <1>4 DEF convertTo3GPPDN

\* What setDn collects for the CCB is what was said of it, and each DN has a
\* type that fits its attributes.
LEMMA CollectedFits ==
    ASSUME ContentInv, NoLeftover, current.pc = "dn", current.send,
           NEW k, Collected(k)
    PROVE  /\ Said(k.dns) = SaidNow
           /\ \A e \in DOMAIN k.dns : DnFits(k.dns[e])
<1> USE DEF ContentInv
<1> DEFINE c == current.ccb
           dn == DnOf(current.obj)
           old == CcbCache(c).dns
           new == dnCacheSet(CcbCache(c), dn, current.kind)
<1>1. /\ current.obj \in Objects /\ current.kind \in EventTypes
      /\ c \in CcbIds /\ dn \in Mos /\ dn # Temp
  BY UnderWay, DnOfObject DEF CacheInv
<1>2. noted[c] = Said(old)
  <2>1. CASE c \in DOMAIN cacheMap
    BY <1>1, <2>1, CcbCacheOK DEF NotedInv
  <2>2. CASE c \notin DOMAIN cacheMap
    <3>1. noted[c] = {} /\ DOMAIN old = {}
      BY <1>1, <2>2, CcbCacheOK DEF NotedInv
    <3>2. Said(old) = {}
      BY <3>1 DEF Said
    <3> QED
      BY <3>1, <3>2
  <2> QED
    BY <2>1, <2>2
<1>3. /\ tempCache(c).attrs = current.added
      /\ HasTemp(c) <=> current.added # {}
  BY TempCacheOK DEF TempInv
<1>4. /\ DOMAIN k.dns = (DOMAIN old \cup {dn}) \ {Temp}
      /\ k.dns[dn] = new
      /\ \A e \in DOMAIN old \ {Temp, dn} : k.dns[e] = old[e]
  BY DEF Collected
<1>5. /\ new \in DnCaches
      /\ new.attrs = (IF dn \in DOMAIN old THEN old[dn].attrs ELSE {})
                        \cup current.added
      /\ dn \in DOMAIN old => old[dn].eventTypeSet \subseteq new.eventTypeSet
      /\ dn \in DOMAIN old => new.runtimeStruct = old[dn].runtimeStruct
      /\ dn \notin DOMAIN old \/ HasTemp(c) => current.kind \in new.eventTypeSet
  BY <1>1, <1>3, DnCacheSetOK
<1>6. \A e \in DOMAIN old \ {Temp} : DnFits(old[e])
  BY CcbCacheOK DEF FitInv
<1>7. current.added # {} => current.kind # "delete"
  BY DEF KindOK
<1> HIDE DEF old, new, dn
<1>8. Said(k.dns) = Said(old) \cup ({dn} \X (current.added \cup {"named"}))
  <2>1. AttrsAdded(old, k.dns, dn, current.added)
    BY <1>1, <1>4, <1>5 DEF AttrsAdded
  <2> QED
    BY <2>1, SaidMore
<1>9. DnFits(new)
  <2>1. CASE current.added # {}
    BY <1>1, <1>3, <1>5, <1>7, <2>1 DEF DnFits, EventTypes
  <2>2. CASE current.added = {} /\ dn \in DOMAIN old
    <3>1. DnFits(old[dn])
      BY <1>1, <1>6, <2>2
    <3> QED
      BY <1>5, <2>2, <3>1 DEF DnFits
  <2>3. CASE current.added = {} /\ dn \notin DOMAIN old
    BY <1>5, <2>3 DEF DnFits
  <2> QED
    BY <2>1, <2>2, <2>3
<1>10. \A e \in DOMAIN k.dns : DnFits(k.dns[e])
  BY <1>4, <1>6, <1>9
<1> QED
  BY <1>2, <1>8, <1>10 DEF SaidNow, dn

\* The event that is made of it tells that.
LEMMA BuiltEventFits ==
    ASSUME NEW k, IsCcbCache(k), Temp \notin DOMAIN k.dns,
           event' = buildEventStruct(k), expected' = SaidNow,
           NoLeftover' => /\ Said(k.dns) = SaidNow
                          /\ \A e \in DOMAIN k.dns : DnFits(k.dns[e])
    PROVE  EventInv'
<1>1. /\ event'.type = "changes" /\ DOMAIN event'.dns = DOMAIN k.dns
      /\ \A d \in DOMAIN k.dns : /\ event'.dns[d].type = getEventType(k.dns[d])
                                 /\ event'.dns[d].attrs = k.dns[d].attrs
  BY DEF buildEventStruct
<1>2. DOMAIN event'.dns \subseteq Mos
  BY <1>1 DEF IsCcbCache
<1>3. ASSUME NEW d \in DnCaches, DnFits(d)
      PROVE  /\ getEventType(d) # "overflow"
             /\ getEventType(d) = "delete" => d.attrs = {}
  BY <1>3 DEF DnFits, getEventType, EventTypes, DnCaches
<1>4. EventTypesFit'
  BY <1>1, <1>3 DEF EventTypesFit, NoLeftover, IsCcbCache
<1>5. EventTellsChanges'
  <2>1. Said(k.dns) = UNION {{d} \X (event'.dns[d].attrs \cup {"named"}) :
                                d \in DOMAIN event'.dns}
    <3>1. DOMAIN k.dns \ {Temp} = DOMAIN event'.dns
      BY <1>1
    <3>2. \A d \in DOMAIN event'.dns : event'.dns[d].attrs = k.dns[d].attrs
      BY <1>1
    <3>3. \A x : x \in Said(k.dns) <=> \E d \in DOMAIN event'.dns :
                  x \in {d} \X (event'.dns[d].attrs \cup {"named"})
      BY <3>1, <3>2 DEF Said
    <3> QED
      BY <3>3 DEF Said
  <2> QED
    BY <2>1 DEF EventTellsChanges, NoLeftover
<1> QED
  BY <1>2, <1>4, <1>5 DEF EventInv

\* The notification is ended: its attributes are put under its DN, the event
\* is pushed or the cache thrown away.
LEMMA SetDnContent ==
    ASSUME ContentInv, setDnInCmCache
    PROVE  ContentInv'
<1> USE DEF ContentInv
<1> DEFINE c == current.ccb
           dn == DnOf(current.obj)
<1>0. /\ CacheInv' /\ current' = NoNotification /\ current.pc = "dn"
      /\ ~current'.send /\ KindOK'
  BY SetDnInv DEF setDnInCmCache, NoNotification, KindOK
<1>1. CASE ~current.send /\ UNCHANGED <<cacheMap, noted, eventVars, faults>>
  <2>1. MapOK' /\ FitInv' /\ NotedInv' /\ EventInv'
    BY <1>1, EventKept DEF MapOK, FitInv, NotedInv, NoLeftover
  <2>2. TempInv'
    BY <1>0, <1>1 DEF TempInv, HasTemp, NoLeftover
  <2> QED
    BY <1>0, <2>1, <2>2
<1>2. CASE discardAllCcbs(ccbsForgotten)
  <2>1. PICK C : Discarded(C, ccbsForgotten)
    BY <1>2, DiscardCases
  <2> QED
    BY <1>0, <2>1, DiscardedContent
<1>3. CASE current.send /\ setDn
  <2>1. PICK k : /\ Collected(k)
                 /\ \/ /\ ~lastInCcb /\ cacheMap' = WithCcb(c, k)
                       /\ noted' = [noted EXCEPT ![c] = SaidNow]
                       /\ UNCHANGED <<eventVars, faults>>
                    \/ /\ lastInCcb
                       /\ cacheMap' = WithoutCcbs({c})
                       /\ noted' = [noted EXCEPT ![c] = {}]
                       /\ \/ /\ current.kind = "change" /\ k.dns[dn].attrs = {}
                             /\ Note("empty", DOMAIN k.dns # {dn})
                             /\ UNCHANGED eventVars
                          \/ /\ event' = buildEventStruct(k)
                             /\ expected' = SaidNow
                             /\ UNCHANGED faults
    BY <1>0, <1>3, SetDnCases DEF CacheInv
  <2>2. /\ current.obj \in Objects /\ c \in CcbIds /\ dn \in Mos /\ dn # Temp
        /\ current.added \subseteq Attributes
    BY <1>0, UnderWay, DnOfObject DEF CacheInv
  <2>3. IsCcbCache(k) /\ Temp \notin DOMAIN k.dns
    BY <2>1 DEF Collected
  <2>4. NoLeftover => /\ Said(k.dns) = SaidNow
                      /\ \A e \in DOMAIN k.dns : DnFits(k.dns[e])
    BY <1>0, <1>3, <2>1, CollectedFits
  <2>5. NoLeftover' => NoLeftover
    BY <2>1 DEF NoLeftover, Note
  <2>6. NoLeftover => \A b \in DOMAIN cacheMap :
            b # c => Temp \notin DOMAIN cacheMap[b].dns
    BY DEF TempInv, HasTemp
  <2>7. SaidNow \in SUBSET (Mos \X (Attributes \cup {"named"}))
    BY <2>2 DEF SaidNow, NotedInv
  <2>8. EventInv'
    <3>1. CASE UNCHANGED eventVars
      <4>1. faults \subseteq faults'
        BY <2>1 DEF Note
      <4> QED
        BY <3>1, <4>1, EventKept
    <3>2. CASE event' = buildEventStruct(k) /\ expected' = SaidNow
      BY <2>3, <2>4, <2>5, <3>2, BuiltEventFits
    <3> QED
      BY <2>1, <3>1, <3>2
  <2> HIDE DEF c
  <2>9. CASE cacheMap' = WithCcb(c, k) /\ noted' = [noted EXCEPT ![c] = SaidNow]
    <3>1. /\ DOMAIN cacheMap' = DOMAIN cacheMap \cup {c} /\ cacheMap'[c] = k
          /\ \A b \in DOMAIN cacheMap : b # c => cacheMap'[b] = cacheMap[b]
      BY <2>9, Zenon DEF WithCcb
    <3>2. MapOK'
      BY <2>2, <2>3, <3>1 DEF MapOK
    <3>3. TempInv'
      BY <1>0, <2>3, <2>5, <2>6, <3>1 DEF TempInv, HasTemp
    <3>4. FitInv'
      BY <2>4, <2>5, <3>1 DEF FitInv
    <3>5. NotedInv'
      <4>1. /\ noted' \in [CcbIds -> SUBSET (Mos \X (Attributes \cup {"named"}))]
            /\ noted'[c] = SaidNow
            /\ \A b \in CcbIds : b # c => noted'[b] = noted[b]
        BY <2>2, <2>7, <2>9 DEF NotedInv
      <4> QED
        BY <2>4, <2>5, <3>1, <4>1 DEF NotedInv
    <3> QED
      BY <1>0, <2>8, <3>2, <3>3, <3>4, <3>5
  <2>10. CASE cacheMap' = WithoutCcbs({c}) /\ noted' = [noted EXCEPT ![c] = {}]
    <3>1. /\ DOMAIN cacheMap' = DOMAIN cacheMap \ {c}
          /\ \A b \in DOMAIN cacheMap' : cacheMap'[b] = cacheMap[b]
      BY <2>10 DEF WithoutCcbs, Restrict
    <3>2. MapOK'
      BY <3>1 DEF MapOK
    <3>3. TempInv'
      BY <1>0, <2>5, <2>6, <3>1 DEF TempInv, HasTemp
    <3>4. FitInv'
      BY <2>5, <3>1 DEF FitInv
    <3>5. NotedInv'
      <4>1. /\ noted' \in [CcbIds -> SUBSET (Mos \X (Attributes \cup {"named"}))]
            /\ noted'[c] = {}
            /\ \A b \in CcbIds : b # c => noted'[b] = noted[b]
        BY <2>2, <2>10 DEF NotedInv
      <4> QED
        BY <2>5, <3>1, <4>1 DEF NotedInv
    <3> QED
      BY <1>0, <2>8, <3>2, <3>3, <3>4, <3>5
  <2> QED
    BY <2>1, <2>9, <2>10 DEF c
<1> QED
  BY <1>1, <1>2, <1>3 DEF setDnInCmCache

\* The service is closed, and nothing is left.
LEMMA StopContent ==
    ASSUME ContentInv, stop_CmEventHandler
    PROVE  ContentInv'
<1> USE DEF ContentInv
<1>1. CacheInv'
  BY CacheStep DEF Next
<1>2. /\ cacheMap' = << >> /\ noted' = [c \in CcbIds |-> {}]
      /\ UNCHANGED <<current, eventVars, faults>> /\ ~current.send
  BY DEF stop_CmEventHandler, NoNotification
<1>3. DOMAIN cacheMap' = {}
  BY <1>2
<1>4. MapOK' /\ TempInv' /\ FitInv' /\ NotedInv'
  BY <1>2, <1>3 DEF MapOK, TempInv, HasTemp, FitInv, NotedInv
<1>5. KindOK' /\ EventInv'
  BY <1>2, EventKept DEF KindOK
<1> QED
  BY <1>1, <1>4, <1>5

\* The steps that leave the cache and the notification alone.
LEMMA QuietContent ==
    ASSUME ContentInv, UNCHANGED <<cacheVars, current>>, faults \subseteq faults',
           UNCHANGED eventVars \/ event' = Overflow
    PROVE  ContentInv'
<1> USE DEF ContentInv
<1>1. CacheInv' /\ MapOK' /\ KindOK' /\ FitInv' /\ NotedInv'
  BY DEF CacheInv, CurrentOK, StillWanted, DiscardedNotCached, MapOK, KindOK,
         FitInv, NotedInv, NoLeftover, cacheVars
<1>2. TempInv'
  BY DEF TempInv, HasTemp, NoLeftover, cacheVars
<1>3. EventInv'
  BY EventKept, EventOverflow
<1> QED
  BY <1>1, <1>2, <1>3

\* Nothing is collected in the beginning.
LEMMA ContentInit == Init => ContentInv
<1> SUFFICES ASSUME Init PROVE ContentInv
  OBVIOUS
<1>1. CacheInv
  BY CacheInit
<1>2. DOMAIN cacheMap = {} /\ noted = [c \in CcbIds |-> {}]
  BY DEF Init
<1>3. MapOK /\ TempInv /\ FitInv /\ NotedInv /\ KindOK
  BY <1>2 DEF Init, MapOK, TempInv, HasTemp, FitInv, NotedInv, KindOK,
              NoNotification
<1>4. EventInv
  <2>1. event.dns = << >> /\ DOMAIN event.dns = {} /\ expected = {}
    BY DEF Init
  <2> QED
    BY <2>1 DEF EventInv, EventTypesFit, EventTellsChanges
<1> QED
  BY <1>1, <1>3, <1>4 DEF ContentInv

\* Every step keeps the invariant.
LEMMA ContentStep == ContentInv /\ [Next]_vars => ContentInv'
<1> SUFFICES ASSUME ContentInv, [Next]_vars PROVE ContentInv'
  OBVIOUS
<1>1. CASE start_CmEventHandler \/ RegexpFilter \/ pushOverflow \/ UNCHANGED vars
  <2>1. /\ UNCHANGED <<cacheVars, current>> /\ faults \subseteq faults'
        /\ UNCHANGED eventVars \/ event' = Overflow
    BY <1>1 DEF start_CmEventHandler, RegexpFilter, pushOverflow, vars, Note
  <2> QED
    BY <2>1, QuietContent
<1>2. CASE stop_CmEventHandler
  BY <1>2, StopContent
<1>3. CASE Notify
  BY <1>3, NotifyContent
<1>4. ASSUME NEW attr \in {"simple", "struct", "member"}, addAttr(attr)
      PROVE  ContentInv'
  BY <1>4, AddAttrContent
<1>5. CASE convertTo3GPPDN \/ setDnInCmCache
  BY <1>5, ConvertDnContent, SetDnContent
<1> QED
  BY <1>1, <1>2, <1>3, <1>4, <1>5 DEF Next

(***************************************************************************)
(* The event of a CCB carries every attribute of every object that its     *)
(* notifications named since the cache was last thrown away, under the     *)
(* right DN, and no other, unless a DN was not translated or               *)
(* discardAllCcbs went wrong.                                              *)
(***************************************************************************)
THEOREM EventsComplete == Spec => []EventTellsChanges
<1>1. ContentInv => EventTellsChanges
  BY DEF ContentInv, EventInv
<1> QED
  BY ContentInit, ContentStep, <1>1, PTL DEF Spec

(***************************************************************************)
(* The type in an event fits: no object's event is an overflow, and the    *)
(* deletion of an object comes without attributes, whatever a CCB did to   *)
(* the object and its structs before.                                      *)
(***************************************************************************)
THEOREM EventsTyped == Spec => []EventTypesFit
<1>1. ContentInv => EventTypesFit
  BY DEF ContentInv, EventInv
<1> QED
  BY ContentInit, ContentStep, <1>1, PTL DEF Spec

-----------------------------------------------------------------------------
(***************************************************************************)
(* What is left of a CCB that has ended.  Between the last notification of *)
(* a CCB and its end the CCB may be in the cache or on the list; but the   *)
(* notification then under way is its own and marked as its last, and will *)
(* take it off either.                                                     *)
(***************************************************************************)
EndedOK ==
    /\ ended \subseteq Ccbs
    /\ current.last => current.ccb \in ended

NothingMissed == faults \cap {"dn", "unnotified", "struct", "iterator"} = {}

EndedInv ==
    NothingMissed =>
        /\ \A c \in ended : c \in DOMAIN cacheMap \cup discardedCcbList =>
                                current.ccb = c /\ current.last
        /\ current.ccb \in ended => current.last
        /\ current.last /\ ~current.send => current.ccb \notin DOMAIN cacheMap

LeftInv == CacheInv /\ MapOK /\ KindOK /\ EndedOK /\ EndedInv

\* The id 0 of the runtime objects is not that of a CCB.
LEMMA ZeroNotEnded == EndedOK => 0 \notin ended
  BY ConstantsAssumption DEF EndedOK

\* Without a fault the last notification of a CCB is read as such.
LEMMA NotifyLeft ==
    ASSUME LeftInv, Notify
    PROVE  EndedOK' /\ EndedInv'
<1> USE DEF LeftInv
<1>1. PICK obj \in Objects, kind \in EventTypes :
        \E ccb \in (IF obj \in Runtime THEN {0} ELSE Ccbs \ ended),
           attrs \in (IF kind = "delete" THEN {{}} ELSE SUBSET AttributesOf(obj)),
           last \in (IF obj \in Runtime THEN {FALSE} ELSE BOOLEAN) :
             convertCMNotificationHeader(
                 [obj |-> obj, kind |-> kind, ccb |-> ccb, attrs |-> attrs,
                  last |-> last])
  BY DEF Notify
<1>2. PICK ccb, attrs, last :
        /\ last \in BOOLEAN
        /\ ccb = 0 \/ ccb \in Ccbs \ ended
        /\ last => ccb \in Ccbs
        /\ convertCMNotificationHeader(
              [obj |-> obj, kind |-> kind, ccb |-> ccb, attrs |-> attrs,
               last |-> last])
  BY <1>1
<1> DEFINE n == [obj |-> obj, kind |-> kind, ccb |-> ccb, attrs |-> attrs,
                 last |-> last]
<1>3. /\ current = NoNotification
      /\ current' = [pc |-> "attributes", obj |-> n.obj, kind |-> n.kind,
                     ccb |-> ccbIdRead(n), last |-> ccbLastRead(n),
                     todo |-> IF isDiscardedCcb(ccbIdRead(n)) THEN {} ELSE n.attrs,
                     added |-> {}, send |-> sendsetDnInCmCache(n)]
      /\ ended' = IF n.last THEN ended \cup {n.ccb} ELSE ended
      /\ UNCHANGED cacheVars /\ faults \subseteq faults'
      /\ n.last /\ isDiscardedCcb(n.ccb) /\ n.obj \in Structs
           /\ ~ccbLastRead(n) => "struct" \in faults'
      /\ n.last /\ (\/ ccbIdRead(n) # n.ccb
                    \/ ~(sendsetDnInCmCache(n) \/ isDiscardedCcb(n.ccb)))
           => "unnotified" \in faults'
  BY <1>2 DEF convertCMNotificationHeader
<1>4. n.obj = obj /\ n.kind = kind /\ n.ccb = ccb /\ n.last = last
  OBVIOUS
<1> HIDE DEF n
<1>5. /\ ccbIdRead(n) \in {0, ccb}
      /\ ccbLastRead(n) => last /\ ccbIdRead(n) = ccb
  BY <1>4 DEF ccbIdRead, ccbLastRead
<1>6. EndedOK'
  BY <1>2, <1>3, <1>4, <1>5 DEF EndedOK
<1>7. ASSUME NothingMissed' PROVE EndedInv'
  <2>0. NothingMissed
    BY <1>3, <1>7 DEF NothingMissed
  <2>1. /\ ~current.last /\ 0 \notin ended
        /\ \A c \in ended : c \notin DOMAIN cacheMap \cup discardedCcbList
    BY <1>3, <2>0, ZeroNotEnded DEF EndedInv, NoNotification
  <2>2. /\ current'.ccb = ccbIdRead(n) /\ current'.last = ccbLastRead(n)
        /\ current'.send = sendsetDnInCmCache(n)
    BY <1>3
  <2>3. last => /\ ccbIdRead(n) = ccb
                /\ sendsetDnInCmCache(n) \/ isDiscardedCcb(ccb)
    BY <1>3, <1>4, <1>7 DEF NothingMissed
  <2>4. last => ccbLastRead(n)
    <3> SUFFICES ASSUME last PROVE ccbLastRead(n)
      OBVIOUS
    <3>1. ~(kind = "delete" /\ obj \in Unnotified)
      BY <1>2, <1>4, <2>3, ConstantsAssumption DEF ccbIdRead
    <3>2. obj \in Structs /\ isDiscardedCcb(ccb) => ccbLastRead(n)
      BY <1>3, <1>4, <1>7 DEF NothingMissed
    <3> QED
      BY <1>4, <3>1, <3>2 DEF ccbLastRead
  <2>5. \A c \in ended' : c \in (DOMAIN cacheMap \cup discardedCcbList)' =>
                               current'.ccb = c /\ current'.last
    BY <1>3, <1>4, <2>1, <2>2, <2>3, <2>4 DEF cacheVars
  <2>6. current'.ccb \in ended' => current'.last
    BY <1>2, <1>3, <1>4, <1>5, <2>1, <2>2, <2>4
  <2>7. current'.last /\ ~current'.send => current'.ccb \notin DOMAIN cacheMap'
    BY <1>3, <1>5, <2>2, <2>3 DEF CacheInv, DiscardedNotCached, isDiscardedCcb,
                                  cacheVars
  <2> QED
    BY <2>5, <2>6, <2>7 DEF EndedInv
<1> QED
  BY <1>6, <1>7 DEF EndedInv

\* When the cache is thrown away, a CCB that has ended is on the list only.
LEMMA DiscardLeft ==
    ASSUME EndedInv, NEW C, NEW forgotten, Discarded(C, forgotten), NothingMissed'
    PROVE  /\ DOMAIN cacheMap' = {} /\ NothingMissed
           /\ \A c \in ended : c \in discardedCcbList' =>
                  c \notin forgotten /\ current.ccb = c /\ current.last
<1>1. NothingMissed /\ C = DOMAIN cacheMap
  BY DEF Discarded, NothingMissed
<1>2. DOMAIN cacheMap' = {}
  BY <1>1, WithoutCcbsOK DEF Discarded
<1> QED
  BY <1>1, <1>2 DEF EndedInv, Discarded

\* An attribute of a CCB that has ended belongs to its last notification.
LEMMA AddAttrLeft ==
    ASSUME LeftInv, NEW attr \in {"simple", "struct", "member"}, addAttr(attr)
    PROVE  EndedOK' /\ EndedInv'
<1> USE DEF LeftInv
<1>0. CurrentOK
  BY DEF CacheInv
<1>1. current.pc = "attributes" /\ attr \in current.todo /\ UNCHANGED ended
  BY <1>0, AddAttrCases DEF ntfVars
<1>2. current \in [pc : {"attributes", "dn"}, obj : Objects,
                   kind : EventTypes, ccb : CcbIds, last : BOOLEAN,
                   todo : SUBSET {"simple", "struct", "member"},
                   added : SUBSET Attributes, send : BOOLEAN]
  BY <1>0, <1>1, UnderWay
<1>3. current.send
  BY <1>1 DEF KindOK
<1>4. CASE /\ discardAllCcbs({})
           /\ current' = [current EXCEPT !.todo = {}, !.send = FALSE]
  <2>1. PICK C : Discarded(C, {})
    BY <1>4, DiscardCases
  <2>2. current'.ccb = current.ccb /\ current'.last = current.last
    BY <1>2, <1>4
  <2>3. EndedOK'
    BY <1>1, <2>2 DEF EndedOK
  <2>4. ASSUME NothingMissed' PROVE EndedInv'
    BY <1>1, <2>1, <2>2, <2>4, DiscardLeft DEF EndedInv
  <2> QED
    BY <2>3, <2>4 DEF EndedInv
<1>5. CASE /\ \E put : Stored(getAttrType(attr), put)
           /\ current' = [current EXCEPT !.todo = @ \ {attr},
                                         !.added = @ \cup {getAttrType(attr)}]
           /\ UNCHANGED <<discardedCcbList, partial, noted, eventVars, faults>>
  <2>1. PICK put : Stored(getAttrType(attr), put)
    BY <1>5
  <2>2. DOMAIN cacheMap' = DOMAIN cacheMap \cup {current.ccb}
    BY <2>1 DEF Stored, WithCcb
  <2>3. /\ current'.ccb = current.ccb /\ current'.last = current.last
        /\ current'.send
    BY <1>2, <1>3, <1>5
  <2> QED
    BY <1>1, <1>5, <2>2, <2>3 DEF EndedOK, EndedInv, NothingMissed
<1>6. CASE /\ current' = [current EXCEPT !.todo = @ \ {attr}]
           /\ UNCHANGED <<cacheVars, eventVars, faults>>
  <2>1. /\ current'.ccb = current.ccb /\ current'.last = current.last
        /\ current'.send = current.send
    BY <1>2, <1>6
  <2> QED
    BY <1>1, <1>6, <2>1 DEF EndedOK, EndedInv, NothingMissed, cacheVars
<1> QED
  BY <1>0, <1>4, <1>5, <1>6, AddAttrCases

\* The end of a notification, which for the last one is that of its CCB.
LEMMA SetDnLeft ==
    ASSUME LeftInv, setDnInCmCache
    PROVE  EndedOK' /\ EndedInv'
<1> USE DEF LeftInv
<1>1. /\ current.pc = "dn" /\ current' = NoNotification /\ UNCHANGED ended
      /\ ~current'.last /\ current'.ccb = 0 /\ 0 \notin ended
  BY ZeroNotEnded DEF setDnInCmCache, NoNotification, ntfVars
<1>2. EndedOK'
  BY <1>1 DEF EndedOK
<1>3. current.last => current.ccb \in ccbsForgotten
  BY DEF ccbsForgotten
<1> SUFFICES ASSUME NothingMissed'
             PROVE  \A c \in ended : c \notin DOMAIN cacheMap' \cup discardedCcbList'
  BY <1>1, <1>2 DEF EndedInv
<1>4. CASE /\ ~current.send /\ UNCHANGED <<cacheMap, faults>>
           /\ discardedCcbList' = discardedCcbList \ ccbsForgotten
  BY <1>3, <1>4 DEF EndedInv, NothingMissed
<1>5. CASE current.send /\ setDn
           /\ discardedCcbList' = discardedCcbList \ ccbsForgotten
  <2>1. NothingMissed
    BY <1>5, NotificationSteps DEF NothingMissed, setDnInCmCache
  <2>2. \/ ~lastInCcb /\ DOMAIN cacheMap' = DOMAIN cacheMap \cup {current.ccb}
        \/ DOMAIN cacheMap' = DOMAIN cacheMap \ {current.ccb}
    <3>1. \/ ~lastInCcb /\ \E k : cacheMap' = WithCcb(current.ccb, k)
          \/ cacheMap' = WithoutCcbs({current.ccb})
      BY <1>1, <1>5, SetDnCases DEF CacheInv
    <3> QED
      BY <3>1 DEF WithCcb, WithoutCcbs, Restrict
  <2> QED
    BY <1>3, <1>5, <2>1, <2>2 DEF EndedInv, lastInCcb
<1>6. CASE discardAllCcbs(ccbsForgotten)
  <2>1. PICK C : Discarded(C, ccbsForgotten)
    BY <1>6, DiscardCases
  <2>2. /\ DOMAIN cacheMap' = {}
        /\ \A c \in ended : c \in discardedCcbList' =>
              c \notin ccbsForgotten /\ current.ccb = c /\ current.last
    BY <2>1, DiscardLeft
  <2> QED
    BY <1>3, <2>2
<1> QED
  BY <1>4, <1>5, <1>6 DEF setDnInCmCache

\* The invariant, with that of the content behind it.
LEMMA LeftStep ==
    ContentInv /\ EndedOK /\ EndedInv /\ [Next]_vars => EndedOK' /\ EndedInv'
<1> SUFFICES ASSUME ContentInv, EndedOK, EndedInv, [Next]_vars
             PROVE  EndedOK' /\ EndedInv'
  OBVIOUS
<1>0. LeftInv
  BY DEF LeftInv, ContentInv
<1>1. CASE start_CmEventHandler \/ RegexpFilter \/ pushOverflow \/ UNCHANGED vars
  <2>1. UNCHANGED <<ntfVars, cacheVars, current>> /\ faults \subseteq faults'
    BY <1>1 DEF start_CmEventHandler, RegexpFilter, pushOverflow, vars, Note
  <2> QED
    BY <2>1 DEF EndedOK, EndedInv, NothingMissed, ntfVars, cacheVars
<1>2. CASE stop_CmEventHandler
  <2>1. /\ UNCHANGED <<ended, current, faults>> /\ discardedCcbList' = {}
        /\ DOMAIN cacheMap' = {}
    BY <1>2 DEF stop_CmEventHandler, ntfVars
  <2> QED
    BY <2>1 DEF EndedOK, EndedInv, NothingMissed
<1>3. CASE Notify
  BY <1>0, <1>3, NotifyLeft
<1>4. ASSUME NEW attr \in {"simple", "struct", "member"}, addAttr(attr)
      PROVE  EndedOK' /\ EndedInv'
  BY <1>0, <1>4, AddAttrLeft
<1>5. CASE convertTo3GPPDN
  <2>1. UNCHANGED <<ntfVars, cacheVars>> /\ faults \subseteq faults'
    BY <1>5 DEF convertTo3GPPDN, Note
  <2>2. CASE current' = NoNotification /\ Note("dn", TRUE)
    BY <2>1, <2>2 DEF EndedOK, EndedInv, NothingMissed, Note, NoNotification,
                      ntfVars
  <2>3. CASE current' = [current EXCEPT !.pc = "dn"]
    <3>1. current.pc # "none"
      BY <1>5 DEF convertTo3GPPDN
    <3>2. /\ current'.ccb = current.ccb /\ current'.last = current.last
          /\ current'.send = current.send
      BY <2>3, <3>1, UnderWay DEF ContentInv, CacheInv
    <3> QED
      BY <2>1, <3>2 DEF EndedOK, EndedInv, NothingMissed, ntfVars, cacheVars
  <2> QED
    BY <1>5, <2>2, <2>3 DEF convertTo3GPPDN
<1>6. CASE setDnInCmCache
  BY <1>0, <1>6, SetDnLeft
<1> QED
  BY <1>1, <1>2, <1>3, <1>4, <1>5, <1>6 DEF Next

(***************************************************************************)
(* When no notification is under way, a CCB that has ended is neither in   *)
(* the cache nor on the list of discarded CCBs, the faults excepted that   *)
(* are excepted by name.                                                   *)
(***************************************************************************)
THEOREM EndedForgotten == Spec => []CcbLeavesNothing
<1>1. Init => ContentInv /\ EndedOK /\ EndedInv
  <2>1. Init => EndedOK /\ EndedInv
    BY DEF Init, EndedOK, EndedInv, NoNotification
  <2> QED
    BY <2>1, ContentInit
<1>2. ContentInv /\ EndedOK /\ EndedInv => CcbLeavesNothing
  BY DEF EndedInv, NothingMissed, CcbLeavesNothing, NoNotification
<1>3. (ContentInv /\ EndedOK /\ EndedInv) /\ [Next]_vars
        => (ContentInv /\ EndedOK /\ EndedInv)'
  BY ContentStep, LeftStep
<1> QED
  BY <1>1, <1>2, <1>3, PTL DEF Spec

-----------------------------------------------------------------------------
(***************************************************************************)
(* The refinement of CmEventSpec, under the mapping of Promise.  A CCB of  *)
(* which a notification was given up stays on the list until it has ended; *)
(* so no notification of it is collected any more.                         *)
(***************************************************************************)
Excused == faults \cap {"empty", "unlisted"} # {}

PartialInv ==
    /\ partial \subseteq Ccbs
    /\ ~Excused => /\ partial \subseteq discardedCcbList \cup ended
                   /\ current.send => current.ccb \notin partial

PromiseInv == ContentInv /\ EndedOK /\ EndedInv /\ PartialInv

\* A notification that arrives is not collected if its CCB was given up.
LEMMA NotifyPartial ==
    ASSUME PromiseInv, Notify
    PROVE  PartialInv'
<1>1. PICK obj \in Objects, kind \in EventTypes :
        \E ccb \in (IF obj \in Runtime THEN {0} ELSE Ccbs \ ended),
           attrs \in (IF kind = "delete" THEN {{}} ELSE SUBSET AttributesOf(obj)),
           last \in (IF obj \in Runtime THEN {FALSE} ELSE BOOLEAN) :
             convertCMNotificationHeader(
                 [obj |-> obj, kind |-> kind, ccb |-> ccb, attrs |-> attrs,
                  last |-> last])
  BY DEF Notify
<1>2. PICK ccb, attrs, last :
        /\ ccb = 0 \/ ccb \in Ccbs \ ended
        /\ convertCMNotificationHeader(
              [obj |-> obj, kind |-> kind, ccb |-> ccb, attrs |-> attrs,
               last |-> last])
  BY <1>1
<1> DEFINE n == [obj |-> obj, kind |-> kind, ccb |-> ccb, attrs |-> attrs,
                 last |-> last]
<1>3. /\ current'.ccb = ccbIdRead(n) /\ current'.send = sendsetDnInCmCache(n)
      /\ ended \subseteq ended'
      /\ UNCHANGED cacheVars /\ faults \subseteq faults'
  BY <1>2 DEF convertCMNotificationHeader
<1>4. ccbIdRead(n) \in {0, ccb}
  BY DEF ccbIdRead
<1>5. sendsetDnInCmCache(n) => ccbIdRead(n) \notin discardedCcbList
  BY DEF sendsetDnInCmCache, isDiscardedCcb
<1>6. 0 \notin Ccbs
  BY ConstantsAssumption
<1> HIDE DEF n
<1> QED
  BY <1>2, <1>3, <1>4, <1>5, <1>6
     DEF PromiseInv, PartialInv, Excused, cacheVars

\* The cache is thrown away: the CCBs that are given up get on the list, and
\* only one that has ended is taken off it again.
LEMMA DiscardPartial ==
    ASSUME PartialInv, CurrentOK, current.pc # "none", MapOK,
           NEW C, NEW forgotten, Discarded(C, forgotten),
           forgotten \subseteq ended \cup {0}, UNCHANGED ended, ~current'.send
    PROVE  PartialInv'
<1>1. current.ccb \in CcbIds /\ C \subseteq CcbIds /\ CcbIds = Ccbs \cup {0}
  BY UnderWay DEF Discarded, MapOK, CcbIds
<1>2. partial' \subseteq Ccbs
  BY <1>1 DEF Discarded, PartialInv
<1>3. ~Excused' => ~Excused /\ current.ccb \in C
  BY DEF Discarded, Excused
<1>4. 0 \notin Ccbs
  BY ConstantsAssumption
<1> QED
  BY <1>1, <1>2, <1>3, <1>4 DEF Discarded, PartialInv

\* Every step keeps it.
LEMMA PartialStep == PromiseInv /\ [Next]_vars => PartialInv'
<1> SUFFICES ASSUME PromiseInv, [Next]_vars PROVE PartialInv'
  OBVIOUS
<1> USE DEF PromiseInv
<1>0. CurrentOK /\ MapOK
  BY DEF ContentInv, CacheInv
<1>1. CASE start_CmEventHandler \/ RegexpFilter \/ pushOverflow \/ UNCHANGED vars
  <2>1. UNCHANGED <<ntfVars, cacheVars, current>> /\ faults \subseteq faults'
    BY <1>1 DEF start_CmEventHandler, RegexpFilter, pushOverflow, vars, Note
  <2> QED
    BY <2>1 DEF PartialInv, Excused, ntfVars, cacheVars
<1>2. CASE stop_CmEventHandler
  BY <1>2 DEF stop_CmEventHandler, PartialInv
<1>3. CASE Notify
  BY <1>3, NotifyPartial
<1>4. ASSUME NEW attr \in {"simple", "struct", "member"}, addAttr(attr)
      PROVE  PartialInv'
  <2>1. current.pc # "none" /\ UNCHANGED ended
    BY <1>4 DEF addAttr, ntfVars
  <2>2. CASE /\ discardAllCcbs({})
             /\ current' = [current EXCEPT !.todo = {}, !.send = FALSE]
    <3>1. PICK C : Discarded(C, {})
      BY <2>2, DiscardCases
    <3>2. ~current'.send
      BY <1>0, <2>1, <2>2, UnderWay
    <3> QED
      BY <1>0, <2>1, <3>1, <3>2, DiscardPartial
  <2>3. CASE /\ current' = [current EXCEPT
                               !.todo = @ \ {attr},
                               !.added = @ \cup {getAttrType(attr)}]
             /\ UNCHANGED <<discardedCcbList, partial, faults>>
    <3>1. current'.send = current.send /\ current'.ccb = current.ccb
      BY <1>0, <2>1, <2>3, UnderWay
    <3> QED
      BY <2>1, <2>3, <3>1 DEF PartialInv, Excused
  <2>4. CASE /\ current' = [current EXCEPT !.todo = @ \ {attr}]
             /\ UNCHANGED <<discardedCcbList, partial, faults>>
    <3>1. current'.send = current.send /\ current'.ccb = current.ccb
      BY <1>0, <2>1, <2>4, UnderWay
    <3> QED
      BY <2>1, <2>4, <3>1 DEF PartialInv, Excused
  <2> QED
    BY <1>0, <1>4, <2>2, <2>3, <2>4, AddAttrCases DEF cacheVars
<1>5. CASE convertTo3GPPDN
  <2>1. /\ UNCHANGED <<ntfVars, cacheVars>> /\ faults \subseteq faults'
        /\ current.pc # "none"
    BY <1>5 DEF convertTo3GPPDN, Note
  <2>2. ~current'.send \/ (current'.send = current.send /\ current'.ccb = current.ccb)
    <3>1. CASE current' = NoNotification
      BY <3>1 DEF NoNotification
    <3>2. CASE current' = [current EXCEPT !.pc = "dn"]
      BY <1>0, <2>1, <3>2, UnderWay
    <3> QED
      BY <1>5, <3>1, <3>2 DEF convertTo3GPPDN
  <2> QED
    BY <2>1, <2>2 DEF PartialInv, Excused, ntfVars, cacheVars
<1>6. CASE setDnInCmCache
  <2>1. /\ current.pc # "none" /\ UNCHANGED ended /\ ~current'.send
        /\ faults \subseteq faults'
    BY <1>6, NotificationSteps DEF setDnInCmCache, NoNotification, ntfVars
  <2>2. ccbsForgotten \subseteq ended \cup {0}
    BY DEF ccbsForgotten, EndedOK
  <2>3. CASE UNCHANGED partial /\ discardedCcbList' = discardedCcbList \ ccbsForgotten
    <3>1. 0 \notin Ccbs
      BY ConstantsAssumption
    <3> QED
      BY <2>1, <2>2, <2>3, <3>1 DEF PartialInv, Excused
  <2>4. CASE discardAllCcbs(ccbsForgotten)
    <3>1. PICK C : Discarded(C, ccbsForgotten)
      BY <2>4, DiscardCases
    <3> QED
      BY <1>0, <2>1, <2>2, <3>1, DiscardPartial
  <2> QED
    BY <1>6, <2>3, <2>4 DEF setDnInCmCache
<1> QED
  BY <1>1, <1>2, <1>3, <1>4, <1>5, <1>6 DEF Next

\* The invariant of the refinement.
LEMMA PromiseStep == PromiseInv /\ [Next]_vars => PromiseInv'
  BY ContentStep, LeftStep, PartialStep DEF PromiseInv

\* Nothing was given up in the beginning.
LEMMA PromiseInit == Init => PromiseInv
<1>1. Init => EndedOK /\ EndedInv /\ PartialInv
  BY DEF Init, EndedOK, EndedInv, PartialInv, NoNotification
<1> QED
  BY <1>1, ContentInit DEF PromiseInv

(***************************************************************************)
(* The values that Promise gives to the variables of CmEventSpec.          *)
(***************************************************************************)
Changes == [c \in CcbIds |-> IF c \in DOMAIN cacheMap
                             THEN DOMAIN cacheMap[c].dns \ {Temp} ELSE {}]
Told == [lost |-> event.type = "overflow", objects |-> DOMAIN event.dns]

\* A step that changes none of them is a stuttering step.
LEMMA PromiseStutter ==
    ASSUME Changes' = Changes, UNCHANGED <<event, partial>>, Excused' = Excused
    PROVE  UNCHANGED Promise!specVars
  BY DEF Promise!specVars, Changes, Excused

\* The cache is thrown away, or NTF has lost notifications.
LEMMA PromiseOverflow ==
    ASSUME event' = Overflow, partial \subseteq partial',
           faults \subseteq faults', NEW C, C \subseteq CcbIds,
           Changes' = [c \in CcbIds |-> IF c \in C THEN {} ELSE Changes[c]]
    PROVE  Promise!Next
<1>1. Told' = [lost |-> TRUE, objects |-> {}]
  <2>1. event'.type = "overflow" /\ DOMAIN event'.dns = {}
    BY DEF Overflow
  <2> QED
    BY <2>1 DEF Told
<1>2. Promise!Overflow
  BY <1>1 DEF Promise!Overflow, Changes, Told
<1>3. Excused => Excused'
  BY DEF Excused
<1> QED
  BY <1>2, <1>3 DEF Promise!Next, Excused

\* discardAllCcbs is an overflow of CmEventSpec.
LEMMA PromiseDiscard ==
    ASSUME MapOK, NEW C, NEW forgotten, Discarded(C, forgotten)
    PROVE  Promise!Next
<1>1. /\ DOMAIN cacheMap' = DOMAIN cacheMap \ C
      /\ \A b \in DOMAIN cacheMap' : cacheMap'[b] = cacheMap[b]
  BY WithoutCcbsOK DEF Discarded
<1>2. Changes' = [c \in CcbIds |-> IF c \in C THEN {} ELSE Changes[c]]
  BY <1>1 DEF Changes
<1>3. C \subseteq CcbIds
  BY DEF Discarded, MapOK
<1> QED
  BY <1>2, <1>3, PromiseOverflow DEF Discarded

\* What setDn does is to collect a change, to tell a transaction or to tell
\* nothing of one.
LEMMA PromiseSetDn ==
    ASSUME PromiseInv, current.pc = "dn", current.send, setDn, UNCHANGED partial
    PROVE  Promise!Next
<1> SUFFICES ASSUME NEW c, NEW dn, c = current.ccb, dn = DnOf(current.obj)
             PROVE  Promise!Next
  OBVIOUS
<1> USE DEF PromiseInv
<1>0. CurrentOK /\ MapOK
  BY DEF ContentInv, CacheInv
<1>1. PICK k : /\ Collected(k)
               /\ \/ /\ ~lastInCcb /\ cacheMap' = WithCcb(c, k)
                     /\ UNCHANGED <<eventVars, faults>>
                  \/ /\ lastInCcb
                     /\ cacheMap' = WithoutCcbs({c})
                     /\ \/ /\ Note("empty", DOMAIN k.dns # {dn})
                           /\ UNCHANGED eventVars
                        \/ /\ event' = buildEventStruct(k)
                           /\ UNCHANGED faults
  BY <1>0, SetDnCases
<1>2. c \in CcbIds /\ dn \in Mos /\ dn # Temp
  BY <1>0, UnderWay, DnOfObject
<1>3. DOMAIN k.dns = Changes[c] \cup {dn} /\ DOMAIN k.dns \ {Temp} = DOMAIN k.dns
  BY <1>1, <1>2, CcbCacheOK, <1>0 DEF Collected, Changes
<1>4. (c \notin partial \/ Excused) /\ (Excused => Excused')
  BY <1>1 DEF PartialInv, Excused, Note
<1>5. CASE cacheMap' = WithCcb(c, k) /\ UNCHANGED <<eventVars, faults>>
  <2>1. /\ DOMAIN cacheMap' = DOMAIN cacheMap \cup {c} /\ cacheMap'[c] = k
        /\ \A b \in DOMAIN cacheMap : b # c => cacheMap'[b] = cacheMap[b]
    BY <1>5, Zenon DEF WithCcb
  <2>2. Changes' = [Changes EXCEPT ![c] = @ \cup {dn}]
    BY <1>2, <1>3, <2>1 DEF Changes
  <2>3. Promise!Collect(c, dn)
    BY <1>4, <1>5, <2>2
       DEF Promise!Collect, Promise!Whole, Changes, Excused, eventVars
  <2> QED
    BY <1>2, <1>4, <2>3 DEF Promise!Next, Excused
<1>6. ASSUME cacheMap' = WithoutCcbs({c})
      PROVE  Changes' = [Changes EXCEPT ![c] = {}]
  <2>1. /\ DOMAIN cacheMap' = DOMAIN cacheMap \ {c}
        /\ \A b \in DOMAIN cacheMap' : cacheMap'[b] = cacheMap[b]
    BY <1>6 DEF WithoutCcbs, Restrict
  <2> QED
    BY <1>2, <2>1 DEF Changes
<1>7. CASE /\ cacheMap' = WithoutCcbs({c})
           /\ event' = buildEventStruct(k) /\ UNCHANGED faults
  <2>1. event'.type = "changes" /\ DOMAIN event'.dns = DOMAIN k.dns
    BY <1>7 DEF buildEventStruct
  <2>2. Told' = [lost |-> FALSE, objects |-> Changes[c] \cup {dn}]
    BY <1>3, <2>1 DEF Told
  <2>3. Promise!Tell(c, dn)
    BY <1>4, <1>6, <1>7, <2>2
       DEF Promise!Tell, Promise!Whole, Changes, Told, Excused
  <2> QED
    BY <1>2, <1>4, <2>3 DEF Promise!Next, Excused
<1>8. CASE /\ cacheMap' = WithoutCcbs({c}) /\ UNCHANGED eventVars
           /\ Note("empty", DOMAIN k.dns # {dn})
  <2>1. Changes[c] \subseteq {dn} \/ Excused'
    BY <1>3, <1>8 DEF Note, Excused
  <2>2. Promise!TellNothing(c, dn)
    BY <1>6, <1>8, <2>1 DEF Promise!TellNothing, Changes, Excused, eventVars
  <2> QED
    BY <1>2, <1>4, <2>2 DEF Promise!Next, Excused
<1> QED
  BY <1>1, <1>5, <1>7, <1>8

\* Every step is one of CmEventSpec or changes nothing there.
LEMMA PromiseNext ==
    PromiseInv /\ [Next]_vars => [Promise!Next]_(Promise!specVars)
<1> SUFFICES ASSUME PromiseInv, [Next]_vars
             PROVE  Promise!Next \/ UNCHANGED Promise!specVars
  OBVIOUS
<1> USE DEF PromiseInv
<1>0. CurrentOK /\ MapOK
  BY DEF ContentInv, CacheInv
<1>1. CASE UNCHANGED <<cacheMap, event, partial>>
           /\ faults' \subseteq faults \cup {"dn", "subscribe", "struct", "unnotified"}
           /\ faults \subseteq faults'
  <2>1. Changes' = Changes /\ Excused' = Excused
    BY <1>1 DEF Changes, Excused
  <2> QED
    BY <1>1, <2>1, PromiseStutter
<1>2. CASE start_CmEventHandler \/ RegexpFilter \/ convertTo3GPPDN \/ UNCHANGED vars
  BY <1>1, <1>2 DEF start_CmEventHandler, RegexpFilter, convertTo3GPPDN, vars, Note,
                    cacheVars, eventVars
<1>3. CASE Notify
  <2>1. ASSUME NEW n, convertCMNotificationHeader(n)
        PROVE  /\ UNCHANGED <<cacheMap, event, partial>>
               /\ faults' \subseteq faults \cup {"struct", "unnotified"}
               /\ faults \subseteq faults'
    BY <2>1 DEF convertCMNotificationHeader, cacheVars, eventVars
  <2>2. /\ UNCHANGED <<cacheMap, event, partial>>
        /\ faults' \subseteq faults \cup {"struct", "unnotified"}
        /\ faults \subseteq faults'
    BY <1>3, <2>1 DEF Notify
  <2> QED
    BY <1>1, <2>2
<1>4. CASE pushOverflow
  <2>1. /\ event' = Overflow
        /\ UNCHANGED <<cacheMap, partial, faults>>
    BY <1>4 DEF pushOverflow, cacheVars
  <2>2. Changes' = [c \in CcbIds |-> IF c \in {} THEN {} ELSE Changes[c]]
    BY <2>1 DEF Changes
  <2>3. partial \subseteq partial' /\ faults \subseteq faults'
    BY <2>1
  <2> QED
    BY <2>1, <2>2, <2>3, PromiseOverflow
<1>5. CASE stop_CmEventHandler
  <2>1. /\ DOMAIN cacheMap' = {} /\ partial' = {} /\ UNCHANGED <<event, faults>>
    BY <1>5 DEF stop_CmEventHandler, eventVars
  <2>2. Changes' = [c \in CcbIds |-> {}]
    BY <2>1 DEF Changes
  <2>3. Promise!Close
    BY <2>1, <2>2 DEF Promise!Close, Changes
  <2> QED
    BY <2>1, <2>3 DEF Promise!Next
<1>6. ASSUME NEW attr \in {"simple", "struct", "member"}, addAttr(attr)
      PROVE  Promise!Next \/ UNCHANGED Promise!specVars
  <2>1. CASE discardAllCcbs({})
    BY <1>0, <2>1, DiscardCases, PromiseDiscard
  <2>2. CASE /\ \E put : Stored(getAttrType(attr), put)
             /\ UNCHANGED <<partial, eventVars, faults>>
    <3> DEFINE c == current.ccb
    <3>1. PICK put : Stored(getAttrType(attr), put)
      BY <2>2
    <3>2. /\ cacheMap' = WithCcb(c, put)
          /\ DOMAIN put.dns \ {Temp} = DOMAIN CcbCache(c).dns \ {Temp}
      BY <3>1 DEF Stored
    <3>3. /\ c \in DOMAIN cacheMap => CcbCache(c) = cacheMap[c]
          /\ c \notin DOMAIN cacheMap => DOMAIN CcbCache(c).dns = {}
      BY <1>0, CcbCacheOK
    <3> HIDE DEF c
    <3>4. /\ DOMAIN cacheMap' = DOMAIN cacheMap \cup {c} /\ cacheMap'[c] = put
          /\ \A b \in DOMAIN cacheMap : b # c => cacheMap'[b] = cacheMap[b]
      BY <3>2, Zenon DEF WithCcb
    <3>5. Changes' = Changes
      BY <3>2, <3>3, <3>4 DEF Changes
    <3> QED
      BY <2>2, <3>5, PromiseStutter DEF eventVars, Excused
  <2>3. CASE UNCHANGED <<cacheVars, eventVars, faults>>
    BY <1>1, <2>3 DEF cacheVars, eventVars
  <2> QED
    BY <1>0, <1>6, <2>1, <2>2, <2>3, AddAttrCases
<1>7. CASE setDnInCmCache
  <2>1. CASE UNCHANGED <<cacheMap, partial, eventVars, faults>>
    BY <1>1, <2>1 DEF eventVars
  <2>2. CASE current.send /\ setDn /\ UNCHANGED partial
    BY <1>7, <2>2, PromiseSetDn DEF setDnInCmCache
  <2>3. CASE discardAllCcbs(ccbsForgotten)
    BY <1>0, <2>3, DiscardCases, PromiseDiscard
  <2> QED
    BY <1>7, <2>1, <2>2, <2>3 DEF setDnInCmCache
<1> QED
  BY <1>2, <1>3, <1>4, <1>5, <1>6, <1>7 DEF Next

(***************************************************************************)
(* The cache of the CM events implements CmEventSpec: a transaction is     *)
(* told once and as a whole, or an overflow is told and then nothing of    *)
(* the transaction any more, for every interleaving of CCBs and any limit  *)
(* of the memory.                                                          *)
(***************************************************************************)
THEOREM PromiseHolds == Spec => PromiseKept
<1>1. Init => Promise!Init
  <2> SUFFICES ASSUME Init PROVE Promise!Init
    OBVIOUS
  <2>1. DOMAIN cacheMap = {} /\ DOMAIN event.dns = {} /\ event.type = "changes"
        /\ partial = {} /\ faults = {}
    BY DEF Init
  <2>2. Changes = [c \in CcbIds |-> {}] /\ Told = [lost |-> FALSE, objects |-> {}]
    BY <2>1 DEF Changes, Told
  <2> QED
    BY <2>1, <2>2 DEF Promise!Init, Changes, Told
<1>2. Promise!Init /\ [][Promise!Next]_(Promise!specVars) => PromiseKept
  BY DEF PromiseKept, Promise!Spec
<1> QED
  BY PromiseInit, PromiseStep, PromiseNext, <1>1, <1>2, PTL DEF Spec

-----------------------------------------------------------------------------
(***************************************************************************)
(* The counters of memory.  NoPhantomMemory is inductive together with     *)
(* what it is about: there are finitely many CCBs in the cache, no counter *)
(* is negative, and without a limit nothing is counted, so that the        *)
(* counter of the cache stays 0 while CCBs are taken out of it.            *)
(***************************************************************************)
MemoryInv ==
    /\ IsFiniteSet(DOMAIN cacheMap)
    /\ \A c \in DOMAIN cacheMap : cacheMap[c].memory \in Nat
    /\ cacheMemory \in Nat /\ NoPhantomMemory
    /\ ~Limited => cacheMemory = 0

\* The two operators on counters, without the maximum of a set.
LEMMA Counters ==
    ASSUME NEW m \in Nat, NEW plus \in Nat, NEW minus \in Nat
    PROVE  /\ updateMemory(m, plus, minus) \in Nat
           /\ discharged(m, minus) \in Nat
           /\ Limited /\ m >= minus =>
                 /\ updateMemory(m, plus, minus) = m - minus + plus
                 /\ discharged(m, minus) = m - minus
           /\ Limited /\ m < minus =>
                 updateMemory(m, plus, minus) = plus /\ discharged(m, minus) = 0
           /\ ~Limited =>
                 updateMemory(m, plus, minus) = m /\ discharged(m, minus) = m
<1> DEFINE d == IF m >= minus THEN m - minus ELSE 0
<1>1. d \in {0, m - minus} /\ \A y \in {0, m - minus} : d >= y
  OBVIOUS
<1>2. \A x \in {0, m - minus} : (\A y \in {0, m - minus} : x >= y) => x = d
  OBVIOUS
<1>3. Less(m, minus) = d
  <2> HIDE DEF d
  <2> QED
    BY <1>1, <1>2 DEF Less, Max
<1>4. d \in Nat /\ (m >= minus => d = m - minus) /\ (m < minus => d = 0)
  OBVIOUS
<1> HIDE DEF d
<1>5. /\ Limited => updateMemory(m, plus, minus) = d + plus
      /\ ~Limited => updateMemory(m, plus, minus) = m
      /\ Limited => discharged(m, minus) = d
      /\ ~Limited => discharged(m, minus) = m
  BY <1>3 DEF updateMemory, discharged
<1>6. updateMemory(m, plus, minus) \in Nat /\ discharged(m, minus) \in Nat
  BY <1>4, <1>5
<1> QED
  BY <1>4, <1>5, <1>6

\* Charging alone, and discharging counters of which one bounds the other.
LEMMA CountersAlike ==
    ASSUME NEW m \in Nat, NEW w \in Nat, NEW rest \in Nat,
           NEW plus \in Nat, NEW minus \in Nat,
           w <= m + rest
    PROVE  /\ updateMemory(m, plus, 0) = IF Limited THEN m + plus ELSE m
           /\ Limited => updateMemory(w, plus, minus)
                           <= updateMemory(m, plus, minus) + rest
           /\ w <= minus + rest /\ Limited => discharged(w, minus) <= rest
<1>1. updateMemory(m, plus, 0) = IF Limited THEN m + plus ELSE m
  <2>1. 0 \in Nat /\ m >= 0 /\ m - 0 + plus = m + plus
    OBVIOUS
  <2> QED
    BY <2>1, Counters
<1> DEFINE a == updateMemory(m, plus, minus)
           b == updateMemory(w, plus, minus)
           e == discharged(w, minus)
<1>2. /\ Limited /\ m >= minus => a = m - minus + plus
      /\ Limited /\ m < minus => a = plus
  BY Counters
<1>3. /\ Limited /\ w >= minus => b = w - minus + plus
      /\ Limited /\ w < minus => b = plus
  BY Counters
<1>4. /\ Limited /\ w >= minus => e = w - minus
      /\ Limited /\ w < minus => e = 0
  BY Counters
<1> HIDE DEF a, b, e
<1>5. Limited => b <= a + rest
  BY <1>2, <1>3
<1>6. w <= minus + rest /\ Limited => e <= rest
  BY <1>4
<1> QED
  BY <1>1, <1>5, <1>6 DEF a, b, e

\* The CCBs in the cache can be added up.
LEMMA CacheCharges ==
    ASSUME MemoryInv
    PROVE  /\ Charges(cacheMap, DOMAIN cacheMap)
           /\ \A c : CcbCache(c).memory \in Nat
<1>1. IsFiniteSet(DOMAIN cacheMap)
      /\ \A c \in DOMAIN cacheMap : cacheMap[c].memory \in Nat
  BY DEF MemoryInv
<1>2. \A c \in DOMAIN cacheMap : getMemory(cacheMap[c]) \in Nat
  BY <1>1 DEF getMemory, SizeOfCcbCache
<1>3. ASSUME NEW c PROVE CcbCache(c).memory \in Nat
  BY <1>1 DEF CcbCache
<1> QED
  BY <1>1, <1>2, <1>3 DEF Charges

\* With CcbCache c there, the cache is charged for it and the others at most.
Others(c) == SumOf(cacheMap, DOMAIN cacheMap \ {c})

LEMMA ChargedWithCcb ==
    ASSUME MemoryInv, NEW c
    PROVE  /\ Others(c) \in Nat /\ withCcbCharged(c) \in Nat
           /\ withCcbCharged(c) <= 1 + CcbCache(c).memory + Others(c)
           /\ ~Limited => withCcbCharged(c) = 0
<1>1. /\ Charges(cacheMap, DOMAIN cacheMap) /\ CcbCache(c).memory \in Nat
      /\ cacheMemory \in Nat /\ (~Limited => cacheMemory = 0)
      /\ cacheMemory <= SumOf(cacheMap, DOMAIN cacheMap)
  BY CacheCharges, SumInUse DEF MemoryInv
<1>2. CASE c \in DOMAIN cacheMap
  <2>1. {c} \in SUBSET DOMAIN cacheMap
    BY <1>2
  <2>2. /\ SumOf(cacheMap, DOMAIN cacheMap) = SumOf(cacheMap, {c}) + Others(c)
        /\ Others(c) \in Nat
    BY <1>1, <2>1, SumSplit DEF Others
  <2>3. getMemory(cacheMap[c]) \in Nat
    BY <1>1, <1>2 DEF Charges
  <2>4. SumOf(cacheMap, {c}) = getMemory(cacheMap[c])
    BY <2>3, SumOfOne
  <2>5. getMemory(cacheMap[c]) = 1 + CcbCache(c).memory
    BY <1>2 DEF getMemory, SizeOfCcbCache, CcbCache
  <2>6. withCcbCharged(c) = updateMemory(cacheMemory, 0, 0)
    BY <1>2 DEF withCcbCharged
  <2>7. updateMemory(cacheMemory, 0, 0) = cacheMemory
    BY <1>1, CountersAlike
  <2> QED
    BY <1>1, <2>2, <2>4, <2>5, <2>6, <2>7
<1>3. CASE c \notin DOMAIN cacheMap
  <2>1. DOMAIN cacheMap \ {c} = DOMAIN cacheMap /\ {} \in SUBSET DOMAIN cacheMap
    BY <1>3
  <2>2. Others(c) = SumOf(cacheMap, DOMAIN cacheMap) /\ Others(c) \in Nat
    BY <1>1, <2>1, SumSplit DEF Others
  <2>3. CcbCache(c).memory = 0
    BY <1>3 DEF CcbCache
  <2>4. withCcbCharged(c) = updateMemory(cacheMemory, 1, 0)
    BY <1>3 DEF withCcbCharged, SizeOfCcbCache
  <2>5. /\ Limited => updateMemory(cacheMemory, 1, 0) = cacheMemory + 1
        /\ ~Limited => updateMemory(cacheMemory, 1, 0) = cacheMemory
    <3>1. 1 \in Nat /\ 0 \in Nat /\ cacheMemory <= cacheMemory + 0
      BY <1>1
    <3>2. updateMemory(cacheMemory, 1, 0)
            = IF Limited THEN cacheMemory + 1 ELSE cacheMemory
      BY <1>1, <3>1, CountersAlike
    <3> QED
      BY <3>2
  <2> QED
    BY <1>1, <2>2, <2>3, <2>4, <2>5
<1> QED
  BY <1>2, <1>3

\* CcbCache c is put into the cache, and both counters change alike.
LEMMA ChargeMemory ==
    ASSUME MemoryInv, NEW c, NEW k, NEW plus \in Nat, NEW minus \in Nat,
           k.memory = updateMemory(CcbCache(c).memory, plus, minus),
           cacheMap' = WithCcb(c, k),
           cacheMemory' = updateMemory(withCcbCharged(c), plus, minus)
    PROVE  MemoryInv'
<1> DEFINE D == DOMAIN cacheMap
           m == CcbCache(c).memory
           w == withCcbCharged(c)
<1>1. /\ Charges(cacheMap, D) /\ m \in Nat
      /\ Others(c) \in Nat /\ w \in Nat /\ w <= 1 + m + Others(c)
      /\ ~Limited => w = 0
  BY CacheCharges, ChargedWithCcb
<1>2. /\ DOMAIN cacheMap' = D \cup {c} /\ cacheMap'[c] = k
      /\ \A b \in D : b # c => cacheMap'[b] = cacheMap[b]
  <2>1. /\ DOMAIN WithCcb(c, k) = D \cup {c} /\ WithCcb(c, k)[c] = k
        /\ \A b \in D : b # c => WithCcb(c, k)[b] = cacheMap[b]
    BY DEF WithCcb
  <2> HIDE DEF D
  <2> QED
    BY <2>1
<1> HIDE DEF m, w, D
<1>3. k.memory = updateMemory(m, plus, minus) /\ cacheMemory' = updateMemory(w, plus, minus)
  BY DEF m, w
<1>4. /\ k.memory \in Nat /\ cacheMemory' \in Nat
      /\ ~Limited => cacheMemory' = 0
  <2>1. updateMemory(m, plus, minus) \in Nat
    BY <1>1, Counters
  <2>2. /\ updateMemory(w, plus, minus) \in Nat
        /\ ~Limited => updateMemory(w, plus, minus) = w
    BY <1>1, Counters
  <2> QED
    BY <1>1, <1>3, <2>1, <2>2
<1>5. IsFiniteSet(DOMAIN cacheMap') /\ IsFiniteSet(D)
  BY <1>1, <1>2, FS_AddElement DEF Charges
<1>6. \A b \in DOMAIN cacheMap' : cacheMap'[b].memory \in Nat
  <2>1. \A b \in D : cacheMap[b].memory \in Nat
    BY DEF MemoryInv, D
  <2> QED
    BY <1>2, <1>4, <2>1
<1>7. Charges(cacheMap', D \cup {c})
  BY <1>2, <1>5, <1>6 DEF Charges, getMemory, SizeOfCcbCache
<1>8. SumOf(cacheMap', D \cup {c}) = 1 + k.memory + Others(c)
  <2>1. {c} \in SUBSET (D \cup {c}) /\ (D \cup {c}) \ {c} = D \ {c}
    OBVIOUS
  <2>2. SumOf(cacheMap', D \cup {c})
          = SumOf(cacheMap', {c}) + SumOf(cacheMap', D \ {c})
    BY <1>7, <2>1, SumSplit
  <2>3. getMemory(cacheMap'[c]) = 1 + k.memory /\ getMemory(cacheMap'[c]) \in Nat
    BY <1>2, <1>4 DEF getMemory, SizeOfCcbCache
  <2>4. SumOf(cacheMap', {c}) = 1 + k.memory
    BY <2>3, SumOfOne
  <2>5. Charges(cacheMap, D \ {c})
    BY <1>1, BytesAddUp
  <2>6. \A b \in D \ {c} : cacheMap'[b] = cacheMap[b]
    BY <1>2
  <2>7. SumOf(cacheMap', D \ {c}) = SumOf(cacheMap, D \ {c})
    BY <2>5, <2>6, SumSame
  <2> QED
    BY <2>2, <2>4, <2>7 DEF Others, D
<1>9. cacheMemory' <= 1 + k.memory + Others(c)
  <2>1. w <= m + (1 + Others(c)) /\ 1 + Others(c) \in Nat
    BY <1>1
  <2>2. Limited => cacheMemory' <= k.memory + (1 + Others(c))
    BY <1>1, <1>3, <2>1, CountersAlike
  <2> QED
    BY <1>1, <1>4, <2>2
<1>10. NoPhantomMemory'
  BY <1>2, <1>8, <1>9, SumInUse
<1> QED
  BY <1>4, <1>5, <1>6, <1>10 DEF MemoryInv, Limited

\* CCBs are taken out of the cache, which was charged for them and the rest
\* at most, and is discharged for them.
LEMMA DischargeMemory ==
    ASSUME MemoryInv, NEW C, cacheMap' = WithoutCcbs(C),
           NEW memory \in Nat, NEW bytes \in Nat,
           memory <= bytes + SumOf(cacheMap, DOMAIN cacheMap \ C),
           ~Limited => memory = 0,
           cacheMemory' = discharged(memory, bytes)
    PROVE  MemoryInv'
<1> DEFINE D == DOMAIN cacheMap \ C
<1>1. /\ Charges(cacheMap, DOMAIN cacheMap) /\ D \in SUBSET DOMAIN cacheMap
      /\ \A c \in DOMAIN cacheMap : cacheMap[c].memory \in Nat
  BY CacheCharges DEF MemoryInv
<1>2. /\ DOMAIN cacheMap' = D
      /\ \A b \in D : cacheMap'[b] = cacheMap[b]
  BY WithoutCcbsOK
<1>3. Charges(cacheMap, D) /\ SumOf(cacheMap, D) \in Nat
  BY <1>1, BytesAddUp, SumSplit
<1>4. memory <= bytes + SumOf(cacheMap, D)
  OBVIOUS
<1> HIDE DEF D
<1>5. SumOf(cacheMap', D) = SumOf(cacheMap, D)
  BY <1>2, <1>3, SumSame
<1>6. /\ cacheMemory' \in Nat /\ (~Limited => cacheMemory' = 0)
      /\ cacheMemory' <= SumOf(cacheMap, D)
  <2>1. cacheMemory' \in Nat /\ (~Limited => cacheMemory' = 0)
    BY Counters
  <2>2. memory <= memory + SumOf(cacheMap, D)
    BY <1>3
  <2>3. Limited => cacheMemory' <= SumOf(cacheMap, D)
    BY <1>3, <1>4, <2>2, CountersAlike
  <2> QED
    BY <1>3, <2>1, <2>3
<1>7. NoPhantomMemory'
  BY <1>2, <1>5, <1>6, SumInUse
<1>8. IsFiniteSet(D)
  BY <1>3 DEF Charges
<1>9. \A c \in DOMAIN cacheMap' : cacheMap'[c].memory \in Nat
  BY <1>1, <1>2 DEF D
<1> QED
  BY <1>2, <1>6, <1>7, <1>8, <1>9 DEF MemoryInv, Limited

\* discardAllCcbs discharges the cache for every CCB that it takes out, also
\* when the loop goes wrong.
LEMMA DiscardMemory ==
    ASSUME MemoryInv, NEW forgotten, discardAllCcbs(forgotten)
    PROVE  MemoryInv'
<1>1. PICK C \in SUBSET DOMAIN cacheMap :
        /\ cacheMemory' = discharged(cacheMemory, MapThenSumSet(MemoryOf, C))
        /\ cacheMap' = WithoutCcbs(C)
  BY DEF discardAllCcbs
<1>2. cacheMemory' = discharged(cacheMemory, SumOf(cacheMap, C))
  BY <1>1, SumInUse
<1>3. /\ cacheMemory \in Nat /\ (~Limited => cacheMemory = 0)
      /\ cacheMemory <= SumOf(cacheMap, DOMAIN cacheMap)
      /\ Charges(cacheMap, DOMAIN cacheMap)
  BY CacheCharges, SumInUse DEF MemoryInv
<1>4. /\ SumOf(cacheMap, C) \in Nat
      /\ SumOf(cacheMap, DOMAIN cacheMap)
           = SumOf(cacheMap, C) + SumOf(cacheMap, DOMAIN cacheMap \ C)
  BY <1>3, SumSplit
<1>5. cacheMemory <= SumOf(cacheMap, C) + SumOf(cacheMap, DOMAIN cacheMap \ C)
  BY <1>3, <1>4
<1> QED
  BY <1>1, <1>2, <1>3, <1>4, <1>5, DischargeMemory

\* Neither the cache nor its counter changes.
LEMMA MemoryKept ==
    ASSUME MemoryInv, UNCHANGED <<cacheMap, cacheMemory>>
    PROVE  MemoryInv'
<1>1. NoPhantomMemory'
  BY SumInUse DEF MemoryInv
<1> QED
  BY <1>1 DEF MemoryInv, Limited

\* addAttr charges both counters for what it puts into the cache.
LEMMA AddAttrMemory ==
    ASSUME MemoryInv, CurrentOK, MapOK,
           NEW attr \in {"simple", "struct", "member"}, addAttr(attr)
    PROVE  MemoryInv'
<1> DEFINE c == current.ccb
           type == getAttrType(attr)
           temp == [tempCache(c) EXCEPT
                       !.attrs = @ \cup {type},
                       !.runtimeStruct = @ \/ (c = 0 /\ current.obj \in Structs)]
           with == WithDn(CcbCache(c), Temp, temp)
           put(bytes) == [with EXCEPT !.memory = updateMemory(@, bytes, 0)]
<1>1. current.pc = "attributes" /\ attr \in current.todo
  BY DEF addAttr
<1>2. type \in Attributes
  BY <1>1, AttrType
<1>3. temp \in DnCaches
  BY <1>2, TempCacheOK DEF DnCaches
<1>4. IsCcbCache(CcbCache(c))
  BY CcbCacheOK
<1>5. \/ discardAllCcbs({})
      \/ \E bytes \in Amounts :
            /\ cacheMap' = WithCcb(c, put(bytes))
            /\ cacheMemory' = updateMemory(withCcbCharged(c), bytes, 0)
      \/ UNCHANGED <<cacheMap, cacheMemory>>
  BY DEF addAttr, cacheVars
<1> HIDE DEF temp, c
<1>6. IsCcbCache(with) /\ with.memory = CcbCache(c).memory
  <2>1. Temp \in Mos \cup {Temp}
    OBVIOUS
  <2> QED
    BY <1>3, <1>4, <2>1, WithDnOK
<1>7. CASE discardAllCcbs({})
  BY <1>7, DiscardMemory
<1>8. CASE UNCHANGED <<cacheMap, cacheMemory>>
  BY <1>8, MemoryKept
<1>9. ASSUME NEW bytes \in Amounts, cacheMap' = WithCcb(c, put(bytes)),
             cacheMemory' = updateMemory(withCcbCharged(c), bytes, 0)
      PROVE  MemoryInv'
  <2> DEFINE m == updateMemory(with.memory, bytes, 0)
  <2>1. put(bytes) = [with EXCEPT !.memory = m]
    OBVIOUS
  <2> HIDE DEF with, put
  <2>2. [with EXCEPT !.memory = m].memory = m
    BY <1>6, MemoryOnly
  <2>3. put(bytes).memory = updateMemory(CcbCache(c).memory, bytes, 0)
    BY <1>6, <2>1, <2>2
  <2>4. bytes \in Nat /\ 0 \in Nat
    BY ConstantsAssumption
  <2> QED
    BY <1>9, <2>3, <2>4, ChargeMemory
<1> HIDE DEF put
<1> QED
  BY <1>5, <1>7, <1>8, <1>9

\* setDn charges and discharges both counters alike; the cache is discharged
\* for the CCB that has ended.
LEMMA SetDnMemory ==
    ASSUME MemoryInv, CurrentOK, MapOK, current.pc = "dn", setDn
    PROVE  MemoryInv'
<1> DEFINE c == current.ccb
           dn == DnOf(current.obj)
           old == CcbCache(c)
           set == dnCacheSet(old, dn, current.kind)
           with == WithDn(old, dn, set)
           new == deleteTempCache(with)
           put(change) == [new EXCEPT
                              !.memory = updateMemory(@, change[1], change[2])]
           memory(change) == updateMemory(withCcbCharged(c), change[1], change[2])
<1>1. current.obj \in Objects /\ current.kind \in EventTypes /\ dn \in Mos
  BY UnderWay, DnOfObject
<1>2. set \in DnCaches
  BY <1>1, DnCacheSetOK
<1>3. IsCcbCache(old)
  BY CcbCacheOK
<1>4. PICK change \in memoryChanges(old, dn) :
        \/ /\ cacheMap' = WithCcb(c, put(change))
           /\ cacheMemory' = memory(change)
        \/ /\ cacheMap' = WithoutCcbs({c})
           /\ cacheMemory' = discharged(memory(change), getMemory(put(change)))
  BY DEF setDn
<1>5. change[1] \in Nat /\ change[2] \in Nat
  <2>1. Amounts \subseteq Nat /\ 0 \in Nat
    BY ConstantsAssumption
  <2>2. memoryChanges(old, dn) \in {{<<0, 0>>}, Amounts \X {0},
                                    (Amounts \cup {0}) \X Amounts}
    <3> HIDE DEF old, dn
    <3> QED
      BY DEF memoryChanges
  <2> HIDE DEF old, dn
  <2> QED
    BY <1>4, <2>1, <2>2
<1> HIDE DEF set, old, dn
<1>6. IsCcbCache(with) /\ with.memory = old.memory
  BY <1>1, <1>2, <1>3, WithDnOK
<1> HIDE DEF with
<1>7. IsCcbCache(new) /\ new.memory = with.memory
  BY <1>6, DeleteTempOK
<1> DEFINE p == change[1]
           q == change[2]
           m == updateMemory(new.memory, p, q)
           k == put(change)
<1>8. k = [new EXCEPT !.memory = m]
  OBVIOUS
<1> HIDE DEF new, m, put
<1>9. k.memory = m
  BY <1>7, <1>8, MemoryOnly
<1>10. k.memory = updateMemory(CcbCache(c).memory, p, q)
  BY <1>6, <1>7, <1>9 DEF m, old
<1> HIDE DEF k, p, q, c
<1>11. p \in Nat /\ q \in Nat
  BY <1>5 DEF p, q
<1>12. \/ /\ cacheMap' = WithCcb(c, k)
          /\ cacheMemory' = updateMemory(withCcbCharged(c), p, q)
       \/ /\ cacheMap' = WithoutCcbs({c})
          /\ cacheMemory' = discharged(updateMemory(withCcbCharged(c), p, q),
                                       getMemory(k))
  BY <1>4 DEF k, p, q
<1>13. CASE /\ cacheMap' = WithCcb(c, k)
            /\ cacheMemory' = updateMemory(withCcbCharged(c), p, q)
  BY <1>10, <1>11, <1>13, ChargeMemory
<1>14. CASE /\ cacheMap' = WithoutCcbs({c})
            /\ cacheMemory' = discharged(updateMemory(withCcbCharged(c), p, q),
                                         getMemory(k))
  <2> DEFINE w == withCcbCharged(c)
             n == CcbCache(c).memory
             o == 1 + Others(c)
             memo == updateMemory(w, p, q)
  <2>1. /\ n \in Nat /\ w \in Nat /\ o \in Nat /\ w <= n + o
        /\ Others(c) \in Nat /\ (~Limited => w = 0)
    BY CacheCharges, ChargedWithCcb
  <2> HIDE DEF w, n, memo
  <2>2. k.memory = updateMemory(n, p, q) /\ memo = updateMemory(w, p, q)
    BY <1>10 DEF n, memo
  <2>3. k.memory \in Nat
    BY <1>11, <2>1, <2>2, Counters
  <2>4. memo \in Nat /\ (~Limited => memo = 0)
    BY <1>11, <2>1, <2>2, Counters
  <2>5. Limited => memo <= k.memory + o
    <3> HIDE DEF o
    <3> QED
      BY <1>11, <2>1, <2>2, CountersAlike
  <2>6. getMemory(k) \in Nat /\ getMemory(k) = 1 + k.memory
    BY <2>3 DEF getMemory, SizeOfCcbCache
  <2>7. memo <= getMemory(k) + Others(c)
    BY <2>1, <2>3, <2>4, <2>5, <2>6
  <2>8. memo <= getMemory(k) + SumOf(cacheMap, DOMAIN cacheMap \ {c})
    BY <2>7 DEF Others
  <2>9. cacheMemory' = discharged(memo, getMemory(k))
    BY <1>14 DEF memo, w
  <2> QED
    BY <1>14, <2>4, <2>6, <2>8, <2>9, DischargeMemory
<1> QED
  BY <1>12, <1>13, <1>14

\* Nothing is charged in the beginning, and after the cache was deleted.
LEMMA EmptyMemory ==
    /\ cacheMap = << >> /\ cacheMemory = 0 => MemoryInv
    /\ cacheMap' = << >> /\ cacheMemory' = 0 => MemoryInv'
<1>1. IsFiniteSet({}) /\ Charges(<< >>, {})
  BY FS_EmptySet DEF Charges
<1>2. SumOf(<< >>, {}) \in Nat /\ DOMAIN << >> = {}
  BY <1>1, SumSplit
<1> QED
  BY <1>1, <1>2, SumInUse DEF MemoryInv

\* Every step keeps the counters right.
LEMMA MemoryStep == ContentInv /\ MemoryInv /\ [Next]_vars => MemoryInv'
<1> SUFFICES ASSUME ContentInv, MemoryInv, [Next]_vars PROVE MemoryInv'
  OBVIOUS
<1>1. CurrentOK /\ MapOK
  BY DEF ContentInv, CacheInv
<1>2. CASE UNCHANGED <<cacheMap, cacheMemory>>
  BY <1>2, MemoryKept
<1>3. CASE stop_CmEventHandler
  BY <1>3, EmptyMemory DEF stop_CmEventHandler
<1>4. ASSUME NEW attr \in {"simple", "struct", "member"}, addAttr(attr)
      PROVE  MemoryInv'
  BY <1>1, <1>4, AddAttrMemory
<1>5. CASE setDnInCmCache
  <2>1. current.pc = "dn"
    BY <1>5 DEF setDnInCmCache
  <2>2. \/ UNCHANGED <<cacheMap, cacheMemory>> \/ setDn
        \/ discardAllCcbs(ccbsForgotten)
    BY <1>5 DEF setDnInCmCache
  <2> QED
    BY <1>1, <1>2, <2>1, <2>2, SetDnMemory, DiscardMemory
<1>6. \/ UNCHANGED <<cacheMap, cacheMemory>> \/ stop_CmEventHandler
      \/ \E attr \in {"simple", "struct", "member"} : addAttr(attr)
      \/ setDnInCmCache
  <2>1. start_CmEventHandler \/ RegexpFilter \/ pushOverflow \/ convertTo3GPPDN
          => UNCHANGED <<cacheMap, cacheMemory>>
    BY DEF start_CmEventHandler, RegexpFilter, pushOverflow, convertTo3GPPDN,
           cacheVars
  <2>2. Notify => UNCHANGED <<cacheMap, cacheMemory>>
    BY DEF Notify, convertCMNotificationHeader, cacheVars
  <2> QED
    BY <2>1, <2>2 DEF Next, vars, cacheVars
<1> QED
  BY <1>2, <1>3, <1>4, <1>5, <1>6

(***************************************************************************)
(* The cache is never charged for more than the CCBs in it, whatever the   *)
(* limit, the number of CCBs and the amounts: the counter of the cache and *)
(* those of the CCBs, which are cut off at 0 separately, do not drift      *)
(* apart so that an empty cache stays charged.                             *)
(***************************************************************************)
THEOREM MemoryAccounted == Spec => []NoPhantomMemory
<1>1. Init => ContentInv /\ MemoryInv
  BY ContentInit, EmptyMemory DEF Init
<1>2. (ContentInv /\ MemoryInv) /\ [Next]_vars => (ContentInv /\ MemoryInv)'
  BY ContentStep, MemoryStep
<1>3. MemoryInv => NoPhantomMemory
  BY DEF MemoryInv
<1> QED
  BY <1>1, <1>2, <1>3, PTL DEF Spec

-----------------------------------------------------------------------------
(***************************************************************************)
(* The types of the variables that no invariant above is about.            *)
(***************************************************************************)
RestOK ==
    /\ imm \in [Objects -> {"never", "there", "gone"}]
    /\ ended \subseteq Ccbs
    /\ notifications \in 0 .. MaxNotifications /\ starts \in 0 .. MaxStarts
    /\ {subscribed, producer, alreadySubscribed} \subseteq BOOLEAN
    /\ discardedCcbList \subseteq CcbIds /\ partial \subseteq Ccbs
    /\ faults \subseteq Faults

\* The CCB of a notification is one, or 0, also when there is none.
LEMMA CurrentCcb == CurrentOK => current.ccb \in CcbIds
  BY DEF CurrentOK, Current, NoNotification, CcbIds

\* discardAllCcbs lists CCBs of the cache.
LEMMA DiscardRest ==
    ASSUME RestOK, CurrentOK, MapOK, NEW forgotten, discardAllCcbs(forgotten)
    PROVE  /\ discardedCcbList' \subseteq CcbIds /\ partial' \subseteq Ccbs
           /\ faults' \subseteq Faults
<1>1. PICK C : Discarded(C, forgotten)
  BY DiscardCases
<1>2. C \subseteq CcbIds /\ current.ccb \in CcbIds
  BY <1>1, CurrentCcb DEF Discarded, MapOK
<1>3. discardedCcbList' \subseteq CcbIds
  BY <1>1, <1>2 DEF Discarded, RestOK
<1>4. partial' \subseteq Ccbs
  BY <1>1, <1>2 DEF Discarded, RestOK, CcbIds
<1>5. faults' \subseteq Faults
  <2>1. faults' \subseteq faults \cup {"iterator", "unlisted"} /\ faults \subseteq Faults
    BY <1>1 DEF Discarded, RestOK
  <2> QED
    BY <2>1 DEF Faults
<1> QED
  BY <1>3, <1>4, <1>5

\* The steps of the service.
LEMMA ServiceRest ==
    ASSUME RestOK,
           \/ start_CmEventHandler \/ RegexpFilter \/ stop_CmEventHandler
           \/ pushOverflow \/ convertTo3GPPDN
    PROVE  RestOK'
<1>1. /\ imm \in [Objects -> {"never", "there", "gone"}] /\ ended \subseteq Ccbs
      /\ notifications \in 0 .. MaxNotifications /\ starts \in 0 .. MaxStarts
      /\ subscribed \in BOOLEAN /\ producer \in BOOLEAN
      /\ alreadySubscribed \in BOOLEAN
      /\ discardedCcbList \subseteq CcbIds /\ partial \subseteq Ccbs
      /\ faults \subseteq Faults
  BY DEF RestOK
<1>2. UNCHANGED ntfVars
  BY DEF start_CmEventHandler, RegexpFilter, stop_CmEventHandler,
         pushOverflow, convertTo3GPPDN
<1>3. starts' \in 0 .. MaxStarts
  <2>1. starts' = starts \/ (starts < MaxStarts /\ starts' = starts + 1)
    BY DEF start_CmEventHandler, RegexpFilter, stop_CmEventHandler,
           pushOverflow, convertTo3GPPDN, startVars
  <2>2. MaxStarts \in Nat
    BY ConstantsAssumption
  <2> QED
    BY <1>1, <2>1, <2>2
<1>4. /\ subscribed' \in BOOLEAN /\ producer' \in BOOLEAN
      /\ alreadySubscribed' \in BOOLEAN
  BY <1>1 DEF start_CmEventHandler, RegexpFilter, stop_CmEventHandler,
              pushOverflow, convertTo3GPPDN, startVars, newProducer
<1>5. discardedCcbList' \subseteq CcbIds /\ partial' \subseteq Ccbs
  BY <1>1 DEF start_CmEventHandler, RegexpFilter, stop_CmEventHandler,
              pushOverflow, convertTo3GPPDN, cacheVars
<1>6. faults' \subseteq Faults
  <2>1. faults' = faults \/ faults' = faults \cup {"subscribe"}
        \/ faults' = faults \cup {"dn"}
    BY DEF start_CmEventHandler, RegexpFilter, stop_CmEventHandler,
           pushOverflow, convertTo3GPPDN, Note
  <2> QED
    BY <1>1, <2>1 DEF Faults
<1> QED
  BY <1>1, <1>2, <1>3, <1>4, <1>5, <1>6 DEF RestOK, ntfVars

\* A notification arrives.
LEMMA NotifyRest ==
    ASSUME RestOK, Notify
    PROVE  RestOK'
<1>1. PICK n : /\ convertCMNotificationHeader(n)
               /\ n.obj \in Objects /\ (n.last => n.ccb \in Ccbs)
  <2>1. PICK obj \in Objects, kind \in EventTypes :
          \E ccb \in (IF obj \in Runtime THEN {0} ELSE Ccbs \ ended),
             attrs \in (IF kind = "delete" THEN {{}} ELSE SUBSET AttributesOf(obj)),
             last \in (IF obj \in Runtime THEN {FALSE} ELSE BOOLEAN) :
               convertCMNotificationHeader(
                   [obj |-> obj, kind |-> kind, ccb |-> ccb, attrs |-> attrs,
                    last |-> last])
    BY DEF Notify
  <2>2. PICK ccb, attrs, last :
          /\ convertCMNotificationHeader(
                 [obj |-> obj, kind |-> kind, ccb |-> ccb, attrs |-> attrs,
                  last |-> last])
          /\ last => ccb \in Ccbs
    BY <2>1
  <2> DEFINE n == [obj |-> obj, kind |-> kind, ccb |-> ccb, attrs |-> attrs,
                   last |-> last]
  <2>3. n.obj = obj /\ n.ccb = ccb /\ n.last = last
    OBVIOUS
  <2> HIDE DEF n
  <2>4. convertCMNotificationHeader(n)
    BY <2>2 DEF n
  <2> QED
    BY <2>2, <2>3, <2>4
<1>2. /\ notifications < MaxNotifications
      /\ notifications' = notifications + 1
      /\ imm' = [imm EXCEPT ![n.obj] = IF n.kind = "delete" THEN "gone"
                                                            ELSE "there"]
      /\ ended' = IF n.last THEN ended \cup {n.ccb} ELSE ended
      /\ faults' \subseteq faults \cup {"struct", "unnotified"}
      /\ UNCHANGED <<startVars, cacheVars>>
  BY <1>1 DEF convertCMNotificationHeader
<1>3. notifications' \in 0 .. MaxNotifications
  <2>1. MaxNotifications \in Nat /\ notifications \in 0 .. MaxNotifications
    BY ConstantsAssumption DEF RestOK
  <2> QED
    BY <1>2, <2>1
<1>4. imm' \in [Objects -> {"never", "there", "gone"}]
  BY <1>1, <1>2 DEF RestOK
<1>5. ended' \subseteq Ccbs
  BY <1>1, <1>2 DEF RestOK
<1>6. faults' \subseteq Faults
  BY <1>2 DEF RestOK, Faults
<1> QED
  BY <1>2, <1>3, <1>4, <1>5, <1>6 DEF RestOK, startVars, cacheVars

\* Attributes and a DN are put into the cache.
LEMMA CacheRest ==
    ASSUME RestOK, CurrentOK, MapOK,
           \/ \E attr \in {"simple", "struct", "member"} : addAttr(attr)
           \/ setDnInCmCache
    PROVE  RestOK'
<1>1. UNCHANGED <<ntfVars, startVars>>
  BY DEF addAttr, setDnInCmCache
<1>2. \/ \E forgotten : discardAllCcbs(forgotten)
      \/ /\ discardedCcbList' \subseteq discardedCcbList
         /\ partial' = partial /\ faults' \subseteq faults \cup {"empty"}
  <2>1. ASSUME NEW attr \in {"simple", "struct", "member"}, addAttr(attr)
        PROVE  \/ \E forgotten : discardAllCcbs(forgotten)
               \/ UNCHANGED <<discardedCcbList, partial, faults>>
    BY <2>1 DEF addAttr, cacheVars
  <2>2. CASE setDnInCmCache
    <3>1. \/ discardAllCcbs(ccbsForgotten)
          \/ /\ discardedCcbList' \subseteq discardedCcbList
             /\ UNCHANGED partial /\ (UNCHANGED faults \/ setDn)
      BY <2>2 DEF setDnInCmCache
    <3>2. setDn => faults' \subseteq faults \cup {"empty"}
      BY DEF setDn, Note
    <3> QED
      BY <3>1, <3>2
  <2> QED
    BY <2>1, <2>2
<1>3. /\ discardedCcbList' \subseteq CcbIds /\ partial' \subseteq Ccbs
      /\ faults' \subseteq Faults
  <2>1. CASE \E forgotten : discardAllCcbs(forgotten)
    BY <2>1, DiscardRest
  <2>2. CASE /\ discardedCcbList' \subseteq discardedCcbList
             /\ partial' = partial /\ faults' \subseteq faults \cup {"empty"}
    BY <2>2 DEF RestOK, Faults
  <2> QED
    BY <1>2, <2>1, <2>2
<1> QED
  BY <1>1, <1>3 DEF RestOK, ntfVars, startVars

\* Every step keeps the types.
LEMMA RestStep == ContentInv /\ RestOK /\ [Next]_vars => RestOK'
<1> SUFFICES ASSUME ContentInv, RestOK, [Next]_vars PROVE RestOK'
  OBVIOUS
<1>1. CurrentOK /\ MapOK
  BY DEF ContentInv, CacheInv
<1>2. CASE UNCHANGED vars
  BY <1>2 DEF vars, ntfVars, startVars, cacheVars, RestOK
<1> QED
  BY <1>1, <1>2, ServiceRest, NotifyRest, CacheRest DEF Next

(***************************************************************************)
(* The types are kept: above all, the counters of memory are numbers, the  *)
(* cache holds DNs of managed objects and the temporary key only, an event *)
(* never names the temporary key, and a notification under way is complete *)
(* in every field.                                                         *)
(***************************************************************************)
THEOREM CmTypes == Spec => []TypeOK
<1>1. Init => ContentInv /\ MemoryInv /\ RestOK
  <2>1. Init => RestOK
    <3> SUFFICES ASSUME Init PROVE RestOK
      OBVIOUS
    <3>1. imm \in [Objects -> {"never", "there", "gone"}]
      BY DEF Init
    <3>2. notifications \in 0 .. MaxNotifications /\ starts \in 0 .. MaxStarts
      BY ConstantsAssumption DEF Init
    <3> QED
      BY <3>1, <3>2 DEF Init, RestOK
  <2> QED
    BY <2>1, ContentInit, EmptyMemory DEF Init
<1>2. (ContentInv /\ MemoryInv /\ RestOK) /\ [Next]_vars
        => (ContentInv /\ MemoryInv /\ RestOK)'
  BY ContentStep, MemoryStep, RestStep
<1>3. ContentInv /\ MemoryInv /\ RestOK => TypeOK
  <2> SUFFICES ASSUME ContentInv, MemoryInv, RestOK PROVE TypeOK
    OBVIOUS
  <2>1. /\ current \in Current /\ DOMAIN event.dns \subseteq Mos
        /\ DOMAIN cacheMap \subseteq CcbIds
    BY DEF ContentInv, CacheInv, CurrentOK, EventInv, MapOK
  <2>2. ASSUME NEW c \in DOMAIN cacheMap
        PROVE  /\ DOMAIN cacheMap[c].dns \subseteq Mos \cup {Temp}
               /\ Range(cacheMap[c].dns) \subseteq DnCaches
               /\ cacheMap[c].memory \in Nat
    BY DEF ContentInv, MapOK, IsCcbCache, MemoryInv, Range
  <2>3. cacheMemory \in Nat
    BY DEF MemoryInv
  <2> QED
    BY <2>1, <2>2, <2>3 DEF RestOK, TypeOK
<1> QED
  BY <1>1, <1>2, <1>3, PTL DEF Spec

=============================================================================
