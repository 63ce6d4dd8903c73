------------------------------ MODULE CmEvents ------------------------------
(***************************************************************************)
(* The CM events of COM SA: CmNotificationCache and CmEventHandler         *)
(* (ntf/CmEventHandler.cc), the subscription of the CM event producer      *)
(* (ntf/CmEventProducer.cc) and the conversion of NTF's notifications      *)
(* about IMM objects (convertCMNotificationHeader in ntf/ComSANtf.c).      *)
(*                                                                         *)
(* IMM has every change of an object notified, with the id of the CCB it   *)
(* belongs to and a mark on the last one; changes of runtime objects have  *)
(* CCB id 0.  The notifications of a CCB are collected in a cache, first   *)
(* the attributes under a temporary key (addAttr), then the DN (setDn);    *)
(* the last one makes an event of all of it, which is pushed to the        *)
(* consumers.  A struct attribute is an IMM object of its own, whose       *)
(* changes belong to the DN of its owner.  When the cache grows above a    *)
(* limit it is thrown away, an overflow event is pushed and the CCBs are   *)
(* put on a list, so that the rest of their notifications is ignored.      *)
(*                                                                         *)
(* A notification is handled under cm_notification_lock, which closing     *)
(* the service takes as well.  Attribute values are left out; bytes are    *)
(* counted in arbitrary amounts.                                           *)
(***************************************************************************)
EXTENDS Integers, FiniteSets, FiniteSetsExt, Functions

CONSTANTS
    Ccbs,              \* ids of CCBs, from 1
    Mos,               \* managed objects
    Structs,           \* objects that hold a struct attribute
    Owner,             \* [Structs -> Mos]
    Runtime,           \* the runtime objects
    Unnotified,        \* Mos that the MOM does not mark notifiable
    Present,           \* the objects there before the first notification
    maxSAMemoryForCMEvents,  \* the limit, 0: none
    Amounts,           \* sizes of what is put into the cache
    MaxNotifications,  \* bound: notifications IMM sends
    MaxStarts          \* bound: openings of the notification service

Objects == Mos \cup Structs
CcbIds  == Ccbs \cup {0}

ASSUME ConstantsAssumption ==
    /\ Ccbs \subseteq Nat \ {0}
    /\ Owner \in [Structs -> Mos]
    /\ Runtime \subseteq Objects /\ Unnotified \subseteq Mos \ Runtime
    /\ \A s \in Structs : s \in Runtime <=> Owner[s] \in Runtime
    /\ \A s \in Structs : Owner[s] \notin Unnotified
    /\ Present \subseteq Objects
    /\ \A s \in Structs : s \in Present => Owner[s] \in Present
    /\ Amounts \subseteq Nat \ {0}
    /\ {maxSAMemoryForCMEvents, MaxNotifications, MaxStarts} \subseteq Nat

VARIABLES
    imm,          \* IMM: whether an object is still to come, is there, is gone
    ended,        \* IMM: the CCBs whose last notification was sent
    notifications,\* notifications sent so far
    starts,       \* openings so far
    subscribed,   \* NTF: the CM subscription
    producer,     \* _cmEventProducer # NULL
    alreadySubscribed,
    cacheMap,     \* CmNotificationCache: [some CcbIds -> CcbCache]
    cacheMemory,  \* CmNotificationCache: bytes charged
    discardedCcbList,
    current,      \* the notification being converted, see Current
    event,        \* the last event pushed
    partial,      \* history: the CCBs of which a notification was given up
    noted,        \* history: what the notifications in the cache said
    expected,     \* history: what those of the event said
    faults        \* history: what has gone wrong so far, see Faults

ntfVars   == <<imm, ended, notifications>>
startVars == <<starts, subscribed, producer, alreadySubscribed>>
cacheVars == <<cacheMap, cacheMemory, discardedCcbList, partial, noted>>
eventVars == <<event, expected>>
vars == <<ntfVars, startVars, cacheVars, current, eventVars, faults>>

(***************************************************************************)
(* The attributes in a cache: a simple one, a reference to a struct, a     *)
(* runtime struct, or an element of a config struct, named by its object.  *)
(* All but the simple one belong to the same struct attribute.             *)
(***************************************************************************)
Attributes == {"simple", "reference", "runtime"} \cup Structs
EventTypes == {"create", "change", "delete"}

\* DnCache: eventTypeSet, modifiedRuntimeStructObject and the attributes;
\* modifiedReference says that a reference is among them.
DnCaches == [eventTypeSet : SUBSET EventTypes, runtimeStruct : BOOLEAN,
             attrs : SUBSET Attributes]
EmptyDn  == [eventTypeSet |-> {}, runtimeStruct |-> FALSE, attrs |-> {}]

\* tempCacheKey, which is not the DN of an object.
Temp == "TEMP_CACHE"

ASSUME TempAssumption == Temp \notin Mos

\* What the properties exclude by name.  "dn": a DN could not be translated;
\* "empty": a CCB that changed several objects ended with a change of no
\* attribute; "unnotified": a CCB with changes in the cache ended with a
\* notification that is not for a consumer; "struct": the last notification
\* of a discarded CCB was for a struct; "subscribe": NTF refused to subscribe;
\* "iterator": discardAllCcbs left CCBs in the cache; "unlisted": the CCB
\* whose notification met the limit was not in the cache, or left there, so
\* that it did not get on the list.
Faults == {"dn", "empty", "unnotified", "struct", "subscribe", "iterator",
           "unlisted"}

NoNotification == [pc |-> "none", obj |-> "none", kind |-> "none", ccb |-> 0,
                   last |-> FALSE, todo |-> {}, added |-> {}, send |-> FALSE]
Current == {NoNotification} \cup
           [pc : {"attributes", "dn"}, obj : Objects, kind : EventTypes,
            ccb : CcbIds, last : BOOLEAN,
            todo : SUBSET {"simple", "struct", "member"},
            added : SUBSET Attributes, send : BOOLEAN]

Overflow == [type |-> "overflow", dns |-> << >>]

TypeOK ==
    /\ imm \in [Objects -> {"never", "there", "gone"}]
    /\ ended \subseteq Ccbs
    /\ notifications \in 0 .. MaxNotifications /\ starts \in 0 .. MaxStarts
    /\ {subscribed, producer, alreadySubscribed} \subseteq BOOLEAN
    /\ DOMAIN cacheMap \subseteq CcbIds
    /\ \A c \in DOMAIN cacheMap :
          /\ DOMAIN cacheMap[c].dns \subseteq Mos \cup {Temp}
          /\ Range(cacheMap[c].dns) \subseteq DnCaches
          /\ cacheMap[c].memory \in Nat
    /\ cacheMemory \in Nat
    /\ discardedCcbList \subseteq CcbIds /\ partial \subseteq Ccbs
    /\ current \in Current
    /\ DOMAIN event.dns \subseteq Mos
    /\ faults \subseteq Faults

Init ==
    /\ imm = [obj \in Objects |-> IF obj \in Present THEN "there" ELSE "never"]
    /\ ended = {} /\ notifications = 0
    /\ starts = 0 /\ subscribed = FALSE
    /\ producer = FALSE /\ alreadySubscribed = FALSE
    /\ cacheMap = << >> /\ cacheMemory = 0 /\ discardedCcbList = {}
    /\ partial = {}
    /\ current = NoNotification
    /\ event = [type |-> "changes", dns |-> << >>] /\ expected = {}
    /\ noted = [c \in CcbIds |-> {}]
    /\ faults = {}

Note(fault, happened) == faults' = IF happened THEN faults \cup {fault}
                                               ELSE faults

DnOf(obj) == IF obj \in Structs THEN Owner[obj] ELSE obj

-----------------------------------------------------------------------------
(***************************************************************************)
(* Opening and closing the service, and the subscription, which the filter *)
(* of the first consumer brings about; its result is not looked at.        *)
(***************************************************************************)
\* Mutant: a new producer remembers an old subscription.
notSubscribedAnyMore == alreadySubscribed
newProducer == FALSE

start_CmEventHandler ==
    /\ ~producer /\ starts < MaxStarts
    /\ starts' = starts + 1 /\ producer' = TRUE
    /\ alreadySubscribed' = newProducer
    /\ UNCHANGED <<ntfVars, subscribed, cacheVars, current, eventVars, faults>>

RegexpFilter ==
    /\ producer /\ ~alreadySubscribed
    /\ alreadySubscribed' = TRUE
    /\ subscribed' \in BOOLEAN
    /\ Note("subscribe", ~subscribed')
    /\ UNCHANGED <<ntfVars, starts, producer, cacheVars, current, eventVars>>

\* The cache and the handler with its list are deleted; saNtfFinalize
\* follows, which ends the subscription even if the producer could not.
stop_CmEventHandler ==
    /\ producer /\ current = NoNotification
    /\ cacheMap' = << >> /\ cacheMemory' = 0 /\ discardedCcbList' = {}
    /\ partial' = {} /\ noted' = [c \in CcbIds |-> {}]
    /\ alreadySubscribed' \in {FALSE, alreadySubscribed}
    /\ producer' = FALSE /\ subscribed' = FALSE
    /\ UNCHANGED <<ntfVars, starts, current, eventVars, faults>>

-----------------------------------------------------------------------------
(***************************************************************************)
(* The memory counters: updateMemory charges or discharges the counter of  *)
(* the cache and that of the CCB alike; a counter does not get negative.   *)
(***************************************************************************)
Limited == maxSAMemoryForCMEvents # 0
MemoryExceeded == Limited /\ cacheMemory > maxSAMemoryForCMEvents

Less(memory, bytes) == Max({0, memory - bytes})

SizeOfCcbCache == 1
getMemory(ccbCache) == SizeOfCcbCache + ccbCache.memory

updateMemory(memory, plus, minus) ==
    IF Limited THEN Less(memory, minus) + plus ELSE memory

\* The counter of the cache once CcbCache c is there.
withCcbCharged(c) ==
    updateMemory(cacheMemory,
                 IF c \in DOMAIN cacheMap THEN 0 ELSE SizeOfCcbCache, 0)

\* Mutant: the memory of what is freed is not given back.
staysCharged(memory, bytes) == memory
discharged(memory, bytes) == IF Limited THEN Less(memory, bytes) ELSE memory

\* CcbCache c, which getCache makes when there is none.
CcbCache(c) == IF c \in DOMAIN cacheMap THEN cacheMap[c]
               ELSE [dns |-> << >>, memory |-> 0]

WithCcb(c, ccbCache) ==
    [k \in DOMAIN cacheMap \cup {c} |-> IF k = c THEN ccbCache ELSE cacheMap[k]]

WithoutCcbs(C) == Restrict(cacheMap, DOMAIN cacheMap \ C)

(***************************************************************************)
(* discardAllCcbs.  Its loop increments an iterator whose element it has   *)
(* erased: it may meet all CCBs, the first or only some, or crash (the     *)
(* behaviour that ends here).  The CCB in "forgotten" is taken off the     *)
(* list again by the caller.                                               *)
(***************************************************************************)
discardAllCcbsVisits(C) ==
    IF cacheMap = << >> THEN C = {}
    ELSE Min(DOMAIN cacheMap) \in C /\ C \subseteq DOMAIN cacheMap

\* Mutant: the CCBs taken out are not listed.
listsNone(C) == discardedCcbList
addDiscardedCcb(C) == discardedCcbList \cup C

MemoryOf(c) == getMemory(cacheMap[c])

discardAllCcbs(forgotten) ==
    \E C \in SUBSET DOMAIN cacheMap :
        /\ discardAllCcbsVisits(C)
        /\ discardedCcbList' = addDiscardedCcb(C) \ forgotten
        /\ cacheMemory' = discharged(cacheMemory, MapThenSumSet(MemoryOf, C))
        /\ cacheMap' = WithoutCcbs(C)
        /\ noted' = [c \in CcbIds |-> IF c \in C THEN {} ELSE noted[c]]
        /\ partial' = partial \cup ((C \cup {current.ccb}) \ {0})
        /\ event' = Overflow
        /\ faults' = faults
             \cup (IF C # DOMAIN cacheMap THEN {"iterator"} ELSE {})
             \cup (IF current.ccb \notin C THEN {"unlisted"} ELSE {})
        /\ UNCHANGED expected

-----------------------------------------------------------------------------
(***************************************************************************)
(* IMM and NTF (external): a change of an object is notified, as part of a *)
(* CCB that has not ended or, for a runtime object, by itself.  Only the   *)
(* attributes that the MOM marks notifiable are in "attrs".                *)
(***************************************************************************)
AttributesOf(obj) ==
    IF obj \in Structs THEN {"member"}
    ELSE {a \in {"simple", "struct"} :
            /\ obj \notin Unnotified
            /\ a = "struct" => \E s \in Structs : Owner[s] = obj}

Possible(kind, obj) ==
    CASE kind = "create" -> /\ imm[obj] = "never"
                            /\ obj \in Structs => imm[Owner[obj]] = "there"
      [] kind = "change" -> imm[obj] = "there"
      [] kind = "delete" -> /\ imm[obj] = "there"
                            /\ \A s \in Structs :
                                  Owner[s] = obj => imm[s] # "there"

\* convertCMNotificationHeader up to the attributes: where the CCB id and
\* the mark of the last notification are read from, and whether there will
\* be a call of setDn.  The deletion of an object that is not notifiable is
\* taken for one of a runtime object; the struct branch leaves its loop at
\* the id of a discarded CCB, before it comes to the mark.
\* Mutant: the list of discarded CCBs is not consulted.
isDiscardedNever(ccb) == FALSE
isDiscardedCcb(ccb) == ccb \in discardedCcbList

ccbIdRead(n) == IF n.kind = "delete" /\ n.obj \in Unnotified THEN 0 ELSE n.ccb
ccbLastRead(n) ==
    /\ n.last
    /\ ~(n.kind = "delete" /\ n.obj \in Unnotified)
    /\ ~(n.kind # "delete" /\ n.obj \in Structs /\ isDiscardedCcb(n.ccb))

sendsetDnInCmCache(n) ==
    /\ ~isDiscardedCcb(ccbIdRead(n))
    /\ \/ n.kind = "delete" /\ ~(n.obj \in Structs /\ n.ccb = 0)
       \/ n.kind # "delete" /\ n.obj \in Structs
       \/ n.kind = "create" /\ n.obj \notin Structs \cup Unnotified
       \/ n.kind = "change" /\ n.obj \notin Structs /\ n.attrs # {}

convertCMNotificationHeader(n) ==
    /\ current = NoNotification /\ subscribed
    /\ notifications < MaxNotifications
    /\ Possible(n.kind, n.obj)
    /\ notifications' = notifications + 1
    /\ imm' = [imm EXCEPT ![n.obj] = IF n.kind = "delete" THEN "gone"
                                                          ELSE "there"]
    /\ ended' = IF n.last THEN ended \cup {n.ccb} ELSE ended
    /\ LET discarded == isDiscardedCcb(ccbIdRead(n)) IN
       current' = [pc |-> "attributes", obj |-> n.obj, kind |-> n.kind,
                   ccb |-> ccbIdRead(n), last |-> ccbLastRead(n),
                   todo |-> IF discarded THEN {} ELSE n.attrs,
                   added |-> {}, send |-> sendsetDnInCmCache(n)]
    /\ faults' = faults
         \cup (IF n.last /\ isDiscardedCcb(n.ccb) /\ n.obj \in Structs
                  /\ ~ccbLastRead(n) THEN {"struct"} ELSE {})
         \cup (IF n.last /\ \/ ccbIdRead(n) # n.ccb
                            \/ ~(sendsetDnInCmCache(n) \/ isDiscardedCcb(n.ccb))
               THEN {"unnotified"} ELSE {})
    /\ UNCHANGED <<startVars, cacheVars, eventVars>>

Notify ==
    \E obj \in Objects, kind \in EventTypes :
       \E ccb \in (IF obj \in Runtime THEN {0} ELSE Ccbs \ ended),
          attrs \in (IF kind = "delete" THEN {{}}
                     ELSE SUBSET AttributesOf(obj)),
          last \in (IF obj \in Runtime THEN {FALSE} ELSE BOOLEAN) :
             convertCMNotificationHeader(
                 [obj |-> obj, kind |-> kind, ccb |-> ccb, attrs |-> attrs,
                  last |-> last])

(***************************************************************************)
(* addAttr for one attribute: above the limit the cache is thrown away and *)
(* the notification given up; an attribute whose type is not known         *)
(* (getAttributeValuesContainerValue) does not get into the cache.         *)
(***************************************************************************)
getAttrType(attr) ==
    CASE attr = "simple" -> "simple"
      [] attr # "simple" /\ current.ccb = 0 -> "runtime"
      [] attr = "member" /\ current.ccb # 0 -> current.obj
      [] attr = "struct" /\ current.ccb # 0 -> "reference"

tempCache(c) == IF Temp \in DOMAIN CcbCache(c).dns
                THEN CcbCache(c).dns[Temp] ELSE EmptyDn

WithDn(ccbCache, dn, dnCache) ==
    [ccbCache EXCEPT !.dns = [d \in DOMAIN ccbCache.dns \cup {dn} |->
                                IF d = dn THEN dnCache ELSE ccbCache.dns[d]]]

addAttr(attr) ==
    LET c == current.ccb
        temp == [tempCache(c) EXCEPT
                    !.attrs = @ \cup {getAttrType(attr)},
                    !.runtimeStruct = @ \/ (c = 0 /\ current.obj \in Structs)]
    IN
    /\ current.pc = "attributes" /\ attr \in current.todo
    /\ UNCHANGED <<ntfVars, startVars>>
    /\ \/ /\ MemoryExceeded
          /\ discardAllCcbs({})
          /\ current' = [current EXCEPT !.todo = {}, !.send = FALSE]
       \/ /\ ~MemoryExceeded
          /\ \E bytes \in Amounts :
             /\ cacheMap' = WithCcb(c, [WithDn(CcbCache(c), Temp, temp) EXCEPT
                                           !.memory = updateMemory(@, bytes, 0)])
             /\ cacheMemory' = updateMemory(withCcbCharged(c), bytes, 0)
          /\ current' = [current EXCEPT !.todo = @ \ {attr},
                                        !.added = @ \cup {getAttrType(attr)}]
          /\ UNCHANGED <<discardedCcbList, partial, noted, eventVars, faults>>
       \/ /\ current' = [current EXCEPT !.todo = @ \ {attr}]
          /\ UNCHANGED <<cacheVars, eventVars, faults>>

\* The name of the object is translated to a DN; when that fails the rest is
\* left out, and what is under the temporary key stays there.
convertTo3GPPDN ==
    /\ current.pc = "attributes" /\ current.todo = {}
    /\ \/ /\ current' = [current EXCEPT !.pc = "dn"]
          /\ UNCHANGED faults
       \/ /\ current.kind # "delete"
          /\ current' = NoNotification
          /\ Note("dn", TRUE)
    /\ UNCHANGED <<ntfVars, startVars, cacheVars, eventVars>>

-----------------------------------------------------------------------------
(***************************************************************************)
(* setDn: what was collected under the temporary key is put under the DN,  *)
(* or joined with what is there.  modifiedRuntimeStructObject is not       *)
(* copied when they are joined.                                            *)
(***************************************************************************)
\* Mutant: what was cached for the DN is overwritten.
tempReplaces(old, temp) == temp
\* Mutant: the event type is not joined.
joinedWithoutType(old, temp) ==
    [old EXCEPT !.attrs = @ \cup temp.attrs]
joined(old, temp) ==
    [old EXCEPT !.eventTypeSet = @ \cup temp.eventTypeSet,
                !.attrs = @ \cup temp.attrs]

dnCacheSet(ccbCache, dn, type) ==
    LET temp == [tempCache(current.ccb) EXCEPT !.eventTypeSet = {type}]
    IN CASE Temp \notin DOMAIN ccbCache.dns /\ dn \notin DOMAIN ccbCache.dns ->
              [EmptyDn EXCEPT !.eventTypeSet = {type}]
         [] Temp \notin DOMAIN ccbCache.dns /\ dn \in DOMAIN ccbCache.dns ->
              ccbCache.dns[dn]
         [] Temp \in DOMAIN ccbCache.dns /\ dn \in DOMAIN ccbCache.dns ->
              joined(ccbCache.dns[dn], temp)
         [] OTHER -> temp

\* Mutant: the temporary key is not deleted.
keepsTempCache(ccbCache) == ccbCache
deleteTempCache(ccbCache) ==
    [ccbCache EXCEPT !.dns = Restrict(@, DOMAIN @ \ {Temp})]

\* The event type of a DN, from the types that its notifications had.
getEventType(dnCache) ==
    IF dnCache.runtimeStruct \/ "change" \in dnCache.eventTypeSet THEN "change"
    ELSE IF "create" \in dnCache.eventTypeSet THEN "create"
    ELSE IF "delete" \in dnCache.eventTypeSet THEN "delete"
    ELSE IF "reference" \in dnCache.attrs THEN "change"
    ELSE "overflow"

buildEventStruct(ccbCache) ==
    [type |-> "changes",
     dns |-> [d \in DOMAIN ccbCache.dns |->
                [type |-> getEventType(ccbCache.dns[d]),
                 attrs |-> ccbCache.dns[d].attrs]]]

\* Every notification of a runtime object is the last.
lastInCcb == current.last \/ current.ccb = 0

\* A change that left its DN without attributes is not sent.
nothingToSend(ccbCache, dn) ==
    ccbCache.dns[dn].attrs = {} /\ current.kind = "change"

\* What updateMemory is called with: a new DnCache is charged; one that is
\* joined is discharged, and the attributes new to the DN are charged.
memoryChanges(ccbCache, dn) ==
    CASE ~Limited \/ (Temp \in DOMAIN ccbCache.dns) # (dn \in DOMAIN ccbCache.dns)
              -> {<<0, 0>>}
      [] Limited /\ Temp \notin DOMAIN ccbCache.dns
                 /\ dn \notin DOMAIN ccbCache.dns -> Amounts \X {0}
      [] OTHER -> (Amounts \cup {0}) \X Amounts

setDn ==
    LET c == current.ccb
        dn == DnOf(current.obj)
        old == CcbCache(c)
        new == deleteTempCache(WithDn(old, dn,
                                      dnCacheSet(old, dn, current.kind)))
        said == noted[c] \cup ({dn} \X (current.added \cup {"named"}))
    IN \E change \in memoryChanges(old, dn) :
       LET ccbCache == [new EXCEPT
                           !.memory = updateMemory(@, change[1], change[2])]
           memory == updateMemory(withCcbCharged(c), change[1], change[2])
       IN IF ~lastInCcb
          THEN /\ cacheMap' = WithCcb(c, ccbCache)
               /\ cacheMemory' = memory
               /\ noted' = [noted EXCEPT ![c] = said]
               /\ UNCHANGED <<eventVars, faults>>
          ELSE /\ IF nothingToSend(ccbCache, dn)
                  THEN /\ Note("empty", DOMAIN ccbCache.dns # {dn})
                       /\ UNCHANGED eventVars
                  ELSE /\ event' = buildEventStruct(ccbCache)
                       /\ expected' = said
                       /\ UNCHANGED faults
               /\ cacheMap' = WithoutCcbs({c})
               /\ cacheMemory' = discharged(memory, getMemory(ccbCache))
               /\ noted' = [noted EXCEPT ![c] = {}]

\* removeDiscardedCcb, at the end of convertCMNotificationHeader, is called
\* for the CCBs in this set.
\* Mutant: the id is forgotten only when an event is sent.
ccbsForgottenWithEvent == IF current.send /\ (current.last \/ current.ccb = 0)
                          THEN {current.ccb} ELSE {}
ccbsForgotten == IF current.last \/ (current.send /\ current.ccb = 0)
                 THEN {current.ccb} ELSE {}

setDnInCmCache ==
    /\ current.pc = "dn"
    /\ current' = NoNotification
    /\ \/ /\ ~current.send
          /\ discardedCcbList' = discardedCcbList \ ccbsForgotten
          /\ UNCHANGED <<cacheMap, cacheMemory, partial, noted, eventVars,
                         faults>>
       \/ /\ current.send /\ ~MemoryExceeded /\ setDn
          /\ UNCHANGED partial
          /\ discardedCcbList' = discardedCcbList \ ccbsForgotten
       \/ /\ current.send /\ MemoryExceeded
          /\ discardAllCcbs(ccbsForgotten)
    /\ UNCHANGED <<ntfVars, startVars>>

\* cmNotificationCallback: NTF tells that notifications were lost.
pushOverflow ==
    /\ current = NoNotification /\ subscribed
    /\ event' = Overflow
    /\ UNCHANGED <<ntfVars, startVars, cacheVars, current, expected, faults>>

Next ==
    \/ start_CmEventHandler \/ RegexpFilter \/ stop_CmEventHandler
    \/ Notify \/ pushOverflow
    \/ \E attr \in {"simple", "struct", "member"} : addAttr(attr)
    \/ convertTo3GPPDN \/ setDnInCmCache

Spec == Init /\ [][Next]_vars

-----------------------------------------------------------------------------
(***************************************************************************)
(* The event of a CCB carries every attribute of every object that the     *)
(* notifications of the CCB named since the cache was last thrown away,    *)
(* under the DN it belongs to, and no other (addAttr, setDn,               *)
(* buildEventStruct), unless a DN could not be translated or the loop in   *)
(* discardAllCcbs went wrong, which leave attributes under the temporary   *)
(* key.                                                                    *)
(***************************************************************************)
EventTellsChanges ==
    event.type = "changes" /\ faults \cap {"dn", "iterator"} = {} =>
        expected = UNION { {d} \X (event.dns[d].attrs \cup {"named"}) :
                             d \in DOMAIN event.dns }

(***************************************************************************)
(* MafOamSpiCmEvent_1.h on the attributes of an event: none if the type is *)
(* MafOamSpiCmEvent_MoDeleted.  And an object's event is never of the type *)
(* Overflow, with which getEventType begins.  The same faults excepted.    *)
(***************************************************************************)
EventTypesFit ==
    faults \cap {"dn", "iterator"} = {} =>
        \A d \in DOMAIN event.dns :
            /\ event.dns[d].type # "overflow"
            /\ event.dns[d].type = "delete" => event.dns[d].attrs = {}

(***************************************************************************)
(* The cache is never charged for more than the CCBs in it, so an empty    *)
(* cache is charged for nothing: an overflow cannot repeat itself for ever *)
(* by bytes that nobody can free (updateMemory, discardAllCcbs, setDn).    *)
(***************************************************************************)
NoPhantomMemory == cacheMemory <= MapThenSumSet(MemoryOf, DOMAIN cacheMap)

(***************************************************************************)
(* Nothing is collected for a CCB on the list of discarded CCBs: after an  *)
(* overflow event no event tells a part of a CCB as if it were the whole.  *)
(***************************************************************************)
DiscardedNotCached == discardedCcbList \cap DOMAIN cacheMap = {}

(***************************************************************************)
(* The comment on _discardedCcbList: "the active CCB IDs that are          *)
(* discarded".  A CCB that has ended is neither on the list nor in the     *)
(* cache, unless a notification was not for a consumer or not translated,  *)
(* the last one was for a struct of a discarded CCB, or the loop in        *)
(* discardAllCcbs went wrong.                                              *)
(***************************************************************************)
CcbLeavesNothing ==
    (current = NoNotification
       /\ faults \cap {"dn", "unnotified", "struct", "iterator"} = {})
    => ended \cap (DOMAIN cacheMap \cup discardedCcbList) = {}

(***************************************************************************)
(* While a consumer has a filter, NTF has the subscription, over closings  *)
(* and openings of the service (RegexpFilter, alreadySubscribed), unless   *)
(* NTF refused it.                                                         *)
(***************************************************************************)
FilterMeansSubscribed ==
    producer /\ alreadySubscribed /\ "subscribe" \notin faults => subscribed

(***************************************************************************)
(* The cache implements CmEventSpec: a transaction is told once, as a      *)
(* whole, or an overflow is and then nothing of the transaction any more;  *)
(* see "empty" and "unlisted" for the exceptions.                          *)
(***************************************************************************)
Promise == INSTANCE CmEventSpec WITH
    Transactions <- CcbIds,
    Objects <- Mos,
    changes <- [c \in CcbIds |-> IF c \in DOMAIN cacheMap
                                 THEN DOMAIN cacheMap[c].dns \ {Temp} ELSE {}],
    told <- [lost |-> event.type = "overflow", objects |-> DOMAIN event.dns],
    lost <- partial,
    excused <- faults \cap {"empty", "unlisted"} # {}

PromiseKept == Promise!Spec

=============================================================================
