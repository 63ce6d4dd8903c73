------------------------------ MODULE OIProxy ------------------------------
(***************************************************************************)
(* The object implementer proxy (OIproxy/OamSAOIProxy.cc and               *)
(* OamSAOIProxyStructCache.cc): the changes of an IMM CCB, and             *)
(* administrative operations and reads of runtime attributes, become       *)
(* transactions of the registered COM component.                           *)
(*                                                                         *)
(* IMM waits for the callbacks of the main implementer, so a change and    *)
(* its callback are one step.  It does not wait for an applier: changes of *)
(* struct attributes queue on a file descriptor of their own.  One thread  *)
(* dispatches both, so a callback is one step; the registrar runs beside   *)
(* it.  The values of a struct attribute arrive one by one and are         *)
(* collected in the struct cache, which is sent with the next change of    *)
(* something else, or when the CCB is completed.                           *)
(*                                                                         *)
(* A change is abstracted to the component it is meant for and to whether  *)
(* it concerns a struct attribute.                                         *)
(***************************************************************************)
EXTENDS OIRegistry, Sequences

CONSTANTS
    Ccbs,        \* identifiers of CCBs
    FirstAdmin,  \* the first identifier an administrative operation tries
    MaxOps       \* bound: changes, administrative operations and reads

ASSUME ProxyAssumption ==
    /\ Ccbs \subseteq Nat \ {0} /\ FirstAdmin \in Nat /\ MaxOps \in Nat
    /\ \A r \in Regs : Struct[r] = Struct[ClassOf[r]]
    /\ None \notin Regs \X CtClasses

VARIABLES
    ccb,          \* IMM: the phase of each CCB and who is involved in it
    applierQueue, \* callbacks of the applier that are not dispatched yet
    txs,          \* the transactions of the transaction master
    ccbTxMap,     \* identifier -> transaction
    cache,        \* attrStructCache
    applierError, \* ccbApplierError
    wanted,       \* history: the changes of each CCB, in the order of IMM
    ops,          \* changes, operations and reads so far
    faults        \* history: <<kind, CCB>> of what the code does not handle

proxyVars == <<ccb, applierQueue, txs, ccbTxMap, cache, applierError, wanted,
               ops, faults>>
vars == <<registryVars, proxyVars>>

(***************************************************************************)
(* The faults:                                                             *)
(*   late          a callback of the main implementer was dispatched while *)
(*                 one of the applier of the same CCB was waiting          *)
(*   uninvolved    only the applier knows of the CCB: nobody completes it  *)
(*   unregistered  the registration came or went during the CCB            *)
(*   moIf          cached values went to another component's interface     *)
(*   clear         an attribute with cached values was emptied             *)
(*   skipped       a callback answered OK without the change: the class of *)
(*                 the object could not be had from IMM, or its name could *)
(*                 not be translated                                       *)
(*   leak          an early return left a transaction open                 *)
(***************************************************************************)
FaultKinds == {"late", "uninvolved", "unregistered", "moIf", "clear", "skipped",
               "leak"}

Objects == Regs \ Classes
Paths == Objects \X CtClasses
Changes == {"object", "clear", "struct"} \X Components

States == {"open", "prepared", "committed", "aborted"}
Ended == {"committed", "aborted"}

Transactions == [ccb : Ccbs \cup {0}, state : States, got : Seq(Changes)]
NoTx == [ccb |-> 0, state |-> "open", got |-> <<>>]

\* A change of a struct attribute, or the end of a CCB.  History: the
\* component that the change is meant for, and the place it has in "wanted".
Callbacks ==
    [ccb : Ccbs, path : Paths, owner : Components \cup {None}, nr : Nat]
    \cup [ccb : Ccbs, path : {None}, owner : {None}, nr : {0}]

CacheEntries ==
    [moIf : Components \cup {None}, inUse : BOOLEAN, key : Paths \cup {None},
     values : Seq(Changes)]
Unused == [moIf |-> None, inUse |-> FALSE, key |-> None, values |-> <<>>]
NotStarted == [phase |-> "none", main |-> FALSE, applier |-> FALSE]

TypeOK ==
    /\ RegistryTypeOK
    /\ ccb \in [Ccbs -> [phase : {"none", "open", "vetoed", "prepared", "over"},
                         main : BOOLEAN, applier : BOOLEAN]]
    /\ applierQueue \in Seq(Callbacks)
    /\ txs \in Seq(Transactions)
    /\ DOMAIN ccbTxMap \subseteq Nat
    /\ \A c \in DOMAIN ccbTxMap : ccbTxMap[c] \in DOMAIN txs
    /\ cache \in [Ccbs -> CacheEntries]
    /\ \A c \in Ccbs : IF cache[c].inUse
                       THEN cache[c].key # None /\ cache[c].moIf # None
                       ELSE cache[c].key = None /\ cache[c].values = <<>>
    /\ applierError \subseteq Ccbs
    /\ wanted \in [Ccbs -> Seq(Changes)]
    /\ ops \in 0 .. MaxOps
    /\ faults \subseteq FaultKinds \X (Ccbs \cup {0})

Init ==
    /\ RegistryInit
    /\ ccb = [c \in Ccbs |-> NotStarted]
    /\ applierQueue = <<>> /\ txs = <<>> /\ ccbTxMap = <<>>
    /\ cache = [c \in Ccbs |-> Unused] /\ applierError = {}
    /\ wanted = [c \in Ccbs |-> <<>>] /\ ops = 0 /\ faults = {}

-----------------------------------------------------------------------------
(***************************************************************************)
(* The registration that serves an object: its own before that of its      *)
(* class.  A new object can only be served by its class.                   *)
(***************************************************************************)
servingObject(o) ==
    IF registered[o] # None THEN registered[o] ELSE registered[ClassOf[o]]

serving(kind, o) ==
    IF kind = "create" THEN registered[ClassOf[o]] ELSE servingObject(o)

servingPath(path) ==
    IF existRegisteredCTClassAttr(path[1], path[2]) THEN ctOwner[path]
    ELSE ctOwner[<<ClassOf[path[1]], path[2]>>]

\* IMM calls the main implementer
calledFor(kind, o) ==
    ClassOf[o] \in implemented \/ (kind # "create" /\ o \in implemented)

getCcbApplierError(c) == c \in applierError

\* Mutant: the transaction stays in the map.
keepsCcbTransaction(map, c) == map
removeCcbTransaction(map, c) == [d \in DOMAIN map \ {c} |-> map[d]]

(***************************************************************************)
(* openTransaction: the outcomes, with the transaction when there is one.  *)
(* A new transaction is in the map before a component joins it.            *)
(***************************************************************************)
openTransaction(c, id) ==
    LET known == id \in DOMAIN ccbTxMap
        h == IF known THEN ccbTxMap[id] ELSE Len(txs) + 1
        opened == IF known THEN txs ELSE Append(txs, [NoTx EXCEPT !.ccb = c])
        map == [d \in DOMAIN ccbTxMap \cup {id} |->
                   IF d = id THEN h ELSE ccbTxMap[d]]
    IN {[ok |-> FALSE, h |-> h, txs |-> txs, map |-> ccbTxMap]}
       \cup [ok : BOOLEAN, h : {h}, txs : {opened}, map : {map}]

-----------------------------------------------------------------------------
(***************************************************************************)
(* The struct cache.  The interface of the component is stored when the    *)
(* memory of the CCB is allocated, and no later.                           *)
(***************************************************************************)
\* Mutant: the values are left in the cache.
cleanKeepsValues(k) == [k EXCEPT !.inUse = FALSE]
cleanCcbId(k) == [k EXCEPT !.inUse = FALSE, !.key = None, !.values = <<>>]

\* OIProxy_cache_sendMoData and cleanCcbId, when there is something to send
delivered(k) == [i \in DOMAIN k.values |-> <<k.values[i][1], k.moIf>>]

sendCache(t, k) ==
    IF ~k.inUse THEN {[ok |-> TRUE, tx |-> t, cache |-> k]}
    ELSE {[ok |-> TRUE, cache |-> cleanCcbId(k),
           tx |-> [t EXCEPT !.got = @ \o delivered(k)]],
          [ok |-> FALSE, tx |-> t, cache |-> k]}

\* OIProxy_cache_createMo, deleteMo, setMoAttribute of a simple attribute
sendChange(t, k, change) ==
    LET sent == sendCache(t, k)
    IN {[s EXCEPT !.tx.got = Append(@, change)] : s \in {r \in sent : r.ok}}
       \cup {[s EXCEPT !.ok = FALSE] : s \in sent}

\* addAttrValueContainer: the values of an emptied attribute are none, so
\* nothing is added to those that are cached.
addAttrValueContainer(k, path, change) ==
    [moIf |-> IF k.moIf = None THEN change[2] ELSE k.moIf,
     inUse |-> TRUE, key |-> path,
     values |-> IF change[1] = "clear" /\ k.values # <<>> THEN k.values
                ELSE Append(k.values, change)]

\* OIProxy_cache_setMoAttribute of a struct attribute
setStructAttribute(t, k, path, change) ==
    LET sent == IF k.inUse /\ k.key # path THEN sendCache(t, k)
                ELSE {[ok |-> TRUE, tx |-> t, cache |-> k]}
    IN {IF s.ok THEN [s EXCEPT !.cache = addAttrValueContainer(@, path, change)]
        ELSE s : s \in sent}

\* what setStructAttribute does not take care of
cacheFaults(c, k, path, change) ==
    (IF change[1] = "clear" /\ k.key = path THEN {<<"clear", c>>} ELSE {})
    \cup (IF k.moIf \notin {None, change[2]} THEN {<<"moIf", c>>} ELSE {})

-----------------------------------------------------------------------------
(***************************************************************************)
(* The callbacks of the main implementer.  A refused change vetoes the CCB *)
(* in IMM, which then can only abort it.                                   *)
(***************************************************************************)
lateFaults(c) ==
    {<<"late", c>> : i \in {i \in DOMAIN applierQueue :
                               applierQueue[i].ccb = c /\ applierQueue[i].path # None}}

mainPhase(c, phase) ==
    ccb' = [ccb EXCEPT ![c].phase = phase, ![c].main = TRUE]

\* Why a change is answered with OK and not made: getRDNAttribute or
\* parseImmDN failed, or nobody is registered for what is not new.
missed(kind, owner) ==
    {"skipped"} \cup IF kind # "create" /\ owner = None THEN {"unregistered"}
                                                       ELSE {}

mainCallback(c, kind, o, path) ==
    LET owner == serving(kind, o)
        change == <<IF kind = "clear" THEN kind ELSE "object", owner>>
        do(t, k) == IF kind = "clear" THEN setStructAttribute(t, k, path, change)
                                      ELSE sendChange(t, k, change)
    IN /\ ccb[c].phase \in {"none", "open"} /\ ops < MaxOps
       /\ calledFor(kind, o)
       /\ ops' = ops + 1
       /\ wanted' = IF owner = None THEN wanted
                    ELSE [wanted EXCEPT ![c] = Append(@, change)]
       /\ \/ /\ getCcbApplierError(c) \/ (kind = "create" /\ owner = None)
             /\ mainPhase(c, "vetoed")
             /\ faults' = faults \cup lateFaults(c)
             /\ UNCHANGED <<txs, ccbTxMap, cache>>
          \/ /\ ~getCcbApplierError(c)
             /\ mainPhase(c, "open")
             /\ \E fault \in missed(kind, owner) :
                   faults' = faults \cup lateFaults(c) \cup {<<fault, c>>}
             /\ UNCHANGED <<txs, ccbTxMap, cache>>
          \/ /\ ~getCcbApplierError(c) /\ owner # None
             /\ \E t \in openTransaction(c, c) :
                  /\ ccbTxMap' = t.map
                  /\ \/ /\ ~t.ok
                        /\ txs' = t.txs /\ mainPhase(c, "vetoed")
                        /\ faults' = faults \cup lateFaults(c)
                        /\ UNCHANGED cache
                     \/ /\ t.ok
                        /\ \E s \in do(t.txs[t.h], cache[c]) :
                             /\ txs' = [t.txs EXCEPT ![t.h] = s.tx]
                             /\ cache' = [cache EXCEPT ![c] = s.cache]
                             /\ mainPhase(c, IF s.ok THEN "open" ELSE "vetoed")
                        /\ faults' = faults \cup lateFaults(c) \cup
                              IF kind = "clear"
                              THEN cacheFaults(c, cache[c], path, change) ELSE {}
       /\ UNCHANGED <<registryVars, applierQueue, applierError>>

handleCcbCreateObject(c, o) == mainCallback(c, "create", o, None)
handleCcbDeleteObject(c, o) == mainCallback(c, "delete", o, None)

\* Of a struct attribute only the removal of all values is handled here.
handleCcbModification(c, o) ==
    \/ mainCallback(c, "modify", o, None)
    \/ \E ct \in Struct[o] : mainCallback(c, "clear", o, <<o, ct>>)

handleCcbCompletedDone(c) ==
    \/ /\ getCcbApplierError(c)
       /\ mainPhase(c, "vetoed") /\ UNCHANGED <<txs, ccbTxMap, cache>>
    \/ /\ ~getCcbApplierError(c) /\ c \notin DOMAIN ccbTxMap
       /\ mainPhase(c, "prepared") /\ UNCHANGED <<txs, ccbTxMap, cache>>
    \/ /\ ~getCcbApplierError(c) /\ c \in DOMAIN ccbTxMap
       /\ LET h == ccbTxMap[c] IN
          \E s \in sendCache(txs[h], cache[c]) :
             \/ /\ ~s.ok
                /\ mainPhase(c, "vetoed") /\ UNCHANGED <<txs, ccbTxMap, cache>>
             \/ /\ s.ok
                /\ txs' = [txs EXCEPT ![h] = [s.tx EXCEPT !.state = "prepared"]]
                /\ cache' = [cache EXCEPT ![c] = s.cache]
                /\ mainPhase(c, "prepared") /\ UNCHANGED ccbTxMap
             \/ /\ s.ok
                /\ txs' = [txs EXCEPT ![h] = [s.tx EXCEPT !.state = "aborted"]]
                /\ cache' = [cache EXCEPT ![c] = cleanCcbId(s.cache)]
                /\ ccbTxMap' = removeCcbTransaction(ccbTxMap, c)
                /\ mainPhase(c, "vetoed")

handleCcbCompleted(c) ==
    /\ ccb[c].phase = "open" /\ ccb[c].main
    /\ handleCcbCompletedDone(c)
    /\ faults' = faults \cup lateFaults(c)
    /\ UNCHANGED <<registryVars, applierQueue, applierError, wanted, ops>>

\* IMM ends a CCB: the applier hears of it if it is involved.
ccbOver(c) ==
    /\ ccb' = [ccb EXCEPT ![c].phase = "over"]
    /\ applierQueue' = IF ~ccb[c].applier THEN applierQueue
                       ELSE Append(applierQueue, [ccb |-> c, path |-> None,
                                                  owner |-> None, nr |-> 0])

\* commit fails when a participant does; the master then aborts.  History: a
\* transaction that an administrative operation left under the identifier
\* of the CCB is the CCB's from now on.
handleCcbApply(c) ==
    /\ ccb[c].phase = "prepared"
    /\ ccbOver(c)
    /\ IF c \notin DOMAIN ccbTxMap THEN UNCHANGED <<txs, ccbTxMap>>
       ELSE /\ ccbTxMap' = removeCcbTransaction(ccbTxMap, c)
            /\ \E state \in {"committed", "aborted"} :
                  txs' = [txs EXCEPT ![ccbTxMap[c]].state = state,
                                     ![ccbTxMap[c]].ccb = c]
    /\ faults' = faults \cup lateFaults(c)
    /\ UNCHANGED <<registryVars, cache, applierError, wanted, ops>>

\* Mutant: an abort does not clean the cache.
abortForgetsCache(c) == cache
abortCache(c) == [cache EXCEPT ![c] = cleanCcbId(@)]

handleCcbAbort(c) ==
    /\ ccb[c].phase \in {"open", "vetoed", "prepared"} /\ ccb[c].main
    /\ ccbOver(c)
    /\ IF c \notin DOMAIN ccbTxMap THEN UNCHANGED <<txs, ccbTxMap, cache>>
       ELSE /\ cache' = abortCache(c)
            /\ ccbTxMap' = removeCcbTransaction(ccbTxMap, c)
            /\ txs' = [txs EXCEPT ![ccbTxMap[c]].state = "aborted"]
    /\ faults' = faults \cup lateFaults(c)
    /\ UNCHANGED <<registryVars, applierError, wanted, ops>>

-----------------------------------------------------------------------------
(***************************************************************************)
(* The callbacks of the applier.  Its answers count for nothing in IMM, so *)
(* a failure is kept until the main implementer is called.                 *)
(***************************************************************************)
\* The user of IMM creates or changes an object of a struct class.
ChangeStruct(c, path) ==
    /\ ccb[c].phase \in {"none", "open"} /\ ops < MaxOps
    /\ path[2] \in applier /\ path[2] \in Struct[path[1]]
    /\ ops' = ops + 1
    /\ ccb' = [ccb EXCEPT ![c].phase = "open", ![c].applier = TRUE]
    /\ LET owner == servingPath(path) IN
       /\ applierQueue' = Append(applierQueue,
             [ccb |-> c, path |-> path, owner |-> owner,
              nr |-> IF owner = None THEN 0 ELSE Len(wanted[c]) + 1])
       /\ wanted' = IF owner = None THEN wanted
                    ELSE [wanted EXCEPT ![c] = Append(@, <<"struct", owner>>)]
    /\ UNCHANGED <<registryVars, txs, ccbTxMap, cache, applierError, faults>>

setCcbApplierError(c) == applierError' = applierError \cup {c}

\* OIProxy_handleComplexTypeCcbCreateObject, ...CcbModification.  A change
\* that is skipped is no error.
handleComplexTypeCcbChange ==
    /\ applierQueue # <<>> /\ Head(applierQueue).path # None
    /\ applierQueue' = Tail(applierQueue)
    /\ LET c == Head(applierQueue).ccb
           path == Head(applierQueue).path
           owner == servingPath(path)
           change == <<"struct", owner>>
           moved == IF owner = Head(applierQueue).owner THEN {}
                    ELSE {<<"unregistered", c>>}
       IN \/ /\ \/ owner = None /\ faults' = faults \cup moved
                \/ faults' = faults \cup {<<"skipped", c>>}
             /\ UNCHANGED <<txs, ccbTxMap, cache, applierError>>
          \/ /\ owner # None
             /\ \E t \in openTransaction(c, c) :
                  /\ ccbTxMap' = t.map
                  /\ \/ /\ ~t.ok
                        /\ txs' = t.txs /\ setCcbApplierError(c)
                        /\ UNCHANGED cache
                     \/ /\ t.ok
                        /\ \E s \in setStructAttribute(t.txs[t.h], cache[c],
                                                       path, change) :
                             /\ txs' = [t.txs EXCEPT ![t.h] = s.tx]
                             /\ cache' = [cache EXCEPT ![c] = s.cache]
                             /\ IF s.ok THEN UNCHANGED applierError
                                ELSE setCcbApplierError(c)
             /\ faults' = faults \cup moved
                          \cup cacheFaults(c, cache[c], path, change)
    /\ UNCHANGED <<registryVars, ccb, wanted, ops>>

removeCcbApplierError(c) == applierError \ {c}

\* OIProxy_handleComplexTypeCcbAbort, ...CcbApply
handleComplexTypeCcbEnd ==
    /\ applierQueue # <<>> /\ Head(applierQueue).path = None
    /\ applierQueue' = Tail(applierQueue)
    /\ applierError' = removeCcbApplierError(Head(applierQueue).ccb)
    /\ UNCHANGED <<registryVars, ccb, txs, ccbTxMap, cache, wanted, ops, faults>>

\* A CCB that changed nothing but struct attributes ends without a callback
\* of the main implementer.
EndUninvolved(c) ==
    /\ ccb[c].phase = "open" /\ ~ccb[c].main
    /\ ccbOver(c)
    /\ faults' = faults \cup {<<"uninvolved", c>>}
    /\ UNCHANGED <<registryVars, txs, ccbTxMap, cache, applierError, wanted, ops>>

-----------------------------------------------------------------------------
(***************************************************************************)
(* Administrative operations and reads of runtime attributes, each with a  *)
(* transaction that the callback also ends.  The first takes an identifier *)
(* that is not in the map.                                                 *)
(***************************************************************************)
\* Mutant: the first identifier is taken whether it is in use or not.
magicNumber(i) == i = FirstAdmin
freeCcbId(i) ==
    /\ i >= FirstAdmin /\ i \notin DOMAIN ccbTxMap
    /\ \A j \in FirstAdmin .. i - 1 : j \in DOMAIN ccbTxMap

\* The action, explicitPrepare and commit; a failure aborts, unless the
\* messages of the component cannot be fetched.
handleAdminOperation(o) ==
    /\ ops < MaxOps /\ calledFor("action", o) /\ servingObject(o) # None
    /\ ops' = ops + 1
    /\ \E id \in {FirstAdmin} \cup {d + 1 : d \in DOMAIN ccbTxMap} :
       /\ freeCcbId(id)
       /\ \E t \in openTransaction(0, id) :
            \/ /\ ~t.ok
               /\ txs' = t.txs /\ ccbTxMap' = t.map
               /\ faults' = IF t.map = ccbTxMap THEN faults
                            ELSE faults \cup {<<"leak", 0>>}
            \/ /\ t.ok
               /\ ccbTxMap' = removeCcbTransaction(t.map, id)
               /\ \E state \in Ended \cup {"open"} :
                    /\ txs' = [t.txs EXCEPT ![t.h].state = state]
                    /\ faults' = IF state \in Ended THEN faults
                                 ELSE faults \cup {<<"leak", 0>>}
    /\ UNCHANGED <<registryVars, ccb, applierQueue, cache, applierError, wanted>>

\* openAnonymousTransaction: not in the map, so of a transaction that is
\* ended nothing is left
handleRtAttrUpdate(o) ==
    /\ ops < MaxOps /\ calledFor("read", o) /\ servingObject(o) # None
    /\ ops' = ops + 1
    /\ \/ UNCHANGED <<txs, faults>>
       \/ /\ txs' = Append(txs, NoTx)
          /\ faults' = faults \cup {<<"leak", 0>>}
    /\ UNCHANGED <<registryVars, ccb, applierQueue, ccbTxMap, cache,
                   applierError, wanted>>

-----------------------------------------------------------------------------
\* IMM ends the CCBs of an implementer that is gone, without callbacks.  When
\* a callback replaces the handles, it leaves what it and then this step do.
\* It also starts a second dispatch thread; that is not modelled.
BadHandle ==
    /\ reinitializeHandles
    /\ ccb' = [c \in Ccbs |-> IF ccb[c].phase = "none" THEN ccb[c]
                              ELSE [ccb[c] EXCEPT !.phase = "over"]]
    /\ applierQueue' = <<>>
    /\ UNCHANGED <<txs, ccbTxMap, cache, applierError, wanted, ops, faults>>

Dispatch ==
    \/ \E c \in Ccbs, o \in Objects : \/ handleCcbCreateObject(c, o)
                                      \/ handleCcbDeleteObject(c, o)
                                      \/ handleCcbModification(c, o)
    \/ \E c \in Ccbs : \/ handleCcbCompleted(c) \/ handleCcbApply(c)
                       \/ handleCcbAbort(c) \/ EndUninvolved(c)
    \/ \E c \in Ccbs, path \in Paths : ChangeStruct(c, path)
    \/ handleComplexTypeCcbChange \/ handleComplexTypeCcbEnd
    \/ \E o \in Objects : handleAdminOperation(o) \/ handleRtAttrUpdate(o)

Next ==
    \/ RegistrarNext /\ UNCHANGED proxyVars
    \/ Dispatch
    \/ BadHandle

Spec == Init /\ [][Next]_vars

-----------------------------------------------------------------------------
(***************************************************************************)
(* A committed transaction of a CCB has given the components exactly the   *)
(* changes of the CCB, in the order in which they were made: the struct    *)
(* cache delays values but loses, repeats and reorders none, an            *)
(* administrative operation never ends the transaction of a CCB, one that  *)
(* such an operation left behind is as good as a new one, and what the     *)
(* applier could not do is not committed without it.  Excepted is a CCB    *)
(* with one of the faults, each of which loses or misplaces a change.      *)
(***************************************************************************)
CommittedIsWhole ==
    \A h \in DOMAIN txs :
        txs[h].ccb # 0 /\ txs[h].state = "committed" =>
           \/ txs[h].got = wanted[txs[h].ccb]
           \/ \E f \in FaultKinds \ {"leak", "uninvolved"} :
                 <<f, txs[h].ccb>> \in faults

(***************************************************************************)
(* A CCB that is over leaves nothing behind once the applier has heard of  *)
(* its end: no transaction of it is open, none is in the map, no values    *)
(* are cached and no error is kept that would refuse a later CCB.          *)
(***************************************************************************)
CcbLeavesNothing ==
    \A c \in Ccbs :
        /\ ccb[c].phase = "over"
        /\ \A i \in DOMAIN applierQueue : applierQueue[i].ccb # c
        => \/ /\ c \notin DOMAIN ccbTxMap \/ <<"leak", 0>> \in faults
              /\ ~cache[c].inUse /\ c \notin applierError
              /\ \A h \in DOMAIN txs : txs[h].ccb = c => txs[h].state \in Ended
           \/ "handle" \in immFaults
           \/ {<<"late", c>>, <<"uninvolved", c>>} \cap faults # {}

(***************************************************************************)
(* After the component has prepared, and after the end, nothing is sent in *)
(* a transaction any more, and an ended transaction stays as it is.        *)
(***************************************************************************)
PreparedIsFinal ==
    [][\A h \in DOMAIN txs :
          txs[h].state # "open" =>
             \/ /\ txs'[h].got = txs[h].got
                /\ txs[h].state \in Ended => txs'[h] = txs[h]
             \/ \E c \in Ccbs : /\ c \in DOMAIN ccbTxMap /\ ccbTxMap[c] = h
                               /\ <<"late", c>> \in faults']_vars
=============================================================================
