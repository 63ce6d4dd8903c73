------------------------ MODULE MoTransaction_proof ------------------------
(***************************************************************************)
(* Proofs about the transactional resource, for every set of transactions  *)
(* and of managed objects, every number of retries and of faults of IMM.   *)
(***************************************************************************)
EXTENDS MoTransaction, FiniteSetTheorems, TLAPS

(***************************************************************************)
(* What holds of the context of one transaction.  A call is under way only *)
(* in a phase that makes calls, and each retry counter is below its limit  *)
(* as long as its loop may still be gone round.                            *)
(***************************************************************************)
Calling == {"open", "validating", "preparing", "committing"}

\* Where lockDn is, and the operation it was called for.
Locking == {"owner", "clear", "again", "operate", "restore"}

Building == {"prepare", "work", "prepared"} \cup Locking

Rounds(c) ==
    /\ c.pc # "idle" => c.phase \in Calling
    /\ c.commit => c.phase \in {"committing", "committed"}
    /\ c.pc = "apply" => c.commit
    /\ c.phase = "preparing" /\ c.pc # "idle" => c.level = "prepare"
                                                  /\ c.pc \in Building
    /\ c.level \in {"revalidate", "revalidateAbort"} /\ c.pc \in Building
          => c.count < Retries
    /\ c.commit /\ c.pc \notin {"idle", "apply"} => c.retCnt < Retries
    /\ c.level \in EditLevels => /\ c.phase \in {"open", "aborted"}
                                /\ c.pc \in Locking \cup {"idle"}
    /\ c.pc \in Locking => c.cur \in Change
    /\ c.pc = "restore" => c.level = "restore"

\* Nothing is applied before the end of the call that applies.
Once(c) ==
    /\ c.times \in {0, 1}
    /\ c.phase \in {"new", "open", "validating", "preparing"} => c.times = 0
    /\ c.phase = "committing" /\ c.pc # "idle" => c.times = 0

(***************************************************************************)
(* A ccb that could be applied holds what is cached: from the end of       *)
(* OamSAPrepare on, if it succeeded, and until the ccb is applied or       *)
(* finalized.                                                              *)
(***************************************************************************)
Whole(c) == c.handle = "live" => c.ccb = Changes(c)

Built(c) ==
    /\ c.pc = "prepare" /\ c.created => Whole(c)
    /\ c.pc = "work" => c.ccb \subseteq Changes(c)
    /\ c.pc \in Locking /\ c.level \notin EditLevels
          => c.ccb \subseteq Changes(c) /\ c.cur \in Changes(c)
    /\ c.pc = "prepared" /\ c.ret = "MafOk" => Whole(c)
    /\ c.pc = "ccbValidate" => Whole(c) /\ c.ret = "MafOk"
    /\ c.pc = "validated" /\ c.ret = "MafOk" /\ c.valid => Whole(c)
    /\ c.pc = "apply" => Whole(c) /\ ~c.created
    /\ c.pc = "idle" /\ c.phase = "validating" /\ c.ret = "MafOk" /\ c.valid
          => Whole(c)
    /\ c.pc = "idle" /\ c.phase = "preparing" /\ c.ret = "MafOk" => Whole(c)
    /\ c.phase = "committed" => c.applied = Changes(c)

\* The context counts in numInstances.
Alive(c) == c.phase \notin {"new", "finished"}

\* The owners that are transactions are alive.
OwnersAlive == \A d \in Dns : owner[d] \in Tx => Alive(tx[owner[d]])

\* Who is about to clear owners by their name was the only one counted.
Counted(t, c) == c.pc \in {"owner", "clear"} => c.alive = {t}

\* Together; a ccb may hold less than is cached if the master prepares without
\* validating first.
Good(t, c) ==
    /\ Counted(t, c)
    /\ Rounds(c)
    /\ Once(c)
    /\ ~ExplicitPrepare => Built(c)

GoodInv == \A t \in Tx : Good(t, tx[t])

\* The inductive invariant.
IInv == TypeOK /\ GoodInv

----------------------------------------------------------------------------
(***************************************************************************)
(* What the helpers on contexts keep.                                      *)
(***************************************************************************)
\* The two contexts differ at most in the ccb and in what is owned.
SameCall(c, e) ==
    /\ e.phase = c.phase /\ e.pc = c.pc /\ e.commit = c.commit
    /\ e.level = c.level /\ e.ret = c.ret /\ e.valid = c.valid
    /\ e.aborts = c.aborts /\ e.count = c.count /\ e.retCnt = c.retCnt
    /\ e.cache = c.cache /\ e.created = c.created
    /\ e.applied = c.applied /\ e.times = c.times

\* The bounds are natural numbers.
LEMMA BoundsNat ==
    /\ Retries \in Nat /\ MaxEdits \in Nat
    /\ MaxValidates \in Nat /\ MaxFaults \in Nat
  BY ConstantsAssumption

\* Releasing locks changes only what is owned and the list of what to release.
LEMMA ReleasedContext ==
    ASSUME NEW c \in TxContext
    PROVE  /\ Released(c) \in TxContext
           /\ SameCall(c, Released(c))
           /\ Released(c).handle = c.handle /\ Released(c).ccb = c.ccb
<1> DEFINE owned == [d \in Dns |-> IF d \in Forgotten(c) THEN 0 ELSE c.owned[d]]
<1>1. owned \in [Dns -> {0, One, Sub}]
  BY DEF TxContext
<1>2. Released(c) = [c EXCEPT !.owned = owned, !.final = {}]
  BY DEF Released
<1> HIDE DEF owned
<1> QED
  BY <1>1, <1>2 DEF TxContext, SameCall

\* Finalizing and aborting a ccb change nothing else.
LEMMA CcbContext ==
    ASSUME NEW c \in TxContext
    PROVE  /\ ccbFinalize(c) \in TxContext /\ SameCall(c, ccbFinalize(c))
           /\ ccbAbort(c) \in TxContext /\ SameCall(c, ccbAbort(c))
           /\ ccbFinalize(c).handle = "zero" /\ ccbAbort(c).handle = c.handle
           /\ ccbFinalize(c).ccb = {} /\ ccbAbort(c).ccb = {}
  BY DEF TxContext, SameCall, ccbFinalize, ccbAbort

\* An IMM call that fails at most aborts the ccb.
LEMMA AfterContext ==
    ASSUME NEW c \in TxContext, NEW outcome
    PROVE  /\ After(c, outcome) \in TxContext /\ SameCall(c, After(c, outcome))
           /\ \/ After(c, outcome) = c
              \/ /\ After(c, outcome).handle = "dead"
                 /\ After(c, outcome).ccb = {}
  BY DEF TxContext, SameCall, After, AbortedByImm

\* What is applied is recorded, and the ccb is empty afterwards.
LEMMA AppliedContext ==
    ASSUME NEW c \in TxContext
    PROVE  /\ AppliedBy(c) \in TxContext
           /\ AppliedBy(c).applied = c.ccb /\ AppliedBy(c).times = c.times + 1
           /\ AppliedBy(c).phase = c.phase /\ AppliedBy(c).pc = c.pc
           /\ AppliedBy(c).commit = c.commit /\ AppliedBy(c).retCnt = c.retCnt
           /\ AppliedBy(c).level = c.level /\ AppliedBy(c).cache = c.cache
           /\ AppliedBy(c).count = c.count /\ AppliedBy(c).created = c.created
<1>1. c.times + 1 \in Nat /\ c.ccb \in SUBSET Change /\ {} \in SUBSET Change
  BY DEF TxContext
<1>2. \A n \in Nat : [c EXCEPT !.applied = c.ccb, !.ccb = {}, !.times = n]
                        \in TxContext
  BY <1>1 DEF TxContext
<1>3. AppliedBy(c) \in TxContext
  BY <1>1, <1>2 DEF AppliedBy
<1> QED
  BY <1>3 DEF TxContext, AppliedBy

\* The context put is the only one that changes.
LEMMA PutContext ==
    ASSUME TypeOK, NEW t \in Tx, NEW c \in TxContext, Put(t, c)
    PROVE  /\ tx' \in [Tx -> TxContext]
           /\ tx'[t] = c
           /\ \A u \in Tx \ {t} : tx'[u] = tx[u]
  BY DEF TypeOK, Put

\* The recursion that defines the ancestors of a name has the value it
\* describes.  A solution exists: the smallest set that holds the name and is
\* closed under Parent.
LEMMA Ancestors ==
    /\ AncestorsOrSelf[Root] = {}
    /\ \A d \in Dns : AncestorsOrSelf[d] = {d} \cup AncestorsOrSelf[Parent[d]]
<1> DEFINE names == Dns \cup {Root}
           next(f) == [d \in names |-> IF d = Root THEN {}
                                       ELSE {d} \cup f[Parent[d]]]
           Closed(X) == X \subseteq Dns
                          /\ \A a \in X : Parent[a] \in X \cup {Root}
           Up(d) == {e \in Dns : \A X \in SUBSET Dns :
                                    d \in X /\ Closed(X) => e \in X}
           h == [d \in names |-> IF d = Root THEN {} ELSE Up(d)]
<1>0. Root \notin Dns /\ \A d \in Dns : Parent[d] \in names
  BY ConstantsAssumption
<1>1. ASSUME NEW d \in Dns
      PROVE  Up(d) = {d} \cup h[Parent[d]]
  <2>1. d \in Up(d)
    OBVIOUS
  <2>2. ASSUME NEW e \in h[Parent[d]]
        PROVE  e \in Up(d)
    <3>1. Parent[d] # Root /\ e \in Up(Parent[d])
      BY <1>0, <2>2
    <3>2. ASSUME NEW X \in SUBSET Dns, d \in X, Closed(X)
          PROVE  e \in X
      <4>1. Parent[d] \in X
        BY <3>1, <3>2
      <4> QED
        BY <3>1, <3>2, <4>1
    <3> QED
      BY <3>1, <3>2
  <2>3. ASSUME NEW e \in Up(d)
        PROVE  e \in {d} \cup h[Parent[d]]
    <3> DEFINE Y == {d} \cup h[Parent[d]]
    <3>1. Y \in SUBSET Dns
      BY <1>0
    <3>2. ASSUME NEW a \in Y
          PROVE  Parent[a] \in Y \cup {Root}
      <4>1. CASE Parent[d] = Root
        BY <1>0, <3>2, <4>1
      <4>2. CASE Parent[d] # Root
        <5>1. Parent[d] \in Dns /\ h[Parent[d]] = Up(Parent[d])
          BY <1>0, <4>2
        <5>2. Parent[d] \in Up(Parent[d])
          BY <5>1
        <5>3. CASE a = d
          BY <5>1, <5>2, <5>3
        <5>4. CASE a \in Up(Parent[d]) /\ Parent[a] # Root
          <6>1. Parent[a] \in Dns
            BY <1>0, <5>4
          <6>2. ASSUME NEW X \in SUBSET Dns, Parent[d] \in X, Closed(X)
                PROVE  Parent[a] \in X
            BY <5>4, <6>2
          <6>3. Parent[a] \in Up(Parent[d])
            BY <6>1, <6>2
          <6> QED
            BY <5>1, <6>3
        <5> QED
          BY <3>2, <5>1, <5>3, <5>4
      <4> QED
        BY <4>1, <4>2
    <3>3. Closed(Y)
      BY <3>1, <3>2
    <3> QED
      BY <2>3, <3>1, <3>3
  <2> QED
    BY <2>1, <2>2, <2>3
<1>2. h = next(h)
  <2> HIDE DEF Up
  <2> QED
    BY <1>0, <1>1
<1>3. AncestorsOrSelf = CHOOSE f : f = next(f)
  BY DEF AncestorsOrSelf
<1> HIDE DEF h
<1>4. AncestorsOrSelf = next(AncestorsOrSelf)
  <2> HIDE DEF next
  <2> QED
    BY <1>2, <1>3
<1> QED
  BY <1>0, <1>4

\* A context that has not begun a transaction.
LEMMA NewContextType == NewContext \in TxContext
  BY BoundsNat
  DEF NewContext, TxContext, Phases, Pcs, Levels, EditLevels, Codes, CacheEntry

\* The changes depend on the cache only, and are changes.
LEMMA ChangesOfCache ==
    ASSUME NEW c, NEW e, c.cache = e.cache
    PROVE  Changes(c) = Changes(e)
  BY DEF Changes, Kind, Point

\* The changes in a cache are of their type.
LEMMA ChangesType ==
    ASSUME NEW c \in TxContext
    PROVE  Changes(c) \subseteq Change
<1>1. c.cache \in [Dns -> CacheEntry]
  BY DEF TxContext
<1> QED
  BY <1>1 DEF Changes, Change, Kind, Point, CacheEntry, Kinds

\* An entry written by an edit within the bound.
LEMMA EntryType ==
    ASSUME NEW n \in 0 .. MaxEdits,
           NEW kind \in {"none", "create", "modify"},
           NEW point \in {"none", "active", "dormant"}
    PROVE  Entry(kind, point, n) \in CacheEntry
<1>1. 0 \in 0 .. MaxEdits
  BY BoundsNat
<1> QED
  BY <1>1 DEF Entry, CacheEntry

\* An edit leaves a cache.
LEMMA EditedCache ==
    ASSUME NEW c \in TxContext, NEW x \in Change
    PROVE  Cached(c, x) \in [Dns -> CacheEntry]
<1> DEFINE d == x.dn
           n == x.n
<1>1. d \in Dns /\ n \in 0 .. MaxEdits /\ x.kind \in Kinds
  BY DEF Change
<1>2. c.cache \in [Dns -> CacheEntry]
  BY DEF TxContext
<1>3. \A e \in Dns : /\ Kind(c, e) \in {"none", "create", "modify"}
                     /\ Point(c, e) \in {"none", "active", "dormant"}
  BY <1>2 DEF Kind, Point, CacheEntry
<1> HIDE DEF d, n
<1>4. UpdateObjectAttribute(c, d, n) \in [Dns -> CacheEntry]
  BY <1>1, <1>2, <1>3, EntryType DEF UpdateObjectAttribute
<1>5. InsertCreatedObject(c, d, n) \in [Dns -> CacheEntry]
  <2>1. CASE Point(c, d) # "active"
    BY <1>1, <1>2, <1>3, <2>1, EntryType DEF InsertCreatedObject
  <2>2. CASE Point(c, d) = "active"
    <3>1. \A e \in Dns : /\ Entry(Kind(c, e), "dormant", n) \in CacheEntry
                         /\ Entry(Kind(c, e), "active", n) \in CacheEntry
                         /\ c.cache[e] \in CacheEntry
      BY <1>1, <1>2, <1>3, EntryType
    <3> QED
      BY <2>2, <3>1 DEF InsertCreatedObject
  <2> QED
    BY <2>1, <2>2
<1>6. InsertDeletedObject(c, d, n) \in [Dns -> CacheEntry]
  <2>1. \A e \in Dns : /\ Entry("none", Point(c, e), n) \in CacheEntry
                       /\ Entry("none", "active", n) \in CacheEntry
                       /\ Entry("none", "dormant", n) \in CacheEntry
                       /\ c.cache[e] \in CacheEntry
    BY <1>1, <1>2, <1>3, EntryType
  <2> QED
    BY <2>1 DEF InsertDeletedObject
<1> QED
  BY <1>1, <1>4, <1>5, <1>6 DEF Cached, Kinds, d, n

\* Releasing leaves owners.
LEMMA OwnersType ==
    ASSUME TypeOK, NEW t \in Tx, NEW c
    PROVE  OwnersReleased(t, c) \in [Dns -> Tx \cup {NoOwner, Stale, Foreign}]
  BY DEF TypeOK, OwnersReleased

\* A fault is counted within the bound.
LEMMA FaultType ==
    ASSUME TypeOK, NEW outcome, NEW forced, Fault(outcome, forced)
    PROVE  faults' \in 0 .. MaxFaults
  BY BoundsNat DEF TypeOK, Fault

----------------------------------------------------------------------------
(***************************************************************************)
(* Every action puts a good context in the place of a good one.            *)
(***************************************************************************)
Moves(t) == \E e \in TxContext : Put(t, e) /\ Good(t, e) /\ Alive(e)

\* The context of a transaction has its type, and so have its parts.
LEMMA ContextType ==
    ASSUME IInv, NEW t \in Tx
    PROVE  tx[t] \in TxContext /\ Good(t, tx[t])
  BY DEF IInv, TypeOK, GoodInv

\* OamSAJoin.
LEMMA JoinMoves ==
    ASSUME IInv, NEW t \in Tx, OamSAJoin(t)
    PROVE  Moves(t)
<1> DEFINE c == tx[t]
           e == [c EXCEPT !.phase = "open"]
<1>1. c \in TxContext /\ Good(t, c) /\ c.pc = "idle" /\ c.phase = "new"
  BY ContextType DEF OamSAJoin, Idle
<1>2. Put(t, e)
  BY DEF OamSAJoin
<1> HIDE DEF c
<1>3. e \in TxContext
  BY <1>1 DEF TxContext, Phases
<1>4. Good(t, e) /\ Alive(e)
  BY <1>1
  DEF TxContext, Good, Counted, Rounds, Once, Built, Whole, Calling, Building,
      Locking, EditLevels, Alive
<1> QED
  BY <1>2, <1>3, <1>4 DEF Moves

\* What is put is what the context is then.
LEMMA PutIs ==
    ASSUME IInv, NEW t \in Tx, NEW e, Put(t, e)
    PROVE  tx'[t] = e /\ Put(t, tx'[t])
  BY DEF Put, IInv, TypeOK

\* A step that leaves a good context of a live transaction moves.
LEMMA MovesTo ==
    ASSUME NEW t \in Tx, Put(t, tx'[t]), tx'[t] \in TxContext,
           Good(t, tx'[t]), Alive(tx'[t])
    PROVE  Moves(t)
  BY DEF Moves

(***************************************************************************)
(* lockDn.  Its steps change only where the call is, its result, and what  *)
(* is owned: the lock is still worked on, is held, or is refused.          *)
(***************************************************************************)
SameWork(c, e) ==
    /\ e.phase = c.phase /\ e.commit = c.commit /\ e.level = c.level
    /\ e.count = c.count /\ e.retCnt = c.retCnt
    /\ e.cache = c.cache /\ e.ccb = c.ccb
    /\ e.applied = c.applied /\ e.times = c.times

\* A context in which lockDn may be called, or is.
Locks(c) ==
    /\ c.phase \in Calling /\ c.times = 0 /\ c.cur \in Change
    /\ c.commit => c.phase = "committing" /\ c.retCnt < Retries
    /\ c.phase = "preparing" => c.level = "prepare"
    /\ c.level \in {"revalidate", "revalidateAbort"} => c.count < Retries
    /\ c.level \in EditLevels => c.phase = "open"
    /\ ~ExplicitPrepare /\ c.level \notin EditLevels
          => c.ccb \subseteq Changes(c) /\ c.cur \in Changes(c)

LockLeaves(t, c, e) ==
    /\ SameWork(c, e)
    /\ \/ /\ e.pc \in Locking \ {"restore"} /\ e.cur = c.cur
          /\ e.pc \in {"owner", "clear"} => e.alive = {t}
       \/ e.pc = "idle" /\ c.level \in EditLevels
       \/ e.pc = "prepared" /\ e.ret # "MafOk" /\ c.level \notin EditLevels

\* The context of a transaction in lockDn is one.
LEMMA LockingLocks ==
    ASSUME NEW t \in Tx, NEW c \in TxContext, Good(t, c), c.pc \in Locking
    PROVE  Locks(c)
  BY
  DEF Locks, Good, Rounds, Once, Built, Calling, Building, Locking, EditLevels

\* What lockDn leaves is good.
LEMMA LockLeavesGood ==
    ASSUME NEW t \in Tx, NEW c \in TxContext, Locks(c),
           NEW e \in TxContext, LockLeaves(t, c, e)
    PROVE  Good(t, e) /\ Alive(e)
<1>1. SameWork(c, e)
  BY DEF LockLeaves
<1>2. Changes(e) = Changes(c)
  BY <1>1, ChangesOfCache DEF SameWork
<1>3. Alive(e) /\ Once(e)
  BY <1>1 DEF SameWork, Locks, Alive, Once, Calling
<1>4. Counted(t, e)
  BY DEF LockLeaves, Counted
<1>5. Rounds(e)
  BY <1>1 DEF SameWork, LockLeaves, Locks, Rounds, Calling, Building, Locking,
              EditLevels
<1>6. ~ExplicitPrepare => Built(e)
  BY <1>1, <1>2
  DEF SameWork, LockLeaves, Locks, Built, Calling, Locking, EditLevels
<1> QED
  BY <1>3, <1>4, <1>5, <1>6 DEF Good

\* When one transaction is counted and t is alive, it is t.
LEMMA OnlyInstance ==
    ASSUME NEW t \in Tx, Alive(tx[t]), Alone
    PROVE  Live = {t}
<1>1. IsFiniteSet(Live)
  BY ConstantsAssumption, FS_Subset DEF Live
<1>2. PICK x : Live = {x}
  BY <1>1, FS_Singleton DEF Alone
<1>3. t \in Live
  BY DEF Alive, Live
<1> QED
  BY <1>2, <1>3

\* The call returns, the lock is held, or the lock is refused.
LEMMA LockResults ==
    ASSUME NEW t \in Tx, NEW c \in TxContext, NEW code \in Codes \ {"MafOk"}
    PROVE  /\ Returns(c) \in TxContext /\ SameWork(c, Returns(c))
           /\ Returns(c).pc = "idle"
           /\ LockDone(c) \in TxContext /\ LockLeaves(t, c, LockDone(c))
           /\ LockRefused(c, code) \in TxContext
           /\ LockLeaves(t, c, LockRefused(c, code))
<1> DEFINE r == Returns(c)
<1>1. r \in TxContext /\ SameWork(c, r) /\ r.pc = "idle"
  BY DEF Returns, TxContext, SameWork, Pcs
<1>2. ASSUME NEW e, e = [c EXCEPT !.pc = "operate", !.alive = {}]
      PROVE  e \in TxContext /\ LockLeaves(t, c, e)
  BY <1>2 DEF TxContext, SameWork, LockLeaves, Pcs, Locking
<1>3. c.level = "restore" => c.level \in EditLevels
  BY DEF EditLevels
<1> HIDE DEF r
<1>4. ASSUME c.level \in EditLevels
      PROVE  LockLeaves(t, c, r)
  BY <1>1, <1>4 DEF LockLeaves
<1>5. ASSUME c.level \notin EditLevels,
             NEW e, e = [r EXCEPT !.pc = "prepared", !.ret = code]
      PROVE  e \in TxContext /\ LockLeaves(t, c, e)
  BY <1>1, <1>5 DEF TxContext, SameWork, LockLeaves, Pcs
<1> QED
  BY <1>1, <1>2, <1>3, <1>4, <1>5 DEF LockDone, LockRefused, r

\* What is owned matters to none of this.
LEMMA OwnedContext ==
    ASSUME NEW t \in Tx, NEW c \in TxContext, NEW r \in TxContext,
           LockLeaves(t, c, r), NEW d, NEW scope \in {0, One, Sub}
    PROVE  /\ [r EXCEPT !.owned[d] = scope] \in TxContext
           /\ LockLeaves(t, c, [r EXCEPT !.owned[d] = scope])
<1>1. [r.owned EXCEPT ![d] = scope] \in [Dns -> {0, One, Sub}]
  BY DEF TxContext
<1>2. ASSUME NEW e, NEW owned \in [Dns -> {0, One, Sub}],
             e = [r EXCEPT !.owned = owned]
      PROVE  e \in TxContext /\ LockLeaves(t, c, e)
  BY <1>2 DEF TxContext, LockLeaves, SameWork
<1> QED
  BY <1>1, <1>2

\* saImmOmAdminOwnerSet.
LEMMA AdminOwnerSetLeaves ==
    ASSUME IInv, NEW t \in Tx, NEW c \in TxContext, Locks(c),
           Alive(tx[t]), AdminOwnerSet(t, c)
    PROVE  /\ Put(t, tx'[t]) /\ tx'[t] \in TxContext
           /\ LockLeaves(t, c, tx'[t])
<1> DEFINE d == LockName(c.cur)
           scope == LockScope(c.cur)
<1>1. LockScope(c.cur) \in {0, One, Sub}
  BY DEF LockScope
<1>2. /\ "MafObjectLocked" \in Codes \ {"MafOk"}
      /\ "MafFailure" \in Codes \ {"MafOk"}
  BY DEF Codes
<1>3. LockDone(c) \in TxContext /\ LockLeaves(t, c, LockDone(c))
  BY <1>2, LockResults
<1>4. \A code \in {"MafObjectLocked", "MafFailure"} :
         /\ LockRefused(c, code) \in TxContext
         /\ LockLeaves(t, c, LockRefused(c, code))
  BY <1>2, LockResults
<1>5. ASSUME Alone, NEW e, e = [c EXCEPT !.pc = "owner", !.alive = Live]
      PROVE  e \in TxContext /\ LockLeaves(t, c, e)
  <2>1. Live = {t}
    BY <1>5, OnlyInstance
  <2> QED
    BY <1>5, <2>1 DEF TxContext, LockLeaves, SameWork, Pcs, Locking
<1>6. \/ Put(t, LockDone(c))
      \/ Alone /\ Put(t, [c EXCEPT !.pc = "owner", !.alive = Live])
      \/ Put(t, LockRefused(c, "MafObjectLocked"))
      \/ Put(t, [LockDone(c) EXCEPT !.owned[d] = scope])
      \/ Put(t, LockRefused(c, "MafFailure"))
  BY Zenon DEF AdminOwnerSet
<1> HIDE DEF d
<1>7. /\ [LockDone(c) EXCEPT !.owned[d] = scope] \in TxContext
      /\ LockLeaves(t, c, [LockDone(c) EXCEPT !.owned[d] = scope])
  BY <1>1, <1>3, OwnedContext
<1> HIDE DEF scope
<1> QED
  BY <1>3, <1>4, <1>5, <1>6, <1>7, PutIs

\* The calls of IMM within checkSetAdminOwner.
LEMMA LockStepLeaves ==
    ASSUME IInv, NEW t \in Tx,
           \/ getAdminOwner(t) \/ AdminOwnerClear(t)
           \/ AdminOwnerSetAgain(t) \/ RestoreLock(t)
    PROVE  /\ Locks(tx[t]) /\ Put(t, tx'[t]) /\ tx'[t] \in TxContext
           /\ LockLeaves(t, tx[t], tx'[t])
<1> DEFINE c == tx[t]
<1>1. c \in TxContext /\ Good(t, c) /\ c.pc \in Locking
  BY ContextType
  DEF getAdminOwner, AdminOwnerClear, AdminOwnerSetAgain, RestoreLock, Locking
<1>2. Locks(c)
  BY <1>1, LockingLocks
<1>3. Alive(tx[t])
  BY <1>2 DEF Locks, Calling, Alive
<1>4. /\ "MafObjectLocked" \in Codes \ {"MafOk"}
      /\ "MafFailure" \in Codes \ {"MafOk"}
  BY DEF Codes
<1>5. ASSUME NEW code \in {"MafObjectLocked", "MafFailure"}
      PROVE  /\ LockDone(c) \in TxContext /\ LockLeaves(t, c, LockDone(c))
             /\ LockRefused(c, code) \in TxContext
             /\ LockLeaves(t, c, LockRefused(c, code))
  BY <1>1, <1>4, LockResults
<1>6. ASSUME c.pc \in {"owner", "clear"}
      PROVE  c.alive = {t}
  BY <1>1, <1>6 DEF Good, Counted
<1>7. CASE getAdminOwner(t)
  <2>1. PICK pc \in {"again", "clear"} :
           \/ Put(t, LockRefused(c, "MafObjectLocked"))
           \/ Put(t, [c EXCEPT !.pc = pc])
    BY <1>7, Zenon DEF getAdminOwner
  <2>2. c.alive = {t}
    BY <1>6, <1>7 DEF getAdminOwner
  <2> HIDE DEF c
  <2>3. ASSUME NEW e, e = [c EXCEPT !.pc = pc]
        PROVE  e \in TxContext /\ LockLeaves(t, c, e)
    BY <1>1, <2>2, <2>3 DEF TxContext, LockLeaves, SameWork, Pcs, Locking
  <2> QED
    BY <1>2, <1>5, <2>1, <2>3, PutIs DEF c
<1>8. CASE AdminOwnerClear(t)
  <2>1. \/ Put(t, LockRefused(c, "MafFailure"))
        \/ Put(t, LockDone(c))
        \/ Put(t, [c EXCEPT !.pc = "again", !.alive = {}])
    BY <1>8, Zenon DEF AdminOwnerClear
  <2> HIDE DEF c
  <2>2. ASSUME NEW e, e = [c EXCEPT !.pc = "again", !.alive = {}]
        PROVE  e \in TxContext /\ LockLeaves(t, c, e)
    BY <1>1, <2>2 DEF TxContext, LockLeaves, SameWork, Pcs, Locking
  <2> QED
    BY <1>2, <1>5, <2>1, <2>2, PutIs DEF c
<1>9. CASE AdminOwnerSetAgain(t) \/ RestoreLock(t)
  BY <1>1, <1>2, <1>3, <1>9, AdminOwnerSetLeaves
  DEF AdminOwnerSetAgain, RestoreLock
<1> QED
  BY <1>7, <1>8, <1>9

\* So they move.
LEMMA LockStepMoves ==
    ASSUME IInv, NEW t \in Tx,
           \/ getAdminOwner(t) \/ AdminOwnerClear(t)
           \/ AdminOwnerSetAgain(t) \/ RestoreLock(t)
    PROVE  Moves(t)
  BY LockStepLeaves, LockLeavesGood, ContextType, MovesTo

\* A managed-object edit: it asks for its lock, or changes the cache.
LEMMA EditLeaves ==
    ASSUME IInv, NEW t \in Tx, NEW x \in Change, Edit(t, x)
    PROVE  \/ \E c \in TxContext :
                 /\ Locks(c)
                 /\ SameWork(tx[t], [c EXCEPT !.level = tx[t].level])
                 /\ Put(t, tx'[t]) /\ tx'[t] \in TxContext
                 /\ LockLeaves(t, c, tx'[t])
           \/ Put(t, [tx[t] EXCEPT !.cache = Cached(tx[t], x)])
<1> DEFINE old == tx[t]
           held == isAdminOwnerFor(old, LockName(x), One)
           level == IF held THEN "editHeld" ELSE "edit"
           c == [old EXCEPT !.cur = x, !.level = level]
<1>1. /\ old \in TxContext /\ Good(t, old) /\ old.pc = "idle"
      /\ old.phase = "open"
  BY ContextType DEF Edit, Idle
<1>2. \/ AdminOwnerSet(t, c)
      \/ Put(t, [old EXCEPT !.cache = Cached(old, x)])
  BY Zenon DEF Edit
<1>3. level \in EditLevels /\ level \in Levels
           /\ level \notin {"revalidate", "revalidateAbort"}
  BY DEF EditLevels, Levels
<1>4. Alive(old)
  BY <1>1 DEF Alive
<1> HIDE DEF old, level
<1>5. /\ c \in TxContext /\ c.phase = "open" /\ c.times = 0 /\ c.cur = x
      /\ ~c.commit /\ c.level = level
      /\ SameWork(old, [c EXCEPT !.level = old.level])
  BY <1>1, <1>3 DEF TxContext, Good, Rounds, Once, SameWork
<1>6. Locks(c)
  BY <1>3, <1>5 DEF Locks, Calling
<1> HIDE DEF c
<1> QED
  BY <1>2, <1>4, <1>5, <1>6, AdminOwnerSetLeaves DEF old

\* So it moves.
LEMMA EditMoves ==
    ASSUME IInv, NEW t \in Tx, NEW x \in Change, Edit(t, x)
    PROVE  Moves(t)
<1> DEFINE c == tx[t]
<1>1. c \in TxContext /\ Good(t, c) /\ c.pc = "idle" /\ c.phase = "open"
  BY ContextType DEF Edit, Idle
<1>2. Cached(c, x) \in [Dns -> CacheEntry]
  BY <1>1, EditedCache
<1> HIDE DEF c
<1>3. ASSUME NEW e, NEW cache \in [Dns -> CacheEntry],
             e = [c EXCEPT !.cache = cache]
      PROVE  e \in TxContext /\ Good(t, e) /\ Alive(e)
  BY <1>1, <1>3
  DEF TxContext, Good, Counted, Rounds, Once, Built, Whole, Calling, Building,
      Locking, EditLevels, Alive
<1> QED
  BY <1>2, <1>3, EditLeaves, LockLeavesGood, MovesTo DEF Moves, c

\* The numbers of the edits are in bounds.
LEMMA EditsAreChanges ==
    ASSUME IInv, NEW t \in Tx, NEW d \in Dns,
           setImmMoAttribute(t, d) \/ createImmMo(t, d) \/ deleteImmMo(t, d)
    PROVE  \E x \in Change : Edit(t, x)
<1>1. ASSUME NEW kind \in Kinds,
             Edit(t, [dn |-> d, kind |-> kind, n |-> edits + 1])
      PROVE  \E x \in Change : Edit(t, x)
  <2>1. edits + 1 \in 0 .. MaxEdits
    BY <1>1, BoundsNat DEF Edit, IInv, TypeOK
  <2>2. [dn |-> d, kind |-> kind, n |-> edits + 1] \in Change
    BY <2>1 DEF Change
  <2> QED
    BY <1>1, <2>2
<1> QED
  BY <1>1 DEF setImmMoAttribute, createImmMo, deleteImmMo, Kinds

\* The operation changes the cache, or is refused by it.
LEMMA EditDoneMoves ==
    ASSUME IInv, NEW t \in Tx, EditDone(t)
    PROVE  Moves(t) /\ tx[t].phase = "open" /\ tx'[t].phase = "open"
<1> DEFINE c == tx[t]
           r == Returns(c)
           cache == Cached(c, c.cur)
           e == [r EXCEPT !.cache = cache]
<1>1. /\ c \in TxContext /\ Good(t, c) /\ c.pc = "operate"
      /\ c.level \in EditLevels
  BY ContextType DEF EditDone
<1>2. Locks(c)
  BY <1>1, LockingLocks DEF Locking
<1>3. Put(t, e)
  BY DEF EditDone
<1>4. r \in TxContext /\ SameWork(c, r) /\ r.pc = "idle"
  BY <1>1, LockResults DEF Codes
<1>5. cache \in [Dns -> CacheEntry]
  BY <1>1, <1>2, EditedCache DEF Locks
<1>6. tx'[t] = e
  BY <1>3, PutIs
<1> HIDE DEF c, r, cache
<1>7. e \in TxContext /\ e.phase = "open" /\ c.phase = "open"
  BY <1>1, <1>2, <1>4, <1>5 DEF TxContext, SameWork, Locks
<1>8. Good(t, e) /\ Alive(e)
  BY <1>1, <1>2, <1>4, <1>5
  DEF TxContext, SameWork, Locks, Good, Counted, Rounds, Once, Built, Whole,
      Calling, Building, Locking, EditLevels, Alive
<1> QED
  BY <1>3, <1>6, <1>7, <1>8 DEF Moves, c

\* unLockDnOnFailure leaves the context as it was but for the lock.
LEMMA EditRefusedMoves ==
    ASSUME IInv, NEW t \in Tx, EditRefused(t)
    PROVE  /\ Moves(t) /\ tx'[t].phase = tx[t].phase
           /\ tx'[t].times = tx[t].times /\ tx'[t].cache = tx[t].cache
<1> DEFINE c == tx[t]
           d == LockName(c.cur)
           cur == [c.cur EXCEPT !.kind = "modify"]
           b == [c EXCEPT !.pc = "restore", !.level = "restore", !.cur = cur]
           r == Returns(c)
<1>1. /\ c \in TxContext /\ Good(t, c) /\ c.pc = "operate"
      /\ c.level \in EditLevels
  BY ContextType DEF EditRefused
<1>2. Locks(c)
  BY <1>1, LockingLocks DEF Locking
<1>3. \/ Put(t, [b EXCEPT !.owned[d] = 0])
      \/ Put(t, [r EXCEPT !.owned[d] = 0])
      \/ Put(t, r)
  BY Zenon DEF EditRefused
<1>4. r \in TxContext /\ SameWork(c, r) /\ r.pc = "idle"
  BY <1>1, LockResults DEF Codes
<1>5. cur \in Change
  BY <1>2 DEF Locks, Change, Kinds
<1> HIDE DEF c, cur, r, d
<1>6. /\ b \in TxContext /\ b.phase = c.phase /\ b.times = c.times
      /\ b.cache = c.cache /\ b.cur = cur /\ b.pc = "restore"
      /\ b.level = "restore" /\ b.commit = c.commit
  BY <1>1, <1>5 DEF TxContext, Pcs, Levels, EditLevels
<1> HIDE DEF b
<1>7. Good(t, b) /\ Alive(b)
  BY <1>1, <1>2, <1>5, <1>6
  DEF Locks, Good, Counted, Rounds, Once, Built, Calling, Building, Locking,
      EditLevels, Alive
<1>8. Good(t, r) /\ Alive(r)
  BY <1>1, <1>2, <1>4
  DEF SameWork, Locks, Good, Counted, Rounds, Once, Built, Calling, Building,
      Locking, EditLevels, Alive
<1>9. ASSUME NEW a \in TxContext, Good(t, a), Alive(a)
      PROVE  /\ [a EXCEPT !.owned[d] = 0] \in TxContext
             /\ Good(t, [a EXCEPT !.owned[d] = 0])
             /\ Alive([a EXCEPT !.owned[d] = 0])
             /\ [a EXCEPT !.owned[d] = 0].phase = a.phase
             /\ [a EXCEPT !.owned[d] = 0].times = a.times
             /\ [a EXCEPT !.owned[d] = 0].cache = a.cache
  <2>1. [a.owned EXCEPT ![d] = 0] \in [Dns -> {0, One, Sub}]
    BY <1>9 DEF TxContext
  <2>2. ASSUME NEW e, NEW owned \in [Dns -> {0, One, Sub}],
               e = [a EXCEPT !.owned = owned]
        PROVE  /\ e \in TxContext /\ Good(t, e) /\ Alive(e)
               /\ e.phase = a.phase /\ e.times = a.times /\ e.cache = a.cache
    <3>1. e \in TxContext /\ e.cache = a.cache
      BY <1>9, <2>2 DEF TxContext
    <3>2. Changes(e) = Changes(a)
      BY <3>1, ChangesOfCache
    <3> QED
      BY <1>9, <2>2, <3>1, <3>2
      DEF TxContext, Good, Counted, Rounds, Once, Built, Whole, Alive
  <2> QED
    BY <2>1, <2>2
<1> DEFINE e == tx'[t]
<1>10. /\ Put(t, e)
       /\ \/ e = [b EXCEPT !.owned[d] = 0]
          \/ e = [r EXCEPT !.owned[d] = 0]
          \/ e = r
  BY <1>3, PutIs
<1> HIDE DEF e
<1>11. /\ e \in TxContext /\ Good(t, e) /\ Alive(e)
       /\ e.phase = c.phase /\ e.times = c.times /\ e.cache = c.cache
  BY <1>4, <1>6, <1>7, <1>8, <1>9, <1>10 DEF SameWork
<1> QED
  BY <1>10, <1>11 DEF Moves, c, e

\* The transaction master asks for validation.
LEMMA StartValidateMoves ==
    ASSUME IInv, NEW t \in Tx, NEW phase \in {"open", "validating"},
           Idle(t, {"open"}), StartValidate(t, phase)
    PROVE  Moves(t)
<1> DEFINE c == tx[t]
           v == [c EXCEPT !.valid = TRUE, !.phase = phase, !.commit = FALSE,
                          !.level = "validate", !.aborts = 0, !.count = 0]
<1>1. c \in TxContext /\ Good(t, c) /\ c.pc = "idle" /\ c.phase = "open"
  BY ContextType DEF Idle
<1>2. \/ Put(t, DropsCcb(v))
      \/ Put(t, [v EXCEPT !.created = FALSE, !.ret = "MafFailure"])
      \/ ~v.created /\ Put(t, [v EXCEPT !.pc = "prepare"])
  BY DEF StartValidate
<1> HIDE DEF c
<1>3. /\ v \in TxContext /\ v.pc = "idle" /\ v.phase = phase
      /\ v.times = 0 /\ ~v.commit /\ v.level = "validate"
  <2>1. 0 \in 0 .. Retries
    BY BoundsNat
  <2>2. v \in TxContext
    BY <1>1, <2>1 DEF TxContext, Phases, Levels
  <2> QED
    BY <1>1, <2>2 DEF TxContext, Good, Once
<1> HIDE DEF v
<1>4. DropsCcb(v) \in TxContext /\ Good(t, DropsCcb(v)) /\ Alive(DropsCcb(v))
  <2> DEFINE w == ccbAbort(v)
             e == [w EXCEPT !.created = FALSE, !.pc = "prepare"]
  <2>1. w \in TxContext /\ SameCall(v, w)
    BY <1>3, CcbContext
  <2>2. DropsCcb(v) = e
    BY DEF DropsCcb
  <2> HIDE DEF w
  <2>3. e \in TxContext
    BY <2>1 DEF TxContext, Pcs
  <2>4. Good(t, e) /\ Alive(e)
    BY <1>3, <2>1
    DEF TxContext, SameCall, Good, Counted, Rounds, Once, Built, Calling,
        Building, Locking, EditLevels, Alive
  <2> QED
    BY <2>2, <2>3, <2>4
<1>5. ASSUME NEW e, e = [v EXCEPT !.created = FALSE, !.ret = "MafFailure"]
      PROVE  e \in TxContext /\ Good(t, e) /\ Alive(e)
  <2>1. /\ e \in TxContext /\ e.pc = "idle" /\ e.phase = phase /\ e.times = 0
        /\ ~e.commit /\ e.level = "validate" /\ e.ret = "MafFailure"
    BY <1>3, <1>5 DEF TxContext, Codes
  <2> QED
    BY <2>1
    DEF Good, Counted, Rounds, Once, Built, Calling, Building, Locking,
        EditLevels, Alive
<1>6. ASSUME NEW e, e = [v EXCEPT !.pc = "prepare"], ~v.created
      PROVE  e \in TxContext /\ Good(t, e) /\ Alive(e)
  BY <1>3, <1>6
  DEF TxContext, Pcs, Good, Counted, Rounds, Once, Built, Calling, Building,
      Locking, EditLevels, Alive
<1> QED
  BY <1>2, <1>4, <1>5, <1>6 DEF Moves

\* The transaction master asks to prepare.
LEMMA MasterPreparesMoves ==
    ASSUME IInv, NEW t \in Tx, MasterPrepares(t)
    PROVE  Moves(t)
<1> DEFINE c == tx[t]
           e == [c EXCEPT !.phase = "preparing", !.pc = "prepare",
                          !.level = "prepare"]
<1>1. /\ c \in TxContext /\ Good(t, c) /\ c.pc = "idle"
      /\ \/ c.phase = "validating" /\ c.ret = "MafOk" /\ c.valid
         \/ c.phase = "open" /\ ExplicitPrepare
  BY ContextType DEF MasterPrepares, Idle
<1>2. Put(t, e)
  BY DEF MasterPrepares
<1> HIDE DEF c
<1>3. e \in TxContext /\ e.cache = c.cache
  BY <1>1 DEF TxContext, Phases, Pcs, Levels
<1>4. Changes(e) = Changes(c)
  BY <1>3, ChangesOfCache
<1>5. Good(t, e) /\ Alive(e)
  BY <1>1, <1>4
  DEF TxContext, Good, Counted, Rounds, Once, Built, Whole, Calling, Building,
      Locking, EditLevels, Alive
<1> QED
  BY <1>2, <1>3, <1>5 DEF Moves

\* Commit.
LEMMA CommitMoves ==
    ASSUME IInv, NEW t \in Tx, OamSACommit(t)
    PROVE  Moves(t)
<1> DEFINE c == tx[t]
           e == [c EXCEPT !.phase = "committing", !.pc = "apply",
                          !.commit = TRUE, !.retCnt = 0, !.created = FALSE]
<1>1. /\ c \in TxContext /\ Good(t, c) /\ c.pc = "idle"
      /\ c.phase = "preparing" /\ c.ret = "MafOk"
  BY ContextType DEF OamSACommit, Idle
<1>2. Put(t, e)
  BY DEF OamSACommit
<1>3. 0 \in 0 .. Retries
  BY BoundsNat
<1> HIDE DEF c
<1>4. e \in TxContext /\ e.cache = c.cache
  BY <1>1, <1>3 DEF TxContext, Phases, Pcs
<1>5. Changes(e) = Changes(c)
  BY <1>4, ChangesOfCache
<1>6. Good(t, e) /\ Alive(e)
  BY <1>1, <1>5
  DEF TxContext, Good, Counted, Rounds, Once, Built, Whole, Calling, Building,
      Locking, EditLevels, Alive
<1> QED
  BY <1>2, <1>4, <1>6 DEF Moves

\* Abort.
LEMMA AbortMoves ==
    ASSUME IInv, NEW t \in Tx, OamSAAbort(t)
    PROVE  Moves(t)
<1> DEFINE c == tx[t]
           e == [c EXCEPT !.phase = "aborted"]
<1>1. /\ c \in TxContext /\ Good(t, c) /\ c.pc = "idle"
      /\ c.phase \in {"open", "validating", "preparing"}
  BY ContextType DEF OamSAAbort, Idle
<1>2. Put(t, e)
  BY DEF OamSAAbort
<1> HIDE DEF c
<1>3. e \in TxContext
  BY <1>1 DEF TxContext, Phases
<1>4. Good(t, e) /\ Alive(e)
  BY <1>1
  DEF TxContext, Good, Counted, Rounds, Once, Built, Calling, Building, Locking,
      EditLevels, Alive
<1> QED
  BY <1>2, <1>3, <1>4 DEF Moves

\* Finish.
LEMMA FinishMoves ==
    ASSUME IInv, NEW t \in Tx, OamSAFinish(t)
    PROVE  \E e \in TxContext : Put(t, e) /\ Good(t, e) /\ ~Alive(e)
<1> DEFINE e == [NewContext EXCEPT !.phase = "finished"]
<1>1. Put(t, e)
  BY DEF OamSAFinish
<1>2. e \in TxContext
  BY NewContextType DEF TxContext, Phases
<1>3. /\ e.pc = "idle" /\ e.phase = "finished" /\ ~e.commit /\ e.times = 0
      /\ e.level = "prepare"
  BY DEF NewContext
<1> HIDE DEF e
<1>4. Good(t, e) /\ ~Alive(e)
  BY <1>2, <1>3
  DEF Good, Counted, Rounds, Once, Built, Calling, Building, Locking,
      EditLevels, Alive
<1> QED
  BY <1>1, <1>2, <1>4

\* A round of the preparation begins: a new CCB is built.
LEMMA PrepareBeginsMoves ==
    ASSUME IInv, NEW t \in Tx, PrepareBegins(t)
    PROVE  Moves(t)
<1> DEFINE old == tx[t]
           c == [old EXCEPT !.final = {}, !.empty = FALSE]
<1>1. old \in TxContext /\ Good(t, old) /\ old.pc = "prepare"
  BY ContextType DEF PrepareBegins
<1>2. \/ c.created /\ Put(t, [c EXCEPT !.pc = "prepared", !.ret = "MafOk"])
      \/ Put(t, [c EXCEPT !.created = TRUE, !.handle = "live", !.ccb = {},
                          !.pc = "work"])
      \/ Put(t, [c EXCEPT !.pc = "prepared", !.ret = "MafFailure"])
  BY DEF PrepareBegins
<1> HIDE DEF old
<1>3. /\ c \in TxContext /\ c.pc = "prepare" /\ c.cache = old.cache
      /\ c.ccb = old.ccb
  BY <1>1 DEF TxContext
<1>4. Changes(c) = Changes(old)
  BY <1>3, ChangesOfCache
<1>5. Good(t, c)
  BY <1>1, <1>4
  DEF TxContext, Good, Counted, Rounds, Once, Built, Whole, Calling, Building,
      Locking, EditLevels, Alive
<1> HIDE DEF c
<1>6. ASSUME NEW e, e = [c EXCEPT !.pc = "prepared", !.ret = "MafOk"], c.created
      PROVE  e \in TxContext /\ Good(t, e) /\ Alive(e)
  <2>1. e \in TxContext /\ e.cache = c.cache
    BY <1>3, <1>6 DEF TxContext, Pcs, Codes
  <2>2. Changes(e) = Changes(c)
    BY <2>1, ChangesOfCache
  <2> QED
    BY <1>3, <1>5, <1>6, <2>1, <2>2
    DEF TxContext, Good, Counted, Rounds, Once, Built, Whole, Calling, Building,
        Locking, EditLevels, Alive
<1>7. ASSUME NEW e, e = [c EXCEPT !.created = TRUE, !.handle = "live",
                                  !.ccb = {}, !.pc = "work"]
      PROVE  e \in TxContext /\ Good(t, e) /\ Alive(e)
  BY <1>3, <1>5, <1>7
  DEF TxContext, Pcs, Good, Counted, Rounds, Once, Built, Calling, Building,
      Locking, EditLevels, Alive
<1>8. ASSUME NEW e, e = [c EXCEPT !.pc = "prepared", !.ret = "MafFailure"]
      PROVE  e \in TxContext /\ Good(t, e) /\ Alive(e)
  BY <1>3, <1>5, <1>8
  DEF TxContext, Pcs, Codes, Good, Counted, Rounds, Once, Built, Calling,
      Building, Locking, EditLevels, Alive
<1> QED
  BY <1>2, <1>6, <1>7, <1>8 DEF Moves

\* The objects modified are objects.
LEMMA OfType ==
    ASSUME NEW c \in TxContext, NEW kind
    PROVE  Of(c, kind) \subseteq Dns
  BY ChangesType DEF Of, Change

\* A change of the cache is begun: its lock is asked for unless it is held.
LEMMA OperationBeginsLeaves ==
    ASSUME IInv, NEW t \in Tx, NEW x \in Todo(tx[t]), OperationBegins(t, x)
    PROVE  \E c \in TxContext :
              /\ Locks(c) /\ SameWork(tx[t], c)
              /\ Put(t, tx'[t]) /\ tx'[t] \in TxContext
              /\ LockLeaves(t, c, tx'[t])
<1> DEFINE old == tx[t]
           delFailed == IF x.kind = "create" THEN old.delFailed ELSE FALSE
           final == IF x.kind = "modify" THEN Of(old, "modify") ELSE old.final
           c == [old EXCEPT !.cur = x, !.delFailed = delFailed, !.final = final]
<1>1. /\ old \in TxContext /\ Good(t, old) /\ old.pc = "work"
      /\ x \in Changes(old)
  BY ContextType DEF OperationBegins, Todo
<1>2. Put(t, [c EXCEPT !.pc = "operate"]) \/ AdminOwnerSet(t, c)
  BY Zenon DEF OperationBegins
<1>3. delFailed \in BOOLEAN /\ final \in SUBSET Dns /\ x \in Change
  BY <1>1, OfType, ChangesType DEF TxContext
<1>4. Alive(old)
  BY <1>1 DEF Good, Rounds, Calling, Alive
<1> HIDE DEF old, delFailed, final
<1>5. c \in TxContext /\ SameWork(old, c) /\ c.cur = x
  BY <1>1, <1>3 DEF TxContext, SameWork
<1> HIDE DEF c
<1>6. Changes(c) = Changes(old)
  BY <1>5, ChangesOfCache DEF SameWork
<1>7. Locks(c)
  BY <1>1, <1>3, <1>5, <1>6
  DEF SameWork, Locks, Good, Rounds, Once, Built, Calling, Building, Locking,
      EditLevels
<1>8. ASSUME NEW e, e = [c EXCEPT !.pc = "operate"]
      PROVE  e \in TxContext /\ LockLeaves(t, c, e)
  BY <1>5, <1>8 DEF TxContext, SameWork, LockLeaves, Pcs, Locking
<1> QED
  BY <1>2, <1>4, <1>5, <1>7, <1>8, AdminOwnerSetLeaves, PutIs DEF old

\* So it moves.
LEMMA OperationBeginsMoves ==
    ASSUME IInv, NEW t \in Tx, NEW x \in Todo(tx[t]), OperationBegins(t, x)
    PROVE  Moves(t)
  BY OperationBeginsLeaves, LockLeavesGood, MovesTo

\* One change of the cache is put into the CCB.
LEMMA CcbOperationMoves ==
    ASSUME IInv, NEW t \in Tx, CcbOperation(t)
    PROVE  /\ Moves(t) /\ tx'[t].phase = tx[t].phase
           /\ tx'[t].times = tx[t].times /\ tx'[t].cache = tx[t].cache
<1> DEFINE old == tx[t]
           x == old.cur
           c == [old EXCEPT !.cur = NoChange]
<1>1. /\ old \in TxContext /\ Good(t, old) /\ old.pc = "operate"
      /\ old.level \notin EditLevels
  BY ContextType DEF CcbOperation
<1>2. Locks(old)
  BY <1>1, LockingLocks DEF Locking
<1>3. PICK outcome :
         Put(t, IF outcome = "OK"
                THEN [c EXCEPT !.pc = "work", !.ccb = @ \cup {x}]
                ELSE [After(c, outcome) EXCEPT
                        !.pc = "prepared",
                        !.ret = IF outcome = "RESOURCE" THEN "MafCommitFailed"
                                ELSE "MafFailure",
                        !.delFailed = IF x.kind = "delete" THEN TRUE ELSE @])
  BY Zenon DEF CcbOperation
<1> DEFINE a == After(c, outcome)
           ret == IF outcome = "RESOURCE" THEN "MafCommitFailed"
                  ELSE "MafFailure"
           fails == IF x.kind = "delete" THEN TRUE ELSE a.delFailed
           e == tx'[t]
<1>4. /\ Put(t, e)
      /\ \/ e = [c EXCEPT !.pc = "work", !.ccb = c.ccb \cup {x}]
         \/ e = [a EXCEPT !.pc = "prepared", !.ret = ret, !.delFailed = fails]
  BY <1>3, PutIs
<1> HIDE DEF old
<1>5. c \in TxContext /\ SameWork(old, c)
  BY <1>1 DEF TxContext, SameWork
<1> HIDE DEF c, x
<1>6. a \in TxContext /\ SameCall(c, a)
  BY <1>5, AfterContext
<1>7. ret \in Codes /\ ret # "MafOk" /\ fails \in BOOLEAN
  BY <1>6 DEF Codes, TxContext
<1>8. c.ccb \cup {x} \in SUBSET Change
  BY <1>2, <1>5 DEF TxContext, Locks, x
<1> HIDE DEF a, ret, fails, e
<1>9. /\ e \in TxContext /\ e.cache = old.cache
      /\ e.phase = old.phase /\ e.times = old.times
      /\ e.commit = old.commit /\ e.level = old.level
      /\ e.count = old.count /\ e.retCnt = old.retCnt
      /\ \/ e.pc = "work" /\ e.ccb = old.ccb \cup {x}
         \/ e.pc = "prepared" /\ e.ret # "MafOk"
  <2>1. CASE e = [c EXCEPT !.pc = "work", !.ccb = c.ccb \cup {x}]
    <3>1. /\ e \in TxContext /\ e.cache = c.cache
          /\ e.phase = c.phase /\ e.times = c.times
          /\ e.commit = c.commit /\ e.level = c.level
          /\ e.count = c.count /\ e.retCnt = c.retCnt
          /\ e.pc = "work" /\ e.ccb = c.ccb \cup {x}
      BY <1>5, <1>8, <2>1 DEF TxContext, Pcs
    <3> QED
      BY <1>5, <3>1 DEF SameWork
  <2>2. CASE e = [a EXCEPT !.pc = "prepared", !.ret = ret, !.delFailed = fails]
    <3>1. /\ e \in TxContext /\ e.cache = a.cache
          /\ e.phase = a.phase /\ e.times = a.times
          /\ e.commit = a.commit /\ e.level = a.level
          /\ e.count = a.count /\ e.retCnt = a.retCnt
          /\ e.pc = "prepared" /\ e.ret # "MafOk"
      BY <1>6, <1>7, <2>2 DEF TxContext, Pcs
    <3> QED
      BY <1>5, <1>6, <3>1 DEF SameCall, SameWork
  <2> QED
    BY <1>4, <2>1, <2>2
<1>10. Changes(e) = Changes(old)
  BY <1>9, ChangesOfCache
<1>11. ~ExplicitPrepare => old.ccb \cup {x} \subseteq Changes(old)
  BY <1>1, <1>2 DEF Locks, x
<1>12. Good(t, e) /\ Alive(e)
  BY <1>1, <1>2, <1>9, <1>10, <1>11
  DEF Locks, Good, Counted, Rounds, Once, Built, Calling, Building, Locking,
      EditLevels, Alive
<1> QED
  BY <1>4, <1>9, <1>12 DEF Moves, old, e

\* All changes are in the CCB.
LEMMA PrepareEndsMoves ==
    ASSUME IInv, NEW t \in Tx, PrepareEnds(t)
    PROVE  Moves(t)
<1> DEFINE c == tx[t]
           empty == (Changes(c) = {})
           delFailed == IF Of(c, "delete") \cup Of(c, "modify") = {}
                        THEN FALSE ELSE c.delFailed
           e == [c EXCEPT !.pc = "prepared", !.ret = "MafOk",
                          !.empty = empty, !.delFailed = delFailed]
<1>1. /\ c \in TxContext /\ Good(t, c) /\ c.pc = "work"
      /\ Changes(c) \subseteq c.ccb
  BY ContextType DEF PrepareEnds, Todo
<1>2. Put(t, e)
  BY DEF PrepareEnds
<1>3. delFailed \in BOOLEAN /\ empty \in BOOLEAN
  BY <1>1 DEF TxContext
<1> HIDE DEF c, delFailed, empty
<1>4. e \in TxContext /\ e.cache = c.cache /\ e.ccb = c.ccb
  BY <1>1, <1>3 DEF TxContext, Pcs, Codes
<1>5. Changes(e) = Changes(c)
  BY <1>4, ChangesOfCache
<1>6. ~ExplicitPrepare => Whole(e)
  BY <1>1, <1>4, <1>5 DEF Good, Built, Whole
<1>7. Good(t, e) /\ Alive(e)
  BY <1>1, <1>3, <1>6
  DEF TxContext, Good, Counted, Rounds, Once, Built, Calling, Building, Locking,
      EditLevels, Alive
<1> QED
  BY <1>2, <1>4, <1>7 DEF Moves

\* The preparation that the master asked for returns.
LEMMA PreparedForMasterMoves ==
    ASSUME IInv, NEW t \in Tx, PreparedForMaster(t)
    PROVE  Moves(t)
<1> DEFINE c == tx[t]
           e == [c EXCEPT !.pc = "idle"]
<1>1. /\ c \in TxContext /\ Good(t, c) /\ c.pc = "prepared"
      /\ c.level = "prepare"
  BY ContextType DEF PreparedForMaster
<1>2. Put(t, e)
  BY DEF PreparedForMaster
<1> HIDE DEF c
<1>3. e \in TxContext /\ e.cache = c.cache
  BY <1>1 DEF TxContext, Pcs
<1>4. Changes(e) = Changes(c)
  BY <1>3, ChangesOfCache
<1>5. Good(t, e) /\ Alive(e)
  BY <1>1, <1>4
  DEF TxContext, Good, Counted, Rounds, Once, Built, Whole, Calling, Building,
      Locking, EditLevels, Alive
<1> QED
  BY <1>2, <1>3, <1>5 DEF Moves

\* A round of the preparation fails and another one begins.
LEMMA PrepareRetriedMoves ==
    ASSUME IInv, NEW t \in Tx, PrepareRetried(t)
    PROVE  Moves(t)
<1> DEFINE c == tx[t]
           f == ccbFinalize(c)
           r == Released(f)
           level == IF c.level \in {"validate", "validateAbort"}
                    THEN "validateAbort" ELSE "revalidateAbort"
           e == [r EXCEPT !.created = FALSE, !.pc = "prepare",
                          !.aborts = @ + 1, !.level = level]
<1>1. /\ c \in TxContext /\ Good(t, c) /\ c.pc = "prepared"
      /\ c.level # "prepare" /\ c.aborts < Retries
  BY ContextType DEF PrepareRetried, MayRetry
<1>2. Put(t, e)
  BY DEF PrepareRetried, AbortRetry
<1>3. r \in TxContext /\ SameCall(c, r)
  BY <1>1, CcbContext, ReleasedContext DEF SameCall
<1>4. level \in Levels /\ (level = "revalidateAbort"
                             => c.level \in {"revalidate", "revalidateAbort"})
  BY <1>1 DEF Levels, EditLevels, TxContext, Good, Rounds, Locking
<1>5. level \in {"validateAbort", "revalidateAbort"}
  OBVIOUS
<1> HIDE DEF c, r, level
<1>6. c.aborts + 1 \in 0 .. Retries
  BY <1>1, BoundsNat DEF TxContext
<1>7. e \in TxContext
  BY <1>3, <1>4, <1>6 DEF TxContext, SameCall, Pcs
<1>8. Good(t, e) /\ Alive(e)
  BY <1>1, <1>3, <1>4, <1>5
  DEF TxContext, SameCall, Good, Counted, Rounds, Once, Built, Calling,
      Building, Locking, EditLevels, Alive
<1> QED
  BY <1>2, <1>7, <1>8 DEF Moves

\* The last round of the preparation fails.
LEMMA PrepareGivenUpMoves ==
    ASSUME IInv, NEW t \in Tx, PrepareGivenUp(t)
    PROVE  Moves(t)
<1> DEFINE c == tx[t]
           Left == {c, ccbAbort(c)}
           code == IF c.ret = "MafCommitFailed" THEN "MafFailure" ELSE c.ret
           valid == c.level \in {"validate", "validateAbort"}
<1>1. /\ c \in TxContext /\ Good(t, c) /\ c.pc = "prepared"
      /\ c.level # "prepare" /\ c.ret # "MafOk"
  BY ContextType DEF PrepareGivenUp
<1>2. PICK left \in Left :
         Put(t, [Released(left) EXCEPT !.pc = "validated", !.ret = code,
                                       !.valid = valid])
  BY Zenon DEF PrepareGivenUp
<1> DEFINE r == Released(left)
           e == [r EXCEPT !.pc = "validated", !.ret = code, !.valid = valid]
<1>3. r \in TxContext /\ SameCall(c, r)
  <2>1. left \in TxContext /\ SameCall(c, left)
    BY <1>1, CcbContext DEF SameCall
  <2> HIDE DEF Left, c
  <2> QED
    BY <2>1, ReleasedContext DEF SameCall
<1>4. code \in Codes /\ code # "MafOk" /\ valid \in BOOLEAN
  BY <1>1 DEF Codes, TxContext
<1> HIDE DEF c, r, code, valid
<1>5. e \in TxContext
  BY <1>3, <1>4 DEF TxContext, Pcs
<1>6. Good(t, e) /\ Alive(e)
  BY <1>1, <1>3, <1>4
  DEF TxContext, SameCall, Good, Counted, Rounds, Once, Built, Calling,
      Building, Locking, EditLevels, Alive
<1> QED
  BY <1>2, <1>5, <1>6 DEF Moves, r

\* The preparation made for a validation returns to it.
LEMMA PreparedForValidateMoves ==
    ASSUME IInv, NEW t \in Tx, PreparedForValidate(t)
    PROVE  Moves(t)
<1> DEFINE c == tx[t]
           again == c.level \in {"revalidate", "revalidateAbort"}
           pc == IF c.empty /\ ~again THEN "validated" ELSE "ccbValidate"
           count == IF again THEN c.count + 1 ELSE c.count
           e == [c EXCEPT !.pc = pc, !.count = count, !.aborts = 0]
<1>1. /\ c \in TxContext /\ Good(t, c) /\ c.pc = "prepared"
      /\ c.level # "prepare" /\ c.ret = "MafOk"
  BY ContextType DEF PreparedForValidate
<1>2. Put(t, e)
  BY DEF PreparedForValidate
<1>3. pc \in {"validated", "ccbValidate"} /\ pc \in Pcs
  BY DEF Pcs
<1>4. count \in 0 .. Retries /\ 0 \in 0 .. Retries
  BY <1>1, BoundsNat DEF TxContext, Good, Counted, Rounds, Building
<1> HIDE DEF c, pc, count
<1>5. e \in TxContext /\ e.cache = c.cache
  BY <1>1, <1>3, <1>4 DEF TxContext
<1>6. Changes(e) = Changes(c)
  BY <1>5, ChangesOfCache
<1>7. Good(t, e) /\ Alive(e)
  BY <1>1, <1>3, <1>6
  DEF TxContext, Good, Counted, Rounds, Once, Built, Whole, Calling, Building,
      Locking, EditLevels, Alive
<1> QED
  BY <1>2, <1>5, <1>7 DEF Moves

\* IMM validates the CCB, or does not.
LEMMA CcbValidateMoves ==
    ASSUME IInv, NEW t \in Tx, CcbValidate(t)
    PROVE  Moves(t)
<1> DEFINE c == tx[t]
           done(outcome) == After(c, outcome)
           again(outcome) ==
               [Released(ccbFinalize(done(outcome))) EXCEPT
                  !.created = FALSE, !.aborts = 0, !.pc = "prepare",
                  !.level = "revalidate"]
           invalid(outcome) ==
               [Released(done(outcome)) EXCEPT !.pc = "validated",
                                               !.valid = FALSE]
<1>1. c \in TxContext /\ Good(t, c) /\ c.pc = "ccbValidate"
  BY ContextType DEF CcbValidate
<1>2. PICK outcome \in Outcomes :
         \/ Put(t, [c EXCEPT !.pc = "validated"])
         \/ c.count < Retries /\ Put(t, again(outcome))
         \/ Put(t, invalid(outcome))
  BY DEF CcbValidate
<1>3. 0 \in 0 .. Retries
  BY BoundsNat
<1>4. ASSUME NEW e, e = [c EXCEPT !.pc = "validated"]
      PROVE  e \in TxContext /\ Good(t, e) /\ Alive(e)
  <2> HIDE DEF c
  <2>1. e \in TxContext /\ e.cache = c.cache
    BY <1>1, <1>4 DEF TxContext, Pcs
  <2>2. Changes(e) = Changes(c)
    BY <2>1, ChangesOfCache
  <2> QED
    BY <1>1, <1>4, <2>1, <2>2
    DEF TxContext, Good, Counted, Rounds, Once, Built, Whole, Calling, Building,
        Locking, EditLevels, Alive
<1>5. ASSUME c.count < Retries
      PROVE  /\ again(outcome) \in TxContext
             /\ Good(t, again(outcome)) /\ Alive(again(outcome))
  <2> DEFINE r == Released(ccbFinalize(done(outcome)))
             e == [r EXCEPT !.created = FALSE, !.aborts = 0, !.pc = "prepare",
                            !.level = "revalidate"]
  <2>1. r \in TxContext /\ SameCall(c, r)
    BY <1>1, AfterContext, CcbContext, ReleasedContext DEF SameCall
  <2> HIDE DEF c, r
  <2>2. e \in TxContext
    BY <1>3, <2>1 DEF TxContext, Pcs, Levels
  <2>3. Good(t, e) /\ Alive(e)
    BY <1>1, <1>5, <2>1
    DEF TxContext, SameCall, Good, Counted, Rounds, Once, Built, Calling,
        Building, Locking, EditLevels, Alive
  <2> QED
    BY <2>2, <2>3 DEF r
<1>6. /\ invalid(outcome) \in TxContext
      /\ Good(t, invalid(outcome)) /\ Alive(invalid(outcome))
  <2> DEFINE r == Released(done(outcome))
             e == [r EXCEPT !.pc = "validated", !.valid = FALSE]
  <2>1. r \in TxContext /\ SameCall(c, r)
    BY <1>1, AfterContext, ReleasedContext DEF SameCall
  <2> HIDE DEF c, r
  <2>2. e \in TxContext
    BY <2>1 DEF TxContext, Pcs
  <2>3. Good(t, e) /\ Alive(e)
    BY <1>1, <2>1
    DEF TxContext, SameCall, Good, Counted, Rounds, Once, Built, Calling,
        Building, Locking, EditLevels, Alive
  <2> QED
    BY <2>2, <2>3 DEF r
<1> QED
  BY <1>2, <1>4, <1>5, <1>6 DEF Moves

\* The validation returns to the master.
LEMMA ValidateReturnsMoves ==
    ASSUME IInv, NEW t \in Tx, ValidateReturns(t)
    PROVE  Moves(t)
<1> DEFINE c == tx[t]
           e == [c EXCEPT !.pc = "idle"]
<1>1. c \in TxContext /\ Good(t, c) /\ c.pc = "validated" /\ ~c.commit
  BY ContextType DEF ValidateReturns
<1>2. Put(t, e)
  BY DEF ValidateReturns
<1> HIDE DEF c
<1>3. e \in TxContext /\ e.cache = c.cache
  BY <1>1 DEF TxContext, Pcs
<1>4. Changes(e) = Changes(c)
  BY <1>3, ChangesOfCache
<1>5. Good(t, e) /\ Alive(e)
  BY <1>1, <1>4
  DEF TxContext, Good, Counted, Rounds, Once, Built, Whole, Calling, Building,
      Locking, EditLevels, Alive
<1> QED
  BY <1>2, <1>3, <1>5 DEF Moves

\* The validation made for a commit returns to it.
LEMMA ValidateReturnsToCommitMoves ==
    ASSUME IInv, NEW t \in Tx, ValidateReturnsToCommit(t)
    PROVE  Moves(t)
<1> DEFINE c == tx[t]
           go == [c EXCEPT !.created = FALSE, !.pc = "apply",
                           !.retCnt = @ + 1]
           r == Released(c)
           failed == [r EXCEPT !.pc = "idle", !.ret = "MafCommitFailed"]
<1>1. c \in TxContext /\ Good(t, c) /\ c.pc = "validated" /\ c.commit
  BY ContextType DEF ValidateReturnsToCommit
<1>2. \/ c.ret = "MafOk" /\ c.valid /\ Put(t, go)
      \/ Put(t, failed)
  BY DEF ValidateReturnsToCommit
<1>3. r \in TxContext /\ SameCall(c, r)
  BY <1>1, ReleasedContext
<1> HIDE DEF c, r
<1>4. c.retCnt + 1 \in 0 .. Retries
  BY <1>1, BoundsNat DEF TxContext, Good, Counted, Rounds
<1>5. ASSUME c.ret = "MafOk", c.valid
      PROVE  go \in TxContext /\ Good(t, go) /\ Alive(go)
  <2>1. go \in TxContext /\ go.cache = c.cache
    BY <1>1, <1>4 DEF TxContext, Pcs
  <2>2. Changes(go) = Changes(c)
    BY <2>1, ChangesOfCache
  <2> QED
    BY <1>1, <1>5, <2>1, <2>2
    DEF TxContext, Good, Counted, Rounds, Once, Built, Whole, Calling, Building,
        Locking, EditLevels, Alive
<1>6. failed \in TxContext /\ Good(t, failed) /\ Alive(failed)
  <2>1. failed \in TxContext
    BY <1>3 DEF TxContext, Pcs, Codes
  <2>2. c.phase = "committing"
    BY <1>1 DEF Good, Counted, Rounds, Calling
  <2> QED
    BY <1>1, <1>3, <2>1, <2>2
    DEF TxContext, SameCall, Good, Counted, Rounds, Once, Built, Calling,
        Building, Locking, EditLevels, Alive
<1> QED
  BY <1>2, <1>5, <1>6 DEF Moves

\* IMM applies the CCB.
LEMMA CcbApplyOkMoves ==
    ASSUME IInv, NEW t \in Tx, CcbApplyOk(t)
    PROVE  Moves(t)
<1> DEFINE c == tx[t]
           a == AppliedBy(c)
           r == Released(a)
           e == [r EXCEPT !.pc = "idle", !.ret = "MafOk", !.phase = "committed"]
<1>1. c \in TxContext /\ Good(t, c) /\ c.pc = "apply" /\ c.handle = "live"
  BY ContextType DEF CcbApplyOk
<1>2. Put(t, e)
  BY DEF CcbApplyOk
<1>3. r \in TxContext /\ SameCall(a, r)
  BY <1>1, AppliedContext, ReleasedContext
<1>4. a.applied = c.ccb /\ a.times = c.times + 1 /\ a.cache = c.cache
        /\ a.level = c.level /\ a.count = c.count /\ a.commit = c.commit
  BY <1>1, AppliedContext
<1>5. c.phase = "committing" /\ c.times = 0 /\ c.level \notin EditLevels
  BY <1>1 DEF Good, Rounds, Once, Calling, Locking
<1> HIDE DEF c, a, r
<1>6. e \in TxContext /\ e.cache = c.cache
  <2>1. "idle" \in Pcs /\ "MafOk" \in Codes /\ "committed" \in Phases
    BY DEF Pcs, Codes, Phases
  <2>2. e \in TxContext /\ e.cache = r.cache
    BY <1>3, <2>1 DEF TxContext
  <2> QED
    BY <1>3, <1>4, <2>2 DEF SameCall
<1>7. Changes(e) = Changes(c)
  BY <1>6, ChangesOfCache
<1>8. ~ExplicitPrepare => c.ccb = Changes(c)
  BY <1>1 DEF Good, Built, Whole
<1>9. /\ e.times = 1 /\ e.applied = c.ccb /\ e.pc = "idle"
      /\ e.phase = "committed" /\ e.commit = c.commit
      /\ e.level \notin EditLevels
  BY <1>3, <1>4, <1>5, <1>6 DEF TxContext, SameCall
<1> HIDE DEF e
<1>10. Good(t, e) /\ Alive(e)
  BY <1>6, <1>7, <1>8, <1>9
  DEF Good, Counted, Rounds, Once, Built, Calling, Building, Locking,
      EditLevels, Alive
<1> QED
  BY <1>2, <1>6, <1>10 DEF Moves

\* IMM does not apply the CCB.
LEMMA CcbApplyFailsMoves ==
    ASSUME IInv, NEW t \in Tx, NEW outcome \in Outcomes,
           NEW carriedOut \in BOOLEAN, CcbApplyFails(t, outcome, carriedOut)
    PROVE  Moves(t)
<1> DEFINE old == tx[t]
           c == IF carriedOut THEN AppliedBy(old) ELSE After(old, outcome)
           f == Released(ccbFinalize(c))
           r == Released(c)
           again == [f EXCEPT !.pc = "prepare", !.level = "validate",
                              !.valid = TRUE, !.aborts = 0, !.count = 0]
           failed == [r EXCEPT !.pc = "idle", !.ret = "MafCommitFailed"]
<1>1. old \in TxContext /\ Good(t, old) /\ old.pc = "apply"
  BY ContextType DEF CcbApplyFails
<1>2. old.phase = "committing" /\ old.times = 0 /\ old.commit
  BY <1>1 DEF Good, Counted, Rounds, Once, Calling
<1>3. \/ ~carriedOut /\ c.retCnt < Retries /\ Put(t, again)
      \/ Put(t, failed)
  <2>1. carriedOut => outcome = "ERROR"
    BY DEF CcbApplyFails
  <2>2. Put(t, IF RetriesAfter(outcome) /\ c.retCnt < Retries THEN again
               ELSE failed)
    BY Zenon DEF CcbApplyFails
  <2> HIDE DEF c, again, failed
  <2> QED
    BY <2>1, <2>2 DEF RetriesAfter
<1>4. /\ c \in TxContext /\ c.phase = "committing" /\ c.commit
      /\ c.times \in {0, 1} /\ (~carriedOut => c.times = 0)
      /\ c.created = old.created /\ c.level \notin EditLevels
  <2>0. old.level \notin EditLevels
    BY <1>1 DEF Good, Rounds, Locking
  <2>1. CASE carriedOut
    BY <1>1, <1>2, <2>0, <2>1, AppliedContext
  <2>2. CASE ~carriedOut
    BY <1>1, <1>2, <2>0, <2>2, AfterContext DEF SameCall
  <2> QED
    BY <2>1, <2>2
<1> HIDE DEF c, old
<1>5. /\ f \in TxContext /\ SameCall(c, f)
      /\ r \in TxContext /\ SameCall(c, r)
  <2>1. ccbFinalize(c) \in TxContext /\ SameCall(c, ccbFinalize(c))
    BY <1>4, CcbContext
  <2>2. f \in TxContext /\ SameCall(ccbFinalize(c), f)
    BY <2>1, ReleasedContext
  <2>3. r \in TxContext /\ SameCall(c, r)
    BY <1>4, ReleasedContext
  <2> HIDE DEF f
  <2>4. SameCall(c, f)
    BY <2>1, <2>2 DEF SameCall
  <2> QED
    BY <2>2, <2>3, <2>4
<1> HIDE DEF f, r
<1>6. 0 \in 0 .. Retries
  BY BoundsNat
<1>7. ASSUME ~carriedOut, c.retCnt < Retries
      PROVE  again \in TxContext /\ Good(t, again) /\ Alive(again)
  <2>1. again \in TxContext
    BY <1>5, <1>6 DEF TxContext, Pcs, Levels
  <2>2. ~ExplicitPrepare => ~c.created
    BY <1>1, <1>4 DEF Good, Built
  <2> QED
    BY <1>4, <1>5, <1>7, <2>1, <2>2
    DEF TxContext, SameCall, Good, Counted, Rounds, Once, Built, Calling,
        Building, Locking, EditLevels, Alive
<1>8. failed \in TxContext /\ Good(t, failed) /\ Alive(failed)
  <2>1. failed \in TxContext
    BY <1>5 DEF TxContext, Pcs, Codes
  <2> QED
    BY <1>4, <1>5, <2>1
    DEF TxContext, SameCall, Good, Counted, Rounds, Once, Built, Calling,
        Building, Locking, EditLevels, Alive
<1> QED
  BY <1>3, <1>7, <1>8 DEF Moves

\* A context that moves keeps the contexts of all transactions good.
LEMMA MovesGood ==
    ASSUME IInv, NEW t \in Tx, NEW e \in TxContext, Put(t, e), Good(t, e)
    PROVE  tx' \in [Tx -> TxContext] /\ GoodInv'
<1>1. /\ tx' \in [Tx -> TxContext] /\ tx'[t] = e
      /\ \A u \in Tx \ {t} : tx'[u] = tx[u]
  BY PutContext DEF IInv
<1>2. ASSUME NEW u \in Tx PROVE Good(u, tx'[u])
  BY <1>1 DEF IInv, GoodInv
<1> QED
  BY <1>1, <1>2 DEF GoodInv

----------------------------------------------------------------------------
(***************************************************************************)
(* The rest of the state, and the invariant.                               *)
(***************************************************************************)
RestOK ==
    /\ owner \in [Dns -> Tx \cup {NoOwner, Stale, Foreign}]
    /\ exists \subseteq Dns
    /\ edits \in 0 .. MaxEdits
    /\ asked \in 0 .. MaxValidates
    /\ faults \in 0 .. MaxFaults

\* The parts of the type invariant.
LEMMA TypeParts == TypeOK <=> tx \in [Tx -> TxContext] /\ RestOK
  BY DEF TypeOK, RestOK

\* Asking for a lock keeps the types of the owners, and counts a fault.
LEMMA AdminOwnerSetRest ==
    ASSUME TypeOK, NEW t \in Tx, NEW c, AdminOwnerSet(t, c)
    PROVE  /\ owner' \in [Dns -> Tx \cup {NoOwner, Stale, Foreign}]
           /\ faults' \in 0 .. MaxFaults
<1>1. owner' \in [Dns -> Tx \cup {NoOwner, Stale, Foreign}]
  BY DEF AdminOwnerSet, TypeOK
<1>2. UNCHANGED faults \/ Fault("ERROR", FALSE)
  BY DEF AdminOwnerSet
<1>3. faults' \in 0 .. MaxFaults
  BY <1>2, FaultType DEF TypeOK
<1> QED
  BY <1>1, <1>3

\* So does an edit.
LEMMA EditRest ==
    ASSUME TypeOK, NEW t \in Tx, NEW x, Edit(t, x)
    PROVE  RestOK'
<1>1. \/ \E c : AdminOwnerSet(t, c)
      \/ UNCHANGED <<owner, faults>>
  BY Zenon DEF Edit
<1>2. /\ owner' \in [Dns -> Tx \cup {NoOwner, Stale, Foreign}]
      /\ faults' \in 0 .. MaxFaults
  BY <1>1, AdminOwnerSetRest DEF TypeOK
<1>3. edits' \in 0 .. MaxEdits /\ UNCHANGED <<exists, asked>>
  BY BoundsNat DEF Edit, TypeOK
<1> QED
  BY <1>2, <1>3 DEF RestOK, TypeOK

\* And so do the calls of IMM within lockDn, and the operation after it.
LEMMA LockStepRest ==
    ASSUME TypeOK, NEW t \in Tx,
           \/ getAdminOwner(t) \/ AdminOwnerClear(t) \/ EditDone(t)
           \/ AdminOwnerSetAgain(t) \/ RestoreLock(t) \/ EditRefused(t)
           \/ \E x : OperationBegins(t, x)
    PROVE  RestOK'
<1>1. UNCHANGED <<exists, bounds>>
  BY DEF getAdminOwner, AdminOwnerClear, AdminOwnerSetAgain, RestoreLock,
         EditDone, EditRefused, OperationBegins
<1>2. /\ owner' \in [Dns -> Tx \cup {NoOwner, Stale, Foreign}]
      /\ faults' \in 0 .. MaxFaults
  <2>1. CASE AdminOwnerSetAgain(t) \/ RestoreLock(t)
    BY <2>1, AdminOwnerSetRest DEF AdminOwnerSetAgain, RestoreLock
  <2>2. CASE \E x : OperationBegins(t, x)
    <3>1. (\E c : AdminOwnerSet(t, c)) \/ UNCHANGED <<owner, faults>>
      BY <2>2, Zenon DEF OperationBegins
    <3> QED
      BY <3>1, AdminOwnerSetRest DEF TypeOK
  <2>3. CASE getAdminOwner(t)
    <3>1. UNCHANGED owner /\ \E outcome, forced : Fault(outcome, forced)
      BY <2>3, Zenon DEF getAdminOwner
    <3> QED
      BY <3>1, FaultType DEF TypeOK
  <2>4. CASE AdminOwnerClear(t)
    <3>1. \E outcome, forced : Fault(outcome, forced)
      BY <2>4, Zenon DEF AdminOwnerClear
    <3>2. owner' \in [Dns -> Tx \cup {NoOwner, Stale, Foreign}]
      BY <2>4 DEF AdminOwnerClear, TypeOK
    <3> QED
      BY <3>1, <3>2, FaultType
  <2>5. CASE EditDone(t) \/ EditRefused(t)
    BY <2>5 DEF EditDone, EditRefused, TypeOK
  <2> QED
    BY <2>1, <2>2, <2>3, <2>4, <2>5
<1> QED
  BY <1>1, <1>2 DEF RestOK, TypeOK, bounds

\* Applying a ccb leaves a set of objects.
LEMMA ObjectsType ==
    ASSUME TypeOK, NEW content \in SUBSET Change
    PROVE  ObjectsAfter(content) \subseteq Dns
  BY DEF TypeOK, ObjectsAfter, Change

\* A step of a transaction keeps the types of the rest.
LEMMA RestNext ==
    ASSUME IInv, NEW t \in Tx, Calls(t) \/ Work(t)
    PROVE  RestOK'
<1>0. TypeOK /\ tx[t] \in TxContext
  BY ContextType DEF IInv
<1> USE DEF bounds
<1>1. CASE OamSAJoin(t) \/ MasterPrepares(t) \/ OamSACommit(t) \/ OamSAAbort(t)
  BY <1>0, <1>1
  DEF OamSAJoin, MasterPrepares, OamSACommit, OamSAAbort, RestOK, TypeOK
<1>2. ASSUME NEW d \in Dns,
             setImmMoAttribute(t, d) \/ createImmMo(t, d) \/ deleteImmMo(t, d)
      PROVE  RestOK'
  BY <1>0, <1>2, EditRest DEF setImmMoAttribute, createImmMo, deleteImmMo
<1>3. CASE \/ getAdminOwner(t) \/ AdminOwnerClear(t) \/ EditDone(t)
           \/ AdminOwnerSetAgain(t) \/ RestoreLock(t) \/ EditRefused(t)
           \/ \E x \in Todo(tx[t]) : OperationBegins(t, x)
  BY <1>0, <1>3, LockStepRest
<1>4. CASE UserValidates(t) \/ MasterCommits(t)
  <2>1. /\ asked' \in 0 .. MaxValidates /\ faults' \in 0 .. MaxFaults
        /\ UNCHANGED <<owner, exists, edits>>
    <3>1. CASE UserValidates(t)
      <4>1. /\ StartValidate(t, "open") /\ asked < MaxValidates
            /\ asked' = asked + 1 /\ UNCHANGED edits
        BY <3>1 DEF UserValidates
      <4>2. faults' \in 0 .. MaxFaults /\ UNCHANGED <<owner, exists>>
        BY <1>0, <4>1, FaultType DEF StartValidate, TypeOK
      <4>3. asked' \in 0 .. MaxValidates
        BY <1>0, <4>1, BoundsNat DEF TypeOK
      <4> QED
        BY <4>1, <4>2, <4>3
    <3>2. CASE MasterCommits(t)
      <4>1. StartValidate(t, "validating") /\ UNCHANGED bounds
        BY <3>2 DEF MasterCommits
      <4>2. faults' \in 0 .. MaxFaults /\ UNCHANGED <<owner, exists>>
        BY <1>0, <4>1, FaultType DEF StartValidate, TypeOK
      <4> QED
        BY <1>0, <4>1, <4>2 DEF TypeOK
    <3> QED
      BY <1>4, <3>1, <3>2
  <2> QED
    BY <1>0, <2>1 DEF RestOK, TypeOK
<1>5. CASE OamSAFinish(t)
  <2>1. faults' \in 0 .. MaxFaults
    BY <1>0, <1>5, FaultType DEF OamSAFinish
  <2>2. owner' \in [Dns -> Tx \cup {NoOwner, Stale, Foreign}]
    BY <1>0, <1>5 DEF OamSAFinish, TypeOK
  <2> QED
    BY <1>0, <1>5, <2>1, <2>2 DEF OamSAFinish, RestOK, TypeOK
<1>6. CASE PrepareBegins(t)
  <2>1. faults' \in 0 .. MaxFaults
    BY <1>0, <1>6, FaultType DEF PrepareBegins, TypeOK
  <2> QED
    BY <1>0, <1>6, <2>1 DEF PrepareBegins, RestOK, TypeOK
<1>7. CASE CcbOperation(t)
  <2>1. faults' \in 0 .. MaxFaults
    BY <1>0, <1>7, FaultType DEF CcbOperation
  <2> QED
    BY <1>0, <1>7, <2>1 DEF CcbOperation, RestOK, TypeOK
<1>9. CASE PrepareEnds(t) \/ PreparedForMaster(t) \/ PreparedForValidate(t)
             \/ ValidateReturns(t)
  BY <1>0, <1>9 DEF PrepareEnds, PreparedForMaster, PreparedForValidate,
                    ValidateReturns, RestOK, TypeOK
<1>8. CASE PrepareGivenUp(t)
  <2>1. /\ \E outcome, forced : Fault(outcome, forced)
        /\ \E c : owner' = OwnersReleased(t, c)
        /\ UNCHANGED <<exists, edits, asked>>
    BY <1>8, Zenon DEF PrepareGivenUp, bounds
  <2> QED
    BY <1>0, <2>1, FaultType, OwnersType DEF RestOK, TypeOK
<1>10. CASE PrepareRetried(t) \/ ValidateReturnsToCommit(t)
  <2>1. owner' \in [Dns -> Tx \cup {NoOwner, Stale, Foreign}]
    <3>1. \/ owner' = owner
          \/ \E c : owner' = OwnersReleased(t, c)
      BY <1>10 DEF PrepareRetried, ValidateReturnsToCommit
    <3> QED
      BY <1>0, <3>1, OwnersType DEF TypeOK
  <2> QED
    BY <1>0, <1>10, <2>1
    DEF PrepareRetried, ValidateReturnsToCommit, RestOK, TypeOK
<1>11. CASE CcbValidate(t)
  <2>1. faults' \in 0 .. MaxFaults
    BY <1>0, <1>11, FaultType DEF CcbValidate
  <2>2. owner' \in [Dns -> Tx \cup {NoOwner, Stale, Foreign}]
    BY <1>0, <1>11, OwnersType DEF CcbValidate, TypeOK
  <2> QED
    BY <1>0, <1>11, <2>1, <2>2 DEF CcbValidate, RestOK, TypeOK
<1>12. CASE CcbApplyOk(t)
  <2>1. tx[t].ccb \in SUBSET Change
    BY <1>0 DEF TxContext
  <2>2. exists' \subseteq Dns
    BY <1>0, <1>12, <2>1, ObjectsType DEF CcbApplyOk
  <2>3. owner' \in [Dns -> Tx \cup {NoOwner, Stale, Foreign}]
    BY <1>0, <1>12, OwnersType DEF CcbApplyOk
  <2> QED
    BY <1>0, <1>12, <2>2, <2>3 DEF CcbApplyOk, RestOK, TypeOK
<1>13. ASSUME NEW outcome \in Outcomes, NEW carriedOut \in BOOLEAN,
              CcbApplyFails(t, outcome, carriedOut)
       PROVE  RestOK'
  <2>1. tx[t].ccb \in SUBSET Change
    BY <1>0 DEF TxContext
  <2>2. exists' \subseteq Dns
    BY <1>0, <1>13, <2>1, ObjectsType DEF CcbApplyFails, TypeOK
  <2>3. owner' \in [Dns -> Tx \cup {NoOwner, Stale, Foreign}]
    <3> DEFINE c == IF carriedOut THEN AppliedBy(tx[t])
                    ELSE After(tx[t], outcome)
    <3>1. owner' = [d \in Dns |-> IF d \notin exists' THEN NoOwner
                                  ELSE OwnersReleased(t, c)[d]]
      BY <1>13 DEF CcbApplyFails
    <3>2. OwnersReleased(t, c) \in [Dns -> Tx \cup {NoOwner, Stale, Foreign}]
      BY <1>0, OwnersType
    <3> QED
      BY <3>1, <3>2
  <2>4. faults' \in 0 .. MaxFaults
    BY <1>0, <1>13, FaultType DEF CcbApplyFails
  <2> QED
    BY <1>0, <1>13, <2>2, <2>3, <2>4 DEF CcbApplyFails, RestOK, TypeOK
<1> QED
  BY <1>1, <1>2, <1>3, <1>4, <1>5, <1>6, <1>7, <1>8, <1>9, <1>10, <1>11,
     <1>12, <1>13
  DEF Calls, Work

\* A step of a transaction that does not end it moves its context.
LEMMA StepMoves ==
    ASSUME IInv, NEW t \in Tx, Calls(t) \/ Work(t)
    PROVE  Moves(t) \/ OamSAFinish(t)
<1>1. CASE UserValidates(t) \/ MasterCommits(t)
  BY <1>1, StartValidateMoves DEF UserValidates, MasterCommits
<1>2. CASE \E d \in Dns :
             setImmMoAttribute(t, d) \/ createImmMo(t, d) \/ deleteImmMo(t, d)
  BY <1>2, EditsAreChanges, EditMoves
<1>3. CASE Calls(t)
  BY <1>1, <1>2, <1>3, JoinMoves, MasterPreparesMoves, CommitMoves, AbortMoves
  DEF Calls
<1>4. CASE Work(t)
  BY <1>4, LockStepMoves, EditDoneMoves, EditRefusedMoves, OperationBeginsMoves,
     PrepareBeginsMoves, CcbOperationMoves, PrepareEndsMoves,
     PreparedForMasterMoves, PrepareRetriedMoves,
     PrepareGivenUpMoves, PreparedForValidateMoves, CcbValidateMoves,
     ValidateReturnsMoves, ValidateReturnsToCommitMoves, CcbApplyOkMoves,
     CcbApplyFailsMoves
  DEF Work
<1> QED
  BY <1>3, <1>4

\* Init establishes the invariant.
LEMMA InvInit == Init => IInv
<1> SUFFICES ASSUME Init PROVE IInv
  OBVIOUS
<1>1. RestOK
  BY BoundsNat DEF Init, RestOK
<1>2. tx \in [Tx -> TxContext]
  BY NewContextType DEF Init
<1>3. \A t \in Tx : Good(t, NewContext)
  <2>1. /\ NewContext.pc = "idle" /\ NewContext.phase = "new"
        /\ ~NewContext.commit /\ NewContext.times = 0
        /\ NewContext.level = "prepare"
    BY DEF NewContext
  <2> QED
    BY <2>1
    DEF Good, Counted, Rounds, Once, Built, Calling, Building, Locking,
        EditLevels
<1>4. GoodInv
  BY <1>3 DEF Init, GoodInv
<1> QED
  BY <1>1, <1>2, <1>4, TypeParts DEF IInv

\* Every step keeps the invariant.
LEMMA InvNext == IInv /\ [Next]_vars => IInv'
<1> SUFFICES ASSUME IInv, [Next]_vars PROVE IInv'
  OBVIOUS
<1>0. tx \in [Tx -> TxContext] /\ RestOK /\ GoodInv
  BY TypeParts DEF IInv
<1>p. tx' \in [Tx -> TxContext] /\ RestOK' => TypeOK'
  BY DEF TypeOK, RestOK
<1>1. ASSUME NEW t \in Tx, Calls(t) \/ Work(t)
      PROVE  tx' \in [Tx -> TxContext] /\ RestOK' /\ GoodInv'
  BY <1>1, FinishMoves, MovesGood, RestNext, StepMoves DEF Moves
<1>2. CASE UNCHANGED vars
  BY <1>2 DEF vars, bounds, IInv, TypeOK, GoodInv
<1> QED
  BY <1>p, <1>1, <1>2 DEF Next, IInv

\* The invariant holds in every behaviour.
LEMMA Invariant == Spec => []IInv
  BY InvInit, InvNext, PTL DEF Spec

(***************************************************************************)
(* Every context and the state of IMM keep values of their types; in       *)
(* particular the three nested retry counters never exceed                 *)
(* IMM_ABORT_RETRIES_COUNT, whatever IMM answers.                          *)
(***************************************************************************)
THEOREM TypeCorrect == Spec => []TypeOK
<1>1. IInv => TypeOK
  BY DEF IInv
<1> QED
  BY <1>1, Invariant, PTL

(***************************************************************************)
(* No transaction is applied twice, through any sequence of aborts,        *)
(* timeouts and retries of OamSACommit.                                    *)
(***************************************************************************)
THEOREM AppliedOnce == Spec => []AppliedAtMostOnce
<1>1. IInv => AppliedAtMostOnce
  BY DEF IInv, GoodInv, Good, Once, AppliedAtMostOnce
<1> QED
  BY <1>1, Invariant, PTL

(***************************************************************************)
(* A commit that succeeds has applied every change of the transaction, for *)
(* any number of transactions, objects, edits and rebuilt ccbs, provided   *)
(* that the master validates before it prepares.                           *)
(***************************************************************************)
THEOREM CommitComplete ==
    ASSUME ~ExplicitPrepare
    PROVE  Spec => []CommitIsComplete
<1>1. IInv => CommitIsComplete
  BY DEF IInv, GoodInv, Good, Built, CommitIsComplete
<1> QED
  BY <1>1, Invariant, PTL

----------------------------------------------------------------------------
(***************************************************************************)
(* Ownership.  A lock is given only on objects that are nobody's or the    *)
(* asker's own, a release frees only those of its transaction, and only    *)
(* checkSetAdminOwner clears an owner by its name.                         *)
(***************************************************************************)
\* A transaction takes an object only from nobody, or from one that is gone.
TakesFree(t, d) ==
    \/ owner'[d] \in {owner[d], NoOwner}
    \/ owner'[d] = t /\ owner[d] \notin Tx \ {t}

\* Whose ownership of an object that stays may end in a step of t.
FreesOwn(t, d) ==
    owner[d] \in Tx /\ d \in exists' /\ owner'[d] # owner[d]
       => /\ owner[d] = t \/ tx[t].pc = "clear"
          /\ tx'[t] # tx[t]

\* Asking for a lock.
LEMMA AdminOwnerSetFrees ==
    ASSUME TypeOK, NEW t \in Tx, NEW c, AdminOwnerSet(t, c), NEW d \in Dns
    PROVE  TakesFree(t, d) /\ FreesOwn(t, d)
<1>1. NoOwner \notin Tx
  BY ConstantsAssumption
<1>2. CASE UNCHANGED owner
  BY <1>2 DEF TakesFree, FreesOwn
<1>3. CASE ~UNCHANGED owner
  <2>1. /\ ~Conflict(t, LockName(c.cur), LockScope(c.cur))
        /\ owner' = [e \in Dns |->
                       IF e \in Targets(LockName(c.cur), LockScope(c.cur))
                       THEN t ELSE owner[e]]
    BY <1>3, Zenon DEF AdminOwnerSet
  <2> QED
    BY <1>1, <2>1 DEF Conflict, TakesFree, FreesOwn
<1> QED
  BY <1>2, <1>3

\* A step that gives back what the transaction owns, and goes on from there.
LEMMA ReleaseFrees ==
    ASSUME NEW t \in Tx, tx'[t].pc # tx[t].pc,
           \A d \in Dns : owner'[d] = owner[d]
                          \/ (owner'[d] = NoOwner
                               /\ (d \in exists' => owner[d] = t)),
           NEW d \in Dns
    PROVE  TakesFree(t, d) /\ FreesOwn(t, d)
  BY DEF TakesFree, FreesOwn

\* What is released was owned.
LEMMA OwnersReleasedAre ==
    ASSUME NEW t \in Tx, NEW c, NEW d \in Dns
    PROVE  \/ OwnersReleased(t, c)[d] = owner[d]
           \/ OwnersReleased(t, c)[d] = NoOwner /\ owner[d] = t
  BY DEF OwnersReleased

\* The steps that release locks end where they did not begin.
LEMMA ReleasersGoOn ==
    ASSUME IInv, NEW t \in Tx,
           \/ PrepareRetried(t) \/ PrepareGivenUp(t)
           \/ CcbValidate(t) /\ ~UNCHANGED owner
           \/ ValidateReturnsToCommit(t) \/ CcbApplyOk(t) \/ EditRefused(t)
           \/ \E outcome \in Outcomes, carriedOut \in BOOLEAN :
                 CcbApplyFails(t, outcome, carriedOut)
    PROVE  tx'[t].pc # tx[t].pc
<1> DEFINE c == tx[t]
           e == tx'[t]
<1>0. c \in TxContext
  BY ContextType
<1>1. CASE PrepareRetried(t)
  <2> DEFINE level == IF c.level \in {"validate", "validateAbort"}
                      THEN "validateAbort" ELSE "revalidateAbort"
             r == Released(ccbFinalize(c))
  <2>1. e = [r EXCEPT !.created = FALSE, !.pc = "prepare", !.aborts = @ + 1,
                      !.level = level]
    BY <1>1, PutIs DEF PrepareRetried, AbortRetry
  <2>2. r \in TxContext
    BY <1>0, CcbContext, ReleasedContext
  <2>3. c.pc = "prepared"
    BY <1>1 DEF PrepareRetried
  <2> HIDE DEF c, e, r, level
  <2>4. e.pc = "prepare"
    BY <2>1, <2>2 DEF TxContext
  <2> QED
    BY <2>3, <2>4 DEF c, e
<1>2. CASE PrepareGivenUp(t)
  <2> DEFINE Left == {c, ccbAbort(c)}
             code == IF c.ret = "MafCommitFailed" THEN "MafFailure" ELSE c.ret
             valid == c.level \in {"validate", "validateAbort"}
  <2>1. PICK left \in Left :
           Put(t, [Released(left) EXCEPT !.pc = "validated", !.ret = code,
                                         !.valid = valid])
    BY <1>2, Zenon DEF PrepareGivenUp
  <2> DEFINE r == Released(left)
  <2>2. r \in TxContext
    BY <1>0, CcbContext, ReleasedContext
  <2>3. c.pc = "prepared"
    BY <1>2 DEF PrepareGivenUp
  <2>4. e = [r EXCEPT !.pc = "validated", !.ret = code, !.valid = valid]
    BY <2>1, PutIs
  <2> HIDE DEF c, e, r, code, valid
  <2>5. e.pc = "validated"
    BY <2>2, <2>4 DEF TxContext
  <2> QED
    BY <2>3, <2>5 DEF c, e
<1>3. CASE CcbValidate(t) /\ ~UNCHANGED owner
  <2>1. PICK outcome \in Outcomes :
           LET done == After(c, outcome)
           IN  \/ e = [Released(ccbFinalize(done)) EXCEPT
                         !.created = FALSE, !.aborts = 0, !.pc = "prepare",
                         !.level = "revalidate"]
               \/ e = [Released(done) EXCEPT !.pc = "validated",
                                             !.valid = FALSE]
    BY <1>3, PutIs, Zenon DEF CcbValidate
  <2> DEFINE done == After(c, outcome)
             p == Released(ccbFinalize(done))
             q == Released(done)
  <2>2. p \in TxContext /\ q \in TxContext
    BY <1>0, AfterContext, CcbContext, ReleasedContext
  <2>3. c.pc = "ccbValidate"
    BY <1>3 DEF CcbValidate
  <2>4. \/ e = [p EXCEPT !.created = FALSE, !.aborts = 0, !.pc = "prepare",
                         !.level = "revalidate"]
        \/ e = [q EXCEPT !.pc = "validated", !.valid = FALSE]
    BY <2>1
  <2> HIDE DEF c, e, p, q
  <2>5. e.pc \in {"prepare", "validated"}
    BY <2>2, <2>4 DEF TxContext
  <2> QED
    BY <2>3, <2>5 DEF c, e
<1>4. CASE ValidateReturnsToCommit(t)
  <2> DEFINE r == Released(c)
  <2>1. \/ e = [c EXCEPT !.created = FALSE, !.pc = "apply", !.retCnt = @ + 1]
        \/ e = [r EXCEPT !.pc = "idle", !.ret = "MafCommitFailed"]
    BY <1>4, PutIs, Zenon DEF ValidateReturnsToCommit
  <2>2. r \in TxContext
    BY <1>0, ReleasedContext
  <2>3. c.pc = "validated"
    BY <1>4 DEF ValidateReturnsToCommit
  <2> HIDE DEF c, e, r
  <2>4. e.pc \in {"apply", "idle"}
    BY <1>0, <2>1, <2>2 DEF TxContext, c
  <2> QED
    BY <2>3, <2>4 DEF c, e
<1>5. CASE CcbApplyOk(t)
  <2> DEFINE r == Released(AppliedBy(c))
  <2>1. e = [r EXCEPT !.pc = "idle", !.ret = "MafOk", !.phase = "committed"]
    BY <1>5, PutIs DEF CcbApplyOk
  <2>2. r \in TxContext
    BY <1>0, AppliedContext, ReleasedContext
  <2>3. c.pc = "apply"
    BY <1>5 DEF CcbApplyOk
  <2> HIDE DEF c, e, r
  <2>4. e.pc = "idle"
    BY <2>1, <2>2 DEF TxContext
  <2> QED
    BY <2>3, <2>4 DEF c, e
<1>6. ASSUME NEW outcome \in Outcomes, NEW carriedOut \in BOOLEAN,
             CcbApplyFails(t, outcome, carriedOut)
      PROVE  tx'[t].pc # tx[t].pc
  <2> DEFINE b == IF carriedOut THEN AppliedBy(c) ELSE After(c, outcome)
             p == Released(ccbFinalize(b))
             q == Released(b)
  <2>1. \/ e = [p EXCEPT !.pc = "prepare", !.level = "validate",
                         !.valid = TRUE, !.aborts = 0, !.count = 0]
        \/ e = [q EXCEPT !.pc = "idle", !.ret = "MafCommitFailed"]
    BY <1>6, PutIs, Zenon DEF CcbApplyFails
  <2>2. p \in TxContext /\ q \in TxContext
    BY <1>0, AfterContext, AppliedContext, CcbContext, ReleasedContext
  <2>3. c.pc = "apply"
    BY <1>6 DEF CcbApplyFails
  <2> HIDE DEF c, e, p, q
  <2>4. e.pc \in {"prepare", "idle"}
    BY <2>1, <2>2 DEF TxContext
  <2> QED
    BY <2>3, <2>4 DEF c, e
<1>7. CASE EditRefused(t)
  <2> DEFINE d == LockName(c.cur)
             cur == [c.cur EXCEPT !.kind = "modify"]
             b == [c EXCEPT !.pc = "restore", !.level = "restore", !.cur = cur]
             r == Returns(c)
  <2>1. \/ Put(t, [b EXCEPT !.owned[d] = 0])
        \/ Put(t, [r EXCEPT !.owned[d] = 0])
        \/ Put(t, r)
    BY <1>7, Zenon DEF EditRefused
  <2>2. c.pc = "operate"
    BY <1>7 DEF EditRefused
  <2>3. \/ e = [b EXCEPT !.owned[d] = 0]
        \/ e = [r EXCEPT !.owned[d] = 0]
        \/ e = r
    BY <2>1, PutIs
  <2> HIDE DEF c, e, d, cur
  <2>4. r \in TxContext /\ r.pc = "idle"
    BY <1>0 DEF TxContext, Pcs, Returns, c
  <2>5. b \in [DOMAIN c -> {b[f] : f \in DOMAIN c}] /\ b.pc = "restore"
    BY <1>0 DEF TxContext, c
  <2> HIDE DEF b, r
  <2>6. e.pc \in {"restore", "idle"}
    BY <1>0, <2>3, <2>4, <2>5 DEF TxContext, c
  <2> QED
    BY <2>2, <2>6 DEF c, e
<1> QED
  BY <1>1, <1>2, <1>3, <1>4, <1>5, <1>6, <1>7

\* Clearing owners by name: what was asked for is not anyone's then.
LEMMA ClearFrees ==
    ASSUME IInv, NEW t \in Tx, AdminOwnerClear(t), NEW d \in Dns
    PROVE  TakesFree(t, d) /\ FreesOwn(t, d)
<1> DEFINE c == tx[t]
           e == tx'[t]
<1>1. c \in TxContext /\ c.pc = "clear"
  BY ContextType DEF AdminOwnerClear
<1>2. \/ e = LockRefused(c, "MafFailure")
      \/ e = LockDone(c)
      \/ e = [c EXCEPT !.pc = "again", !.alive = {}]
  BY PutIs, Zenon DEF AdminOwnerClear
<1>3. owner'[d] \in {owner[d], NoOwner}
  BY DEF AdminOwnerClear
<1> HIDE DEF c, e
<1>4. e.pc # "clear"
  BY <1>1, <1>2 DEF TxContext, LockRefused, LockDone, Returns
<1> QED
  BY <1>1, <1>3, <1>4 DEF TakesFree, FreesOwn, c, e

\* What the steps that do not end the transaction do to an owner.
LEMMA StepTakesFree ==
    ASSUME IInv, NEW t \in Tx, Calls(t) \/ Work(t), ~OamSAFinish(t),
           NEW d \in Dns
    PROVE  TakesFree(t, d) /\ FreesOwn(t, d)
<1>0. TypeOK
  BY DEF IInv
<1>1. CASE UNCHANGED owner
  BY <1>1 DEF TakesFree, FreesOwn
<1>2. CASE \E c : AdminOwnerSet(t, c)
  BY <1>0, <1>2, AdminOwnerSetFrees
<1>3. CASE AdminOwnerClear(t)
  BY <1>3, ClearFrees
<1>4. CASE \/ PrepareRetried(t) \/ PrepareGivenUp(t) \/ CcbValidate(t)
           \/ ValidateReturnsToCommit(t)
  <2>1. UNCHANGED owner \/ \E c : owner' = OwnersReleased(t, c)
    BY <1>4, Zenon
    DEF PrepareRetried, PrepareGivenUp, CcbValidate, ValidateReturnsToCommit
  <2>2. CASE ~UNCHANGED owner
    BY <1>4, <2>1, <2>2, OwnersReleasedAre, ReleasersGoOn, ReleaseFrees
  <2> QED
    BY <1>1, <2>2
<1>5. CASE EditRefused(t)
  <2>1. \A e \in Dns : \/ owner'[e] = owner[e]
                       \/ owner'[e] = NoOwner /\ owner[e] = t
    BY <1>5 DEF EditRefused
  <2>2. CASE ~UNCHANGED owner
    BY <1>5, <2>1, <2>2, ReleasersGoOn, ReleaseFrees
  <2> QED
    BY <1>1, <2>2
<1>6. CASE \/ CcbApplyOk(t)
           \/ \E outcome \in Outcomes, carriedOut \in BOOLEAN :
                 CcbApplyFails(t, outcome, carriedOut)
  <2>1. \E c : owner' = [e \in Dns |-> IF e \notin exists' THEN NoOwner
                                       ELSE OwnersReleased(t, c)[e]]
    BY <1>6, Zenon DEF CcbApplyOk, CcbApplyFails
  <2>2. \A e \in Dns : \/ owner'[e] = owner[e]
                       \/ /\ owner'[e] = NoOwner
                          /\ e \in exists' => owner[e] = t
    BY <2>1, OwnersReleasedAre
  <2>3. CASE ~UNCHANGED owner
    BY <1>6, <2>2, <2>3, ReleasersGoOn, ReleaseFrees
  <2> QED
    BY <1>1, <2>3
<1>7. CASE \E e \in Dns :
              setImmMoAttribute(t, e) \/ createImmMo(t, e) \/ deleteImmMo(t, e)
  <2>1. \E x : Edit(t, x)
    BY <1>7 DEF setImmMoAttribute, createImmMo, deleteImmMo
  <2>2. UNCHANGED owner \/ \E c : AdminOwnerSet(t, c)
    BY <2>1, Zenon DEF Edit
  <2> QED
    BY <1>1, <1>2, <2>2
<1>8. CASE \E x \in Todo(tx[t]) : OperationBegins(t, x)
  <2>1. UNCHANGED owner \/ \E c : AdminOwnerSet(t, c)
    BY <1>8, Zenon DEF OperationBegins
  <2> QED
    BY <1>1, <1>2, <2>1
<1>9. CASE AdminOwnerSetAgain(t) \/ RestoreLock(t)
  BY <1>2, <1>9 DEF AdminOwnerSetAgain, RestoreLock
<1>10. CASE UserValidates(t) \/ MasterCommits(t)
  BY <1>1, <1>10 DEF UserValidates, MasterCommits, StartValidate
<1>11. CASE \/ OamSAJoin(t) \/ MasterPrepares(t) \/ OamSACommit(t)
            \/ OamSAAbort(t) \/ PrepareBegins(t) \/ PrepareEnds(t)
            \/ PreparedForMaster(t) \/ PreparedForValidate(t)
            \/ ValidateReturns(t) \/ getAdminOwner(t) \/ EditDone(t)
            \/ CcbOperation(t)
  BY <1>1, <1>11
  DEF OamSAJoin, MasterPrepares, OamSACommit, OamSAAbort, PrepareBegins,
      PrepareEnds, PreparedForMaster, PreparedForValidate, ValidateReturns,
      getAdminOwner, EditDone, CcbOperation
<1> QED
  BY <1>3, <1>4, <1>5, <1>6, <1>7, <1>8, <1>9, <1>10, <1>11 DEF Calls, Work

\* A step of a transaction changes no other context, and leaves its own alive
\* unless it is OamSAFinish.
LEMMA StepKeepsAlive ==
    ASSUME IInv, NEW t \in Tx, Calls(t) \/ Work(t)
    PROVE  /\ \A u \in Tx \ {t} : tx'[u] = tx[u]
           /\ Alive(tx'[t]) <=> ~OamSAFinish(t)
<1>1. TypeOK
  BY DEF IInv
<1>2. CASE OamSAFinish(t)
  BY <1>1, <1>2, FinishMoves, PutContext
<1>3. CASE ~OamSAFinish(t)
  BY <1>1, <1>3, StepMoves, PutContext DEF Moves
<1> QED
  BY <1>2, <1>3

\* What a step does to ownership.
LEMMA OwnersAliveStep ==
    ASSUME IInv, OwnersAlive, NEW t \in Tx, Calls(t) \/ Work(t)
    PROVE  OwnersAlive'
<1> SUFFICES ASSUME NEW d \in Dns, owner'[d] \in Tx
             PROVE  Alive(tx'[owner'[d]])
  BY DEF OwnersAlive
<1>0. NoOwner \notin Tx /\ Stale \notin Tx
  BY ConstantsAssumption
<1>1. CASE OamSAFinish(t)
  <2>1. owner'[d] = owner[d] /\ owner[d] # t
    BY <1>0, <1>1 DEF OamSAFinish
  <2> QED
    BY <2>1, StepKeepsAlive DEF OwnersAlive
<1>2. CASE ~OamSAFinish(t)
  <2>1. TakesFree(t, d)
    BY <1>2, StepTakesFree
  <2>2. CASE owner'[d] = owner[d] /\ owner[d] # t
    BY <2>2, StepKeepsAlive DEF OwnersAlive
  <2>3. CASE owner'[d] = t
    BY <1>2, <2>3, StepKeepsAlive
  <2> QED
    BY <1>0, <2>1, <2>2, <2>3 DEF TakesFree
<1> QED
  BY <1>1, <1>2

\* The owners that are transactions are alive, in every behaviour.
LEMMA OwnersAliveAlways == Spec => []OwnersAlive
<1>1. Init => OwnersAlive
  <2>1. NoOwner \notin Tx /\ Stale \notin Tx /\ Foreign \notin Tx
    BY ConstantsAssumption
  <2> QED
    BY <2>1 DEF Init, OwnersAlive
<1>2. IInv /\ OwnersAlive /\ [Next]_vars => OwnersAlive'
  <2>1. ASSUME IInv, OwnersAlive, NEW t \in Tx, Calls(t) \/ Work(t)
        PROVE  OwnersAlive'
    BY <2>1, OwnersAliveStep
  <2>2. ASSUME OwnersAlive, UNCHANGED vars
        PROVE  OwnersAlive'
    BY <2>2 DEF OwnersAlive, vars
  <2> QED
    BY <2>1, <2>2 DEF Next
<1> QED
  BY <1>1, <1>2, Invariant, PTL DEF Spec

(***************************************************************************)
(* What a step may never do: end the ownership of an object that stays,    *)
(* other than in a step of its owner, or by a clearing in the step of one  *)
(* whose test of numInstances was made before the owner joined.  Between   *)
(* the test and the clearing every other transaction may do anything.      *)
(***************************************************************************)
THEOREM NotStolen == Spec => OwnershipNotStolen
<1>1. ASSUME IInv, OwnersAlive, NEW t \in Tx, Calls(t) \/ Work(t)
      PROVE  OwnersKept
  <2> SUFFICES ASSUME NEW d \in Dns, owner[d] \in Tx, d \in exists',
                      owner'[d] # owner[d]
               PROVE  \/ tx'[owner[d]] # tx[owner[d]]
                      \/ \E u \in Tx : /\ tx[u].pc = "clear"
                                       /\ tx'[u] # tx[u]
                                       /\ owner[d] \notin tx[u].alive
    BY DEF OwnersKept
  <2>1. CASE OamSAFinish(t)
    <3>1. owner[d] = t
      BY <2>1 DEF OamSAFinish
    <3>2. ~Alive(tx'[t]) /\ Alive(tx[t])
      BY <1>1, <2>1, <3>1, StepKeepsAlive DEF OwnersAlive
    <3> QED
      BY <3>1, <3>2
  <2>2. CASE ~OamSAFinish(t)
    <3>1. (owner[d] = t \/ tx[t].pc = "clear") /\ tx'[t] # tx[t]
      BY <1>1, <2>2, StepTakesFree DEF FreesOwn
    <3>2. CASE owner[d] = t
      BY <3>1, <3>2
    <3>3. CASE owner[d] # t
      <4>1. tx[t].alive = {t}
        BY <1>1, <3>1, <3>3, ContextType DEF Good, Counted
      <4> QED
        BY <3>1, <3>3, <4>1
    <3> QED
      BY <3>2, <3>3
  <2> QED
    BY <2>1, <2>2
<1>2. IInv /\ OwnersAlive /\ [Next]_vars => [OwnersKept]_vars
  BY <1>1 DEF Next
<1> QED
  BY <1>2, Invariant, OwnersAliveAlways, PTL DEF Spec, OwnershipNotStolen

----------------------------------------------------------------------------
(***************************************************************************)
(* The refinement of TransactionSpec, under the mapping of Promise.  Of a  *)
(* context TransactionSpec sees the phase, whether its ccb was applied,    *)
(* and the cache: most steps of a call keep all three.                     *)
(***************************************************************************)
Becomes(t, phase, times) ==
    /\ Put(t, tx'[t])
    /\ tx'[t].phase = phase /\ tx'[t].times = times
    /\ tx'[t].cache = tx[t].cache

Keeps(t) == Becomes(t, tx[t].phase, tx[t].times) /\ UNCHANGED exists

\* OamSAPrepare keeps what TransactionSpec sees.
LEMMA PrepareKeeps ==
    ASSUME IInv, NEW t \in Tx,
           \/ PrepareBegins(t) \/ PrepareEnds(t) \/ PreparedForMaster(t)
           \/ PreparedForValidate(t) \/ ValidateReturns(t)
    PROVE  Keeps(t)
<1> DEFINE c == tx[t]
           e == tx'[t]
           b == [c EXCEPT !.final = {}, !.empty = FALSE]
<1>0. c \in TxContext
  BY ContextType
<1>1. UNCHANGED exists
  BY DEF PrepareBegins, PrepareEnds, PreparedForMaster, PreparedForValidate,
         ValidateReturns
<1>2. CASE PrepareBegins(t)
  <2>1. \/ Put(t, [b EXCEPT !.pc = "prepared", !.ret = "MafOk"])
        \/ Put(t, [b EXCEPT !.created = TRUE, !.handle = "live", !.ccb = {},
                            !.pc = "work"])
        \/ Put(t, [b EXCEPT !.pc = "prepared", !.ret = "MafFailure"])
    BY <1>2 DEF PrepareBegins
  <2>2. b \in TxContext /\ SameCall(c, b)
    <3> HIDE DEF c
    <3> QED
      BY <1>0 DEF TxContext, SameCall
  <2> HIDE DEF b
  <2>3. /\ Put(t, e)
        /\ \/ e = [b EXCEPT !.pc = "prepared", !.ret = "MafOk"]
           \/ e = [b EXCEPT !.created = TRUE, !.handle = "live", !.ccb = {},
                            !.pc = "work"]
           \/ e = [b EXCEPT !.pc = "prepared", !.ret = "MafFailure"]
    BY <2>1, PutIs
  <2> HIDE DEF c, e
  <2>4. e.phase = b.phase /\ e.times = b.times /\ e.cache = b.cache
    BY <2>2, <2>3 DEF TxContext
  <2>5. e.phase = c.phase /\ e.times = c.times /\ e.cache = c.cache
    BY <2>2, <2>4 DEF SameCall
  <2> QED
    BY <1>1, <2>3, <2>5 DEF Keeps, Becomes, c, e
<1>3. CASE PrepareEnds(t)
  <2> DEFINE empty == (Changes(c) = {})
             failed == IF Of(c, "delete") \cup Of(c, "modify") = {} THEN FALSE
                       ELSE c.delFailed
  <2>1. Put(t, [c EXCEPT !.pc = "prepared", !.ret = "MafOk",
                         !.empty = empty, !.delFailed = failed])
    BY <1>3 DEF PrepareEnds
  <2> HIDE DEF empty, failed
  <2>2. /\ Put(t, e)
        /\ e = [c EXCEPT !.pc = "prepared", !.ret = "MafOk",
                         !.empty = empty, !.delFailed = failed]
    BY <2>1, PutIs
  <2> HIDE DEF c, e
  <2>3. e.phase = c.phase /\ e.times = c.times /\ e.cache = c.cache
    BY <1>0, <2>2 DEF TxContext
  <2> QED
    BY <1>1, <2>2, <2>3 DEF Keeps, Becomes, c, e
<1>4. CASE PreparedForMaster(t) \/ ValidateReturns(t)
  <2>1. Put(t, e) /\ e = [c EXCEPT !.pc = "idle"]
    BY <1>4, PutIs DEF PreparedForMaster, ValidateReturns
  <2> HIDE DEF c, e
  <2>2. e.phase = c.phase /\ e.times = c.times /\ e.cache = c.cache
    BY <1>0, <2>1 DEF TxContext
  <2> QED
    BY <1>1, <2>1, <2>2 DEF Keeps, Becomes, c, e
<1>5. CASE PreparedForValidate(t)
  <2> DEFINE again == c.level \in {"revalidate", "revalidateAbort"}
             pc == IF c.empty /\ ~again THEN "validated" ELSE "ccbValidate"
             count == IF again THEN c.count + 1 ELSE c.count
  <2>1. Put(t, [c EXCEPT !.pc = pc, !.count = count, !.aborts = 0])
    BY <1>5 DEF PreparedForValidate
  <2> HIDE DEF pc, count
  <2>2. Put(t, e) /\ e = [c EXCEPT !.pc = pc, !.count = count, !.aborts = 0]
    BY <2>1, PutIs
  <2> HIDE DEF c, e
  <2>3. e.phase = c.phase /\ e.times = c.times /\ e.cache = c.cache
    BY <1>0, <2>2 DEF TxContext
  <2> QED
    BY <1>1, <2>2, <2>3 DEF Keeps, Becomes, c, e
<1> QED
  BY <1>2, <1>3, <1>4, <1>5

\* So do the steps of lockDn, and a change that is put into the ccb, or is not.
LEMMA OperationKeeps ==
    ASSUME IInv, NEW t \in Tx,
           \/ getAdminOwner(t) \/ AdminOwnerClear(t)
           \/ AdminOwnerSetAgain(t) \/ RestoreLock(t) \/ EditRefused(t)
           \/ \E x \in Todo(tx[t]) : OperationBegins(t, x)
           \/ CcbOperation(t)
    PROVE  Keeps(t)
<1>1. UNCHANGED exists
  BY DEF getAdminOwner, AdminOwnerClear, AdminOwnerSetAgain, RestoreLock,
         EditRefused, OperationBegins, CcbOperation
<1>2. Moves(t) => Put(t, tx'[t])
  BY PutIs DEF Moves
<1>3. CASE \/ getAdminOwner(t) \/ AdminOwnerClear(t)
           \/ AdminOwnerSetAgain(t) \/ RestoreLock(t)
  BY <1>1, <1>3, LockStepLeaves DEF LockLeaves, SameWork, Keeps, Becomes
<1>4. CASE \E x \in Todo(tx[t]) : OperationBegins(t, x)
  BY <1>1, <1>4, OperationBeginsLeaves DEF LockLeaves, SameWork, Keeps, Becomes
<1>5. CASE EditRefused(t) \/ CcbOperation(t)
  BY <1>1, <1>2, <1>5, EditRefusedMoves, CcbOperationMoves DEF Keeps, Becomes
<1> QED
  BY <1>3, <1>4, <1>5

\* So do the retries, and the validation.
LEMMA ValidateKeeps ==
    ASSUME IInv, NEW t \in Tx,
           \/ PrepareRetried(t) \/ PrepareGivenUp(t)
           \/ CcbValidate(t) \/ ValidateReturnsToCommit(t)
    PROVE  Keeps(t)
<1> DEFINE c == tx[t]
           e == tx'[t]
<1>0. c \in TxContext
  BY ContextType
<1>1. UNCHANGED exists
  BY DEF PrepareRetried, PrepareGivenUp, CcbValidate, ValidateReturnsToCommit
<1>2. CASE PrepareRetried(t)
  <2> DEFINE r == Released(ccbFinalize(c))
             level == IF c.level \in {"validate", "validateAbort"}
                      THEN "validateAbort" ELSE "revalidateAbort"
  <2>1. r \in TxContext /\ SameCall(c, r)
    BY <1>0, CcbContext, ReleasedContext DEF SameCall
  <2>2. Put(t, [r EXCEPT !.created = FALSE, !.pc = "prepare",
                         !.aborts = @ + 1, !.level = level])
    BY <1>2 DEF PrepareRetried, AbortRetry
  <2> HIDE DEF r, level
  <2>3. /\ Put(t, e)
        /\ e = [r EXCEPT !.created = FALSE, !.pc = "prepare",
                         !.aborts = @ + 1, !.level = level]
    BY <2>2, PutIs
  <2> HIDE DEF c, e
  <2>4. e.phase = c.phase /\ e.times = c.times /\ e.cache = c.cache
    BY <2>1, <2>3 DEF TxContext, SameCall
  <2> QED
    BY <1>1, <2>3, <2>4 DEF Keeps, Becomes, c, e
<1>3. CASE PrepareGivenUp(t)
  <2> DEFINE Left == {c, ccbAbort(c)}
             code == IF c.ret = "MafCommitFailed" THEN "MafFailure" ELSE c.ret
             valid == c.level \in {"validate", "validateAbort"}
  <2>2. PICK left \in Left :
           Put(t, [Released(left) EXCEPT !.pc = "validated", !.ret = code,
                                         !.valid = valid])
    BY <1>3, Zenon DEF PrepareGivenUp
  <2> DEFINE r == Released(left)
  <2>1. r \in TxContext /\ SameCall(c, r)
    <3>1. left \in TxContext /\ SameCall(c, left)
      BY <1>0, CcbContext DEF SameCall
    <3> HIDE DEF Left, c
    <3> QED
      BY <3>1, ReleasedContext DEF SameCall
  <2>3. /\ Put(t, e)
        /\ e = [r EXCEPT !.pc = "validated", !.ret = code, !.valid = valid]
    BY <2>2, PutIs
  <2> HIDE DEF c, e, r, code, valid
  <2>4. e.phase = c.phase /\ e.times = c.times /\ e.cache = c.cache
    BY <2>1, <2>3 DEF TxContext, SameCall
  <2> QED
    BY <1>1, <2>3, <2>4 DEF Keeps, Becomes, c, e
<1>4. CASE CcbValidate(t)
  <2>1. PICK outcome \in Outcomes :
           \/ Put(t, [c EXCEPT !.pc = "validated"])
           \/ Put(t, [Released(ccbFinalize(After(c, outcome))) EXCEPT
                        !.created = FALSE, !.aborts = 0, !.pc = "prepare",
                        !.level = "revalidate"])
           \/ Put(t, [Released(After(c, outcome)) EXCEPT !.pc = "validated",
                                                         !.valid = FALSE])
    BY <1>4 DEF CcbValidate
  <2> DEFINE a == After(c, outcome)
             f == Released(ccbFinalize(a))
             r == Released(a)
  <2>2. /\ f \in TxContext /\ SameCall(c, f)
        /\ r \in TxContext /\ SameCall(c, r)
    BY <1>0, AfterContext, CcbContext, ReleasedContext DEF SameCall
  <2> HIDE DEF a, f, r
  <2>3. /\ Put(t, e)
        /\ \/ e = [c EXCEPT !.pc = "validated"]
           \/ e = [f EXCEPT !.created = FALSE, !.aborts = 0, !.pc = "prepare",
                            !.level = "revalidate"]
           \/ e = [r EXCEPT !.pc = "validated", !.valid = FALSE]
    BY <2>1, PutIs DEF a, f, r
  <2> HIDE DEF c, e
  <2>4. e.phase = c.phase /\ e.times = c.times /\ e.cache = c.cache
    BY <1>0, <2>2, <2>3 DEF TxContext, SameCall
  <2> QED
    BY <1>1, <2>3, <2>4 DEF Keeps, Becomes, c, e
<1>5. CASE ValidateReturnsToCommit(t)
  <2> DEFINE r == Released(c)
  <2>1. r \in TxContext /\ SameCall(c, r)
    BY <1>0, ReleasedContext
  <2>2. \/ Put(t, [c EXCEPT !.created = FALSE, !.pc = "apply",
                            !.retCnt = @ + 1])
        \/ Put(t, [r EXCEPT !.pc = "idle", !.ret = "MafCommitFailed"])
    BY <1>5 DEF ValidateReturnsToCommit
  <2> HIDE DEF r
  <2>3. /\ Put(t, e)
        /\ \/ e = [c EXCEPT !.created = FALSE, !.pc = "apply",
                            !.retCnt = @ + 1]
           \/ e = [r EXCEPT !.pc = "idle", !.ret = "MafCommitFailed"]
    BY <2>2, PutIs
  <2> HIDE DEF c, e
  <2>4. e.phase = c.phase /\ e.times = c.times /\ e.cache = c.cache
    BY <1>0, <2>1, <2>3 DEF TxContext, SameCall
  <2> QED
    BY <1>1, <2>3, <2>4 DEF Keeps, Becomes, c, e
<1> QED
  BY <1>2, <1>3, <1>4, <1>5

\* saImmOmCcbApply carries out the changes that are cached, all of them and for
\* the first time, or none.
LEMMA ApplyBecomes ==
    ASSUME ~ExplicitPrepare, IInv, NEW t \in Tx,
           \/ CcbApplyOk(t)
           \/ \E outcome \in Outcomes, carriedOut \in BOOLEAN :
                 CcbApplyFails(t, outcome, carriedOut)
    PROVE  \/ Keeps(t)
           \/ /\ tx[t].phase = "committing" /\ tx[t].times = 0
              /\ \/ Becomes(t, "committed", 1) \/ Becomes(t, "committing", 1)
              /\ exists' = ObjectsAfter(Changes(tx[t]))
<1> DEFINE c == tx[t]
           e == tx'[t]
<1>1. /\ c \in TxContext /\ Good(t, c) /\ c.pc = "apply"
  BY ContextType DEF CcbApplyOk, CcbApplyFails
<1>2. c.phase = "committing" /\ c.times = 0
  BY <1>1 DEF Good, Counted, Rounds, Once, Calling
<1>3. c.handle = "live" => c.ccb = Changes(c)
  BY <1>1 DEF Good, Built, Whole
<1>4. CASE CcbApplyOk(t)
  <2> DEFINE a == AppliedBy(c)
             r == Released(a)
  <2>1. a.times = 1 /\ a.cache = c.cache
    BY <1>1, <1>2, AppliedContext
  <2>2. r \in TxContext /\ SameCall(a, r)
    BY <1>1, AppliedContext, ReleasedContext
  <2>3. Put(t, [r EXCEPT !.pc = "idle", !.ret = "MafOk", !.phase = "committed"])
    BY <1>4 DEF CcbApplyOk
  <2> HIDE DEF a, r
  <2>4. /\ Put(t, e)
        /\ e = [r EXCEPT !.pc = "idle", !.ret = "MafOk", !.phase = "committed"]
    BY <2>3, PutIs
  <2>5. exists' = ObjectsAfter(Changes(c))
    BY <1>3, <1>4 DEF CcbApplyOk
  <2>6. e.phase = "committed" /\ e.times = 1 /\ e.cache = c.cache
    <3> HIDE DEF c, e
    <3> QED
      BY <2>1, <2>2, <2>4 DEF TxContext, SameCall
  <2> QED
    BY <1>2, <2>4, <2>5, <2>6 DEF Becomes
<1>5. ASSUME NEW outcome \in Outcomes, CcbApplyFails(t, outcome, TRUE)
      PROVE  Becomes(t, "committing", 1) /\ exists' = ObjectsAfter(Changes(c))
  <2> DEFINE a == AppliedBy(c)
             r == Released(a)
  <2>1. a.times = 1 /\ a.cache = c.cache /\ a.phase = "committing"
    BY <1>1, <1>2, AppliedContext
  <2>2. r \in TxContext /\ SameCall(a, r)
    BY <1>1, AppliedContext, ReleasedContext
  <2>3. Put(t, [r EXCEPT !.pc = "idle", !.ret = "MafCommitFailed"])
    BY <1>5 DEF CcbApplyFails, RetriesAfter
  <2> HIDE DEF a, r
  <2>4. Put(t, e) /\ e = [r EXCEPT !.pc = "idle", !.ret = "MafCommitFailed"]
    BY <2>3, PutIs
  <2>5. exists' = ObjectsAfter(Changes(c))
    BY <1>3, <1>5 DEF CcbApplyFails
  <2>6. e.phase = "committing" /\ e.times = 1 /\ e.cache = c.cache
    <3> HIDE DEF c, e
    <3> QED
      BY <2>1, <2>2, <2>4 DEF TxContext, SameCall
  <2> QED
    BY <2>4, <2>5, <2>6 DEF Becomes
<1>6. ASSUME NEW outcome \in Outcomes, CcbApplyFails(t, outcome, FALSE)
      PROVE  Keeps(t)
  <2> DEFINE a == After(c, outcome)
             f == Released(ccbFinalize(a))
             r == Released(a)
  <2>1. /\ f \in TxContext /\ SameCall(c, f)
        /\ r \in TxContext /\ SameCall(c, r)
    BY <1>1, AfterContext, CcbContext, ReleasedContext DEF SameCall
  <2>2. \/ Put(t, [f EXCEPT !.pc = "prepare", !.level = "validate",
                            !.valid = TRUE, !.aborts = 0, !.count = 0])
        \/ Put(t, [r EXCEPT !.pc = "idle", !.ret = "MafCommitFailed"])
    BY <1>6 DEF CcbApplyFails
  <2> HIDE DEF a, f, r
  <2>3. /\ Put(t, e)
        /\ \/ e = [f EXCEPT !.pc = "prepare", !.level = "validate",
                            !.valid = TRUE, !.aborts = 0, !.count = 0]
           \/ e = [r EXCEPT !.pc = "idle", !.ret = "MafCommitFailed"]
    BY <2>2, PutIs
  <2>4. UNCHANGED exists
    BY <1>6 DEF CcbApplyFails
  <2>5. e.phase = c.phase /\ e.times = c.times /\ e.cache = c.cache
    <3> HIDE DEF c, e
    <3> QED
      BY <2>1, <2>3 DEF TxContext, SameCall
  <2> QED
    BY <2>3, <2>4, <2>5 DEF Keeps, Becomes
<1> QED
  BY <1>2, <1>4, <1>5, <1>6

\* The calls of the master take the transaction from phase to phase.
LEMMA MasterBecomes ==
    ASSUME ~ExplicitPrepare, IInv, NEW t \in Tx,
           \/ OamSAJoin(t) \/ UserValidates(t) \/ MasterCommits(t)
           \/ MasterPrepares(t) \/ OamSACommit(t) \/ OamSAAbort(t)
    PROVE  /\ tx[t].times = 0 /\ UNCHANGED exists
           /\ \/ Keeps(t)
              \/ tx[t].phase = "new" /\ Becomes(t, "open", 0)
              \/ tx[t].phase = "open" /\ Becomes(t, "validating", 0)
              \/ tx[t].phase = "validating" /\ Becomes(t, "preparing", 0)
              \/ tx[t].phase = "preparing" /\ Becomes(t, "committing", 0)
              \/ /\ tx[t].phase \in {"open", "validating", "preparing"}
                 /\ Becomes(t, "aborted", 0)
<1> DEFINE c == tx[t]
           e == tx'[t]
<1>0. c \in TxContext /\ Good(t, c)
  BY ContextType
<1>1. UNCHANGED exists
  BY DEF OamSAJoin, UserValidates, MasterCommits, StartValidate, MasterPrepares,
         OamSACommit, OamSAAbort
<1>2. c.phase \in {"new", "open", "validating", "preparing"}
  BY DEF OamSAJoin, UserValidates, MasterCommits, MasterPrepares, OamSACommit,
         OamSAAbort, Idle
<1>3. c.times = 0
  BY <1>0, <1>2 DEF Good, Once
<1>4. CASE OamSAJoin(t)
  <2>1. Put(t, e) /\ e = [c EXCEPT !.phase = "open"] /\ c.phase = "new"
    BY <1>4, PutIs DEF OamSAJoin, Idle
  <2>2. e.phase = "open" /\ e.times = c.times /\ e.cache = c.cache
    <3> HIDE DEF c, e
    <3> QED
      BY <1>0, <2>1 DEF TxContext
  <2> QED
    BY <1>1, <1>3, <2>1, <2>2 DEF Becomes
<1>5. ASSUME NEW phase \in {"open", "validating"}, StartValidate(t, phase)
      PROVE  Becomes(t, phase, c.times)
  <2> DEFINE v == [c EXCEPT !.valid = TRUE, !.phase = phase, !.commit = FALSE,
                            !.level = "validate", !.aborts = 0, !.count = 0]
  <2>1. \/ Put(t, [[v EXCEPT !.ccb = {}]
                     EXCEPT !.created = FALSE, !.pc = "prepare"])
        \/ Put(t, [v EXCEPT !.created = FALSE, !.ret = "MafFailure"])
        \/ Put(t, [v EXCEPT !.pc = "prepare"])
    BY <1>5 DEF StartValidate, DropsCcb, ccbAbort
  <2>2. /\ v \in TxContext
        /\ v.phase = phase /\ v.times = c.times /\ v.cache = c.cache
    <3>1. 0 \in 0 .. Retries
      BY BoundsNat
    <3> HIDE DEF c
    <3> QED
      BY <1>0, <3>1 DEF TxContext, Phases, Levels
  <2> HIDE DEF v
  <2>3. /\ Put(t, e)
        /\ \/ e = [[v EXCEPT !.ccb = {}]
                     EXCEPT !.created = FALSE, !.pc = "prepare"]
           \/ e = [v EXCEPT !.created = FALSE, !.ret = "MafFailure"]
           \/ e = [v EXCEPT !.pc = "prepare"]
    BY <2>1, PutIs
  <2>4. e.phase = phase /\ e.times = c.times /\ e.cache = c.cache
    <3> HIDE DEF c, e
    <3> QED
      BY <2>2, <2>3 DEF TxContext
  <2> QED
    BY <2>3, <2>4 DEF Becomes
<1>6. CASE UserValidates(t)
  <2>1. Becomes(t, "open", c.times) /\ c.phase = "open"
    BY <1>5, <1>6 DEF UserValidates, Idle
  <2> QED
    BY <1>1, <1>3, <2>1 DEF Keeps
<1>7. CASE MasterCommits(t)
  <2>1. Becomes(t, "validating", c.times) /\ c.phase = "open"
    BY <1>5, <1>7 DEF MasterCommits, Idle
  <2> QED
    BY <1>1, <1>3, <2>1
<1>8. CASE MasterPrepares(t)
  <2>1. /\ Put(t, e) /\ c.phase = "validating"
        /\ e = [c EXCEPT !.phase = "preparing", !.pc = "prepare",
                         !.level = "prepare"]
    BY <1>8, PutIs DEF MasterPrepares, Idle
  <2>2. e.phase = "preparing" /\ e.times = c.times /\ e.cache = c.cache
    <3> HIDE DEF c, e
    <3> QED
      BY <1>0, <2>1 DEF TxContext
  <2> QED
    BY <1>1, <1>3, <2>1, <2>2 DEF Becomes
<1>9. CASE OamSACommit(t)
  <2>1. /\ Put(t, e) /\ c.phase = "preparing"
        /\ e = [c EXCEPT !.phase = "committing", !.pc = "apply",
                         !.commit = TRUE, !.retCnt = 0, !.created = FALSE]
    BY <1>9, PutIs DEF OamSACommit, Idle
  <2>2. e.phase = "committing" /\ e.times = c.times /\ e.cache = c.cache
    <3> HIDE DEF c, e
    <3> QED
      BY <1>0, <2>1 DEF TxContext
  <2> QED
    BY <1>1, <1>3, <2>1, <2>2 DEF Becomes
<1>10. CASE OamSAAbort(t)
  <2>1. /\ Put(t, e) /\ c.phase \in {"open", "validating", "preparing"}
        /\ e = [c EXCEPT !.phase = "aborted"]
    BY <1>10, PutIs DEF OamSAAbort, Idle
  <2>2. e.phase = "aborted" /\ e.times = c.times /\ e.cache = c.cache
    <3> HIDE DEF c, e
    <3> QED
      BY <1>0, <2>1 DEF TxContext
  <2> QED
    BY <1>1, <1>3, <2>1, <2>2 DEF Becomes
<1> QED
  BY <1>4, <1>6, <1>7, <1>8, <1>9, <1>10

\* An edit is made in a transaction that is open, and changes only its cache.
LEMMA EditBecomes ==
    ASSUME IInv, NEW t \in Tx, NEW x \in Change, Edit(t, x)
    PROVE  \/ Keeps(t)
           \/ /\ tx[t].phase = "open" /\ UNCHANGED exists
              /\ Put(t, tx'[t]) /\ tx'[t].phase = "open"
<1> DEFINE c == tx[t]
           e == tx'[t]
           cache == Cached(c, x)
<1>1. c \in TxContext /\ c.phase = "open" /\ UNCHANGED exists
  BY ContextType DEF Edit, Idle
<1>2. CASE Put(t, [c EXCEPT !.cache = cache])
  <2>1. Put(t, e) /\ e = [c EXCEPT !.cache = cache]
    BY <1>2, PutIs
  <2>2. e.phase = "open"
    <3> HIDE DEF c, e, cache
    <3> QED
      BY <1>1, <2>1 DEF TxContext
  <2> QED
    BY <1>1, <2>1, <2>2
<1>3. ASSUME NEW d \in TxContext, SameWork(c, [d EXCEPT !.level = c.level]),
             Put(t, e), LockLeaves(t, d, e)
      PROVE  Keeps(t)
  <2>1. d.phase = c.phase /\ d.times = c.times /\ d.cache = c.cache
    <3> HIDE DEF c
    <3> QED
      BY <1>3 DEF SameWork, TxContext
  <2> QED
    BY <1>1, <1>3, <2>1 DEF LockLeaves, SameWork, Keeps, Becomes
<1> QED
  BY <1>2, <1>3, EditLeaves

\* OamSAFinish leaves a context with nothing cached.
LEMMA FinishBecomes ==
    ASSUME IInv, NEW t \in Tx, OamSAFinish(t)
    PROVE  /\ tx[t].phase \in {"aborted", "committed", "committing"}
           /\ Put(t, tx'[t]) /\ tx'[t].phase = "finished"
           /\ Changes(tx'[t]) = {} /\ UNCHANGED exists
<1> DEFINE e == [NewContext EXCEPT !.phase = "finished"]
<1>1. Put(t, e) /\ UNCHANGED exists
        /\ tx[t].phase \in {"aborted", "committed", "committing"}
  BY DEF OamSAFinish, Idle
<1>2. e.phase = "finished"
      /\ \A d \in Dns : e.cache[d].kind = "none" /\ e.cache[d].point = "none"
  BY DEF NewContext
<1> HIDE DEF e
<1>3. Changes(e) = {}
  BY <1>2 DEF Changes, Kind, Point
<1> QED
  BY <1>1, <1>2, <1>3, PutIs

----------------------------------------------------------------------------
(***************************************************************************)
(* The values that Promise gives to the variables of TransactionSpec, and  *)
(* what becomes of them when one context is replaced.                      *)
(***************************************************************************)
changesSeen == [t \in Tx |-> Changes(tx[t])]
statusSeen  == [t \in Tx |-> StatusOf(tx[t])]

\* Only the transaction that takes the step is seen to change.
LEMMA SeenPut ==
    ASSUME IInv, NEW t \in Tx, Put(t, tx'[t])
    PROVE  /\ changesSeen' = [changesSeen EXCEPT ![t] = Changes(tx'[t])]
           /\ changesSeen'[t] = Changes(tx'[t])
           /\ statusSeen' = [statusSeen EXCEPT ![t] = StatusOf(tx'[t])]
<1>1. tx' = [u \in Tx |-> IF u = t THEN tx'[t] ELSE tx[u]]
  BY DEF IInv, TypeOK, Put
<1>2. \A u \in Tx : u # t => tx'[u] = tx[u]
  BY <1>1
<1>3. \A u \in Tx : u # t => /\ Changes(tx'[u]) = Changes(tx[u])
                             /\ StatusOf(tx'[u]) = StatusOf(tx[u])
  BY <1>2
<1>4. changesSeen' = [u \in Tx |-> Changes(tx'[u])]
  BY DEF changesSeen
<1>5. statusSeen' = [u \in Tx |-> StatusOf(tx'[u])]
  BY DEF statusSeen
<1> QED
  BY <1>3, <1>4, <1>5 DEF changesSeen, statusSeen

\* With the cache the changes are seen to stay.
LEMMA SeenBecomes ==
    ASSUME IInv, NEW t \in Tx, NEW phase, NEW times, Becomes(t, phase, times)
    PROVE  /\ changesSeen' = changesSeen
           /\ statusSeen' = [statusSeen EXCEPT ![t] = StatusOf(tx'[t])]
           /\ tx'[t].phase = phase /\ tx'[t].times = times
<1>1. Put(t, tx'[t]) /\ tx'[t].cache = tx[t].cache
      /\ tx'[t].phase = phase /\ tx'[t].times = times
  BY DEF Becomes
<1>2. Changes(tx'[t]) = Changes(tx[t])
  BY <1>1, ChangesOfCache
<1>3. [changesSeen EXCEPT ![t] = Changes(tx[t])] = changesSeen
  BY DEF changesSeen
<1> QED
  BY <1>1, <1>2, <1>3, SeenPut

\* The status of a transaction as its phase tells it.
LEMMA StatusSeen ==
    ASSUME NEW c
    PROVE  /\ c.phase = "new" => StatusOf(c) = "none"
           /\ c.phase = "open" => StatusOf(c) = "open"
           /\ c.phase \in {"validating", "preparing"} => StatusOf(c) = "closing"
           /\ c.phase = "committing" /\ c.times = 0 => StatusOf(c) = "closing"
           /\ c.phase = "committing" /\ c.times = 1 => StatusOf(c) = "doubtful"
           /\ c.phase = "committed" => StatusOf(c) = "committed"
           /\ c.phase = "aborted" => StatusOf(c) = "aborted"
           /\ c.phase = "finished" => StatusOf(c) = "over"
  BY DEF StatusOf

\* A step that keeps phase, cache and history is not seen.
LEMMA SeenKeeps ==
    ASSUME IInv, NEW t \in Tx, Keeps(t)
    PROVE  UNCHANGED Promise!specVars
<1>1. /\ UNCHANGED exists /\ changesSeen' = changesSeen
      /\ statusSeen' = [statusSeen EXCEPT ![t] = StatusOf(tx'[t])]
      /\ tx'[t].phase = tx[t].phase /\ tx'[t].times = tx[t].times
  BY SeenBecomes DEF Keeps
<1>2. StatusOf(tx'[t]) = StatusOf(tx[t])
  BY <1>1 DEF StatusOf
<1>3. statusSeen' = statusSeen
  BY <1>1, <1>2 DEF statusSeen
<1> QED
  BY <1>1, <1>3 DEF Promise!specVars, changesSeen, statusSeen

\* Which objects there are after all changes of a transaction.
LEMMA CarryOutSeen ==
    ASSUME IInv, NEW t \in Tx, changesSeen' = changesSeen,
           exists' = ObjectsAfter(Changes(tx[t]))
    PROVE  Promise!CarryOut(t)
<1>1. changesSeen[t] = Changes(tx[t])
  BY DEF changesSeen
<1>2. \A x \in Changes(tx[t]) : x.dn \in Dns
  BY ContextType, ChangesType DEF Change
<1>3. {[d \in Dns |-> Subtree(d)][x.dn] :
          x \in {y \in Changes(tx[t]) : y.kind = "delete"}}
         = {Subtree(x.dn) : x \in {y \in Changes(tx[t]) : y.kind = "delete"}}
  BY <1>2
<1> QED
  BY <1>1, <1>3 DEF Promise!CarryOut, ObjectsAfter, changesSeen

\* Every step of the transactional resource is one of TransactionSpec or is not
\* seen.
LEMMA PromiseNext ==
    ASSUME ~ExplicitPrepare, IInv, NEW t \in Tx, Calls(t) \/ Work(t)
    PROVE  Promise!Next \/ UNCHANGED Promise!specVars
<1> DEFINE c == tx[t]
           e == tx'[t]
<1>0. statusSeen[t] = StatusOf(c)
  BY DEF statusSeen
<1>1. CASE \/ OamSAJoin(t) \/ UserValidates(t) \/ MasterCommits(t)
           \/ MasterPrepares(t) \/ OamSACommit(t) \/ OamSAAbort(t)
  <2>1. c.times = 0 /\ UNCHANGED exists
    BY <1>1, MasterBecomes
  <2>2. CASE Keeps(t)
    BY <2>2, SeenKeeps
  <2>3. CASE c.phase = "new" /\ Becomes(t, "open", 0)
    <3>1. /\ changesSeen' = changesSeen /\ StatusOf(c) = "none"
          /\ statusSeen' = [statusSeen EXCEPT ![t] = "open"]
      BY <2>3, SeenBecomes, StatusSeen
    <3>2. Promise!Begin(t)
      BY <1>0, <2>1, <3>1
      DEF Promise!Begin, Promise!Passes, changesSeen, statusSeen
    <3> QED
      BY <3>2 DEF Promise!Next
  <2>4. CASE c.phase = "open" /\ Becomes(t, "validating", 0)
    <3>1. /\ changesSeen' = changesSeen /\ StatusOf(c) = "open"
          /\ statusSeen' = [statusSeen EXCEPT ![t] = "closing"]
      BY <2>4, SeenBecomes, StatusSeen
    <3>2. Promise!Close(t)
      BY <1>0, <2>1, <3>1
      DEF Promise!Close, Promise!Passes, changesSeen, statusSeen
    <3> QED
      BY <3>2 DEF Promise!Next
  <2>5. CASE \/ c.phase = "validating" /\ Becomes(t, "preparing", 0)
             \/ c.phase = "preparing" /\ Becomes(t, "committing", 0)
    <3>1. /\ changesSeen' = changesSeen /\ StatusOf(c) = "closing"
          /\ statusSeen' = [statusSeen EXCEPT ![t] = "closing"]
      BY <2>5, SeenBecomes, StatusSeen
    <3>2. statusSeen' = statusSeen
      BY <1>0, <3>1 DEF statusSeen
    <3> QED
      BY <2>1, <3>1, <3>2 DEF Promise!specVars, changesSeen, statusSeen
  <2>6. CASE /\ c.phase \in {"open", "validating", "preparing"}
             /\ Becomes(t, "aborted", 0)
    <3>1. /\ changesSeen' = changesSeen /\ StatusOf(c) \in {"open", "closing"}
          /\ statusSeen' = [statusSeen EXCEPT ![t] = "aborted"]
      BY <2>6, SeenBecomes, StatusSeen
    <3>2. Promise!Abort(t)
      BY <1>0, <2>1, <3>1
      DEF Promise!Abort, Promise!Passes, changesSeen, statusSeen
    <3> QED
      BY <3>2 DEF Promise!Next
  <2> QED
    BY <1>1, <2>2, <2>3, <2>4, <2>5, <2>6, MasterBecomes
<1>2. ASSUME c.phase = "open", UNCHANGED exists, Put(t, e), e.phase = "open"
      PROVE  Promise!Next
  <2>2. StatusOf(c) = "open" /\ StatusOf(e) = "open"
    BY <1>2, StatusSeen
  <2>3. /\ changesSeen' = [changesSeen EXCEPT ![t] = changesSeen'[t]]
        /\ statusSeen' = [statusSeen EXCEPT ![t] = "open"]
    BY <1>2, <2>2, SeenPut
  <2>4. statusSeen' = statusSeen /\ statusSeen[t] = "open"
    BY <1>0, <2>2, <2>3 DEF statusSeen
  <2>5. Promise!Edit(t)
    BY <1>2, <2>3, <2>4 DEF Promise!Edit, changesSeen, statusSeen
  <2> QED
    BY <2>5 DEF Promise!Next
<1>3. CASE \/ EditDone(t)
           \/ \E d \in Dns : \/ setImmMoAttribute(t, d) \/ createImmMo(t, d)
                            \/ deleteImmMo(t, d)
  <2>1. CASE EditDone(t)
    <3>1. Put(t, e) /\ UNCHANGED exists
      BY <2>1, PutIs DEF EditDone
    <3> QED
      BY <1>2, <2>1, <3>1, EditDoneMoves
  <2>2. CASE \E x \in Change : Edit(t, x)
    BY <1>2, <2>2, EditBecomes, SeenKeeps
  <2> QED
    BY <1>3, <2>1, <2>2, EditsAreChanges
<1>4. CASE OamSAFinish(t)
  <2>1. /\ c.phase \in {"aborted", "committed", "committing"}
        /\ Put(t, e) /\ e.phase = "finished" /\ Changes(e) = {}
        /\ UNCHANGED exists
    BY <1>4, FinishBecomes
  <2>2. c.times \in {0, 1}
    BY ContextType DEF Good, Once
  <2>3. /\ StatusOf(c) \in {"closing", "committed", "doubtful", "aborted"}
        /\ StatusOf(e) = "over"
    BY <2>1, <2>2, StatusSeen
  <2>4. /\ changesSeen' = [changesSeen EXCEPT ![t] = {}]
        /\ statusSeen' = [statusSeen EXCEPT ![t] = "over"]
    BY <2>1, <2>3, SeenPut
  <2>5. Promise!End(t)
    BY <1>0, <2>1, <2>3, <2>4
    DEF Promise!End, Promise!Passes, changesSeen, statusSeen
  <2> QED
    BY <2>5 DEF Promise!Next
<1>5. CASE \/ CcbApplyOk(t)
           \/ \E outcome \in Outcomes, carriedOut \in BOOLEAN :
                 CcbApplyFails(t, outcome, carriedOut)
  <2>1. CASE Keeps(t)
    BY <2>1, SeenKeeps
  <2>2. ASSUME c.phase = "committing", c.times = 0,
               exists' = ObjectsAfter(Changes(c)),
               NEW phase \in {"committed", "committing"}, Becomes(t, phase, 1)
        PROVE  Promise!Next
    <3>1. changesSeen' = changesSeen /\ StatusOf(c) = "closing"
      BY <2>2, SeenBecomes, StatusSeen
    <3>2. Promise!CarryOut(t)
      BY <2>2, <3>1, CarryOutSeen
    <3>3. CASE phase = "committed"
      <4>1. statusSeen' = [statusSeen EXCEPT ![t] = "committed"]
        BY <2>2, <3>3, SeenBecomes, StatusSeen
      <4>2. Promise!Commit(t)
        BY <1>0, <3>1, <3>2, <4>1
        DEF Promise!Commit, Promise!Passes, statusSeen
      <4> QED
        BY <4>2 DEF Promise!Next
    <3>4. CASE phase = "committing"
      <4>1. statusSeen' = [statusSeen EXCEPT ![t] = "doubtful"]
        BY <2>2, <3>4, SeenBecomes, StatusSeen
      <4>2. Promise!LoseAnswer(t)
        BY <1>0, <3>1, <3>2, <4>1
        DEF Promise!LoseAnswer, Promise!Passes, statusSeen
      <4> QED
        BY <4>2 DEF Promise!Next
    <3> QED
      BY <3>3, <3>4
  <2> QED
    BY <1>5, <2>1, <2>2, ApplyBecomes
<1>6. ASSUME Work(t), ~EditDone(t), ~CcbApplyOk(t),
             ~\E outcome \in Outcomes, carriedOut \in BOOLEAN :
                 CcbApplyFails(t, outcome, carriedOut)
      PROVE  Keeps(t)
  BY <1>6, PrepareKeeps, OperationKeeps, ValidateKeeps DEF Work
<1> QED
  BY <1>1, <1>2, <1>3, <1>4, <1>5, <1>6, SeenKeeps DEF Calls

\* Init is initial for TransactionSpec.
LEMMA PromiseStarts == Init => Promise!Init
<1> SUFFICES ASSUME Init PROVE Promise!Init
  OBVIOUS
<1>1. Changes(NewContext) = {}
  <2>1. \A d \in Dns : /\ NewContext.cache[d].kind = "none"
                       /\ NewContext.cache[d].point = "none"
    BY DEF NewContext
  <2> QED
    BY <2>1 DEF Changes, Kind, Point
<1>2. StatusOf(NewContext) = "none"
  BY DEF NewContext, StatusOf
<1>3. \A t \in Tx : tx[t] = NewContext
  BY DEF Init
<1>4. exists \subseteq Dns
  BY DEF Init
<1> QED
  BY <1>1, <1>2, <1>3, <1>4 DEF Promise!Init

(***************************************************************************)
(* "Either all changes or no changes are applied": for any number of       *)
(* transactions, objects, edits, aborts, retries and lost answers the      *)
(* transactional resource implements TransactionSpec, provided that the    *)
(* master validates before it prepares.                                    *)
(***************************************************************************)
THEOREM TransactionsAreAtomic ==
    ASSUME ~ExplicitPrepare
    PROVE  Spec => TransactionsAtomic
<1>1. IInv /\ [Next]_vars => [Promise!Next]_(Promise!specVars)
  <2>1. ASSUME IInv, NEW t \in Tx, Calls(t) \/ Work(t)
        PROVE  Promise!Next \/ UNCHANGED Promise!specVars
    BY <2>1, PromiseNext
  <2>2. ASSUME UNCHANGED vars
        PROVE  UNCHANGED Promise!specVars
    BY <2>2 DEF vars, Promise!specVars
  <2> QED
    BY <2>1, <2>2 DEF Next
<1> QED
  BY <1>1, Invariant, PromiseStarts, PTL
  DEF Spec, TransactionsAtomic, Promise!Spec

=============================================================================
