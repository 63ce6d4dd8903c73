--------------------------- MODULE MoTransaction ---------------------------
(***************************************************************************)
(* The transactional resource of COM SA: managed-object transactions of    *)
(* COM carried out on IMM (motransaction/OamSAImmBridge.cc, TxContext.cc,  *)
(* OamSATransactionRepository.cc, OamSATransactionalResource.cc).          *)
(*                                                                         *)
(* A transaction caches its changes; OamSAPrepare and OamSAValidate build  *)
(* an IMM configuration change bundle (ccb) from the cache, taking the     *)
(* administrative ownership (the lock) of every object it touches;         *)
(* OamSACommit applies the ccb and gives the locks back.  IMM may abort a  *)
(* ccb for want of resources (a synchronisation), and the code then starts *)
(* over, a bounded number of times, at four nested places.                 *)
(*                                                                         *)
(* Transactions run on threads of their own; a step is one IMM call with   *)
(* the local work around it.  The COM transaction master that calls the    *)
(* resource, and IMM, are modelled from how the code uses them.            *)
(***************************************************************************)
EXTENDS Naturals, FiniteSets

CONSTANTS
    Tx,              \* transactions
    Dns,             \* names of managed objects
    Root,            \* the empty name, parent of the topmost objects
    Parent,          \* the parent of each name
    NoOwner,         \* the object has no administrative owner
    Stale,           \* owned by an OAMSA transaction that is gone
    Foreign,         \* owned by another application
    LockMo,          \* lock_mo_for_config_change
    ExplicitPrepare, \* may the master prepare without validating first?
    Retries,         \* IMM_ABORT_RETRIES_COUNT
    MaxEdits,        \* bound: changes asked of all transactions
    MaxValidates,    \* bound: validations asked for by the user
    MaxFaults,       \* bound: IMM calls that fail
    FaultsForever    \* may any number of IMM calls fail?

ASSUME ConstantsAssumption ==
    /\ IsFiniteSet(Tx)
    /\ Root \notin Dns
    /\ Parent \in [Dns -> Dns \cup {Root}]
    /\ {NoOwner, Stale, Foreign} \cap Tx = {}
    /\ Cardinality({NoOwner, Stale, Foreign}) = 3
    /\ {LockMo, ExplicitPrepare, FaultsForever} \subseteq BOOLEAN
    /\ Retries \in Nat /\ MaxEdits \in Nat
    /\ MaxValidates \in Nat /\ MaxFaults \in Nat

VARIABLES
    tx,      \* the context of each transaction (class TxContext)
    owner,   \* IMM: the administrative owner of each object
    exists,  \* IMM: the objects there are
    edits,   \* number of changes asked for
    asked,   \* number of validations the user asked for
    faults   \* number of IMM calls that have failed

bounds == <<edits, asked>>
vars == <<tx, owner, exists, faults, bounds>>

\* The scopes SA_IMM_ONE and SA_IMM_SUBTREE.
One     == 1
Sub     == 3

Kinds   == {"create", "delete", "modify"}
Phases  == {"new", "open", "validating", "preparing", "committing",
            "committed", "aborted", "finished"}
Pcs     == {"idle", "prepare", "work", "owner", "clear", "again", "operate",
            "restore", "prepared", "ccbValidate", "validated", "apply"}
EditLevels == {"edit", "editHeld", "restore"}
Levels  == {"prepare", "validate", "validateAbort", "revalidate",
            "revalidateAbort"} \cup EditLevels
Codes   == {"MafOk", "MafFailure", "MafObjectLocked", "MafCommitFailed"}

\* What a change is: its object, its kind, and which edit made it.
Change   == [dn : Dns, kind : Kinds, n : 0 .. MaxEdits]
NoChange == [dn |-> Root, kind |-> "modify", n |-> 0]

\* What is cached for a name: an entry of the tree of new and modified objects
\* (kind) and one of the tree of deletion points (point).
CacheEntry == [kind  : {"none", "create", "modify"},
               point : {"none", "active", "dormant"},
               n     : 0 .. MaxEdits]

TxContext ==
    [phase   : Phases,                      \* where the master is
     pc      : Pcs,                         \* where the call is
     commit  : BOOLEAN,                     \* OamSAValidate called by commit
     level   : Levels,                      \* who called OamSAPrepare or lockDn
     cur     : Change \cup {NoChange},      \* the change that is worked on
     alive   : SUBSET Tx,                   \* history: who counted in lockDn
     ret     : Codes,
     valid   : BOOLEAN,                     \* *result of OamSAValidate
     aborts  : 0 .. Retries,                \* retCnt, handlePrepareOnImmAbort
     count   : 0 .. Retries,                \* count, OamSAValidate
     retCnt  : 0 .. Retries,                \* retCnt, OamSACommit
     cache   : [Dns -> CacheEntry],
     created : BOOLEAN,                     \* mImmCcbCreatedStatus
     handle  : {"zero", "live", "dead"},    \* mCcbHandle
     ccb     : SUBSET Change,               \* IMM: the content of the ccb
     final   : SUBSET Dns,                  \* finalModifiedObjectsList
     delFailed : BOOLEAN,                   \* ccbDeleteFailed
     empty   : BOOLEAN,                     \* isCcbEmpty
     owned   : [Dns -> {0, One, Sub}],      \* mAdminOwners
     applied : SUBSET Change,               \* history: what commit applied
     times   : Nat]                         \* history: ccbs applied

----------------------------------------------------------------------------
(***************************************************************************)
(* Names and the cache of changes.                                         *)
(***************************************************************************)
AncestorsOrSelf[d \in Dns \cup {Root}] ==
    IF d = Root THEN {} ELSE {d} \cup AncestorsOrSelf[Parent[d]]

Subtree(d) == {e \in Dns : d \in AncestorsOrSelf[e]}

Kind(c, d)  == c.cache[d].kind
Point(c, d) == c.cache[d].point

IsDeleted(c, d) == \E a \in AncestorsOrSelf[d] : Point(c, a) = "active"

\* The changes a transaction is to make, as GetListOf...Objects give them.
Changes(c) ==
    {[dn |-> d, kind |-> Kind(c, d), n |-> c.cache[d].n] :
        d \in {e \in Dns : Kind(c, e) # "none"}}
    \cup {[dn |-> d, kind |-> "delete", n |-> c.cache[d].n] :
            d \in {e \in Dns : Point(c, e) = "active"}}

Of(c, kind) == {x.dn : x \in {y \in Changes(c) : y.kind = kind}}

\* The objects a transaction sees: those of IMM with its own changes.
View(c) == {d \in Dns : /\ d \in exists \/ Kind(c, d) = "create"
                        /\ ~IsDeleted(c, d)}

\* An entry written by edit n; only changes are numbered.
Entry(kind, point, n) ==
    [kind |-> kind, point |-> point,
     n |-> IF kind = "none" /\ point # "active" THEN 0 ELSE n]

\* A new object stays a new object.
UpdateObjectAttribute(c, d, n) ==
    [c.cache EXCEPT ![d] =
        Entry(IF Kind(c, d) = "create" THEN "create" ELSE "modify",
              Point(c, d), n)]

\* SetDormantDPsActive: the topmost dormant point of each branch below.
TopmostDormant(c, d) ==
    {e \in Subtree(d) \ {d} :
        /\ Point(c, e) = "dormant"
        /\ \A a \in (Subtree(d) \cap AncestorsOrSelf[Parent[e]]) \ {d} :
              Point(c, a) # "dormant"}

\* An object deleted before is not inserted but taken off the deleted list: its
\* deletion point goes dormant and those below it become active again.
InsertCreatedObject(c, d, n) ==
    IF Point(c, d) = "active"
    THEN [e \in Dns |->
            IF e = d THEN Entry(Kind(c, d), "dormant", n)
            ELSE IF e \in TopmostDormant(c, d)
            THEN Entry(Kind(c, e), "active", n)
            ELSE c.cache[e]]
    ELSE [c.cache EXCEPT ![d] = Entry("create", Point(c, d), n)]

\* RemoveCreatedObject drops all that was cached at the object and below.
\* Unless the object was new, it becomes a deletion point and those below go
\* dormant.
InsertDeletedObject(c, d, n) ==
    LET new == Kind(c, d) = "create"
    IN  [e \in Dns |->
            IF e \notin Subtree(d) THEN c.cache[e]
            ELSE Entry("none", IF new THEN Point(c, e)
                               ELSE IF e = d THEN "active"
                               ELSE IF Point(c, e) = "active" THEN "dormant"
                               ELSE Point(c, e), n)]

\* The cache after a change.
Cached(c, x) ==
    CASE x.kind = "create" -> InsertCreatedObject(c, x.dn, x.n)
      [] x.kind = "delete" -> InsertDeletedObject(c, x.dn, x.n)
      [] x.kind = "modify" -> UpdateObjectAttribute(c, x.dn, x.n)

----------------------------------------------------------------------------
(***************************************************************************)
(* Administrative ownership.  mAdminOwners remembers what IMM granted, to  *)
(* ask for nothing twice.                                                  *)
(***************************************************************************)
Live == {t \in Tx : tx[t].phase \notin {"new", "finished"}}

\* What is locked for a change: the object, the parent of a new one, or the
\* subtree of one that is deleted.
LockName(x)  == IF x.kind = "create" THEN Parent[x.dn] ELSE x.dn
LockScope(x) == IF x.kind = "delete" THEN Sub ELSE One

Targets(d, scope) == (IF scope = Sub THEN Subtree(d) ELSE {d}) \cap exists

isAdminOwnerFor(c, d, scope) == d # Root => scope <= c.owned[d]

\* IMM refuses saImmOmAdminOwnerSet with SA_AIS_ERR_EXIST.
Conflict(t, d, scope) ==
    \E e \in Targets(d, scope) : owner[e] \notin {NoOwner, t}

\* Objects in a ccb that is open.
Busy(c, d) ==
    \E x \in c.ccb : \/ x.kind = "modify" /\ d = x.dn
                     \/ x.kind = "delete" /\ d \in Subtree(x.dn)

\* IMM gives up the ownership of no object that is in an open ccb.
Releasable(c, d, scope) ==
    d \in exists /\ \A e \in Targets(d, scope) : ~Busy(c, e)

(***************************************************************************)
(* releaseAdminOwnerForDn.  The parents of created objects and the final   *)
(* list of modified objects are released with scope one; deleted objects   *)
(* are released in IMM only if a deletion failed, and otherwise merely     *)
(* forgotten.                                                              *)
(***************************************************************************)
ReleasedOne(c) ==
    {d \in {Parent[e] : e \in Of(c, "create")} \cup c.final :
        d # Root /\ isAdminOwnerFor(c, d, One) /\ Releasable(c, d, One)}

DeletedHeld(c) == {d \in Of(c, "delete") : isAdminOwnerFor(c, d, Sub)}

ReleasedSub(c) ==
    IF c.delFailed
    THEN {d \in DeletedHeld(c) : Releasable(c, d, Sub)}
    ELSE {}

Forgotten(c) ==
    ReleasedOne(c) \cup IF c.delFailed THEN ReleasedSub(c) ELSE DeletedHeld(c)

OwnersReleased(t, c) ==
    LET freed == ReleasedOne(c)
                     \cup UNION {Targets(d, Sub) : d \in ReleasedSub(c)}
    IN  [d \in Dns |-> IF d \in freed /\ owner[d] = t THEN NoOwner
                       ELSE owner[d]]

Released(c) ==
    [c EXCEPT !.owned = [d \in Dns |-> IF d \in Forgotten(c) THEN 0
                                       ELSE c.owned[d]],
              !.final = {}]

----------------------------------------------------------------------------
(***************************************************************************)
(* ccb operations.  SA_AIS_ERR_FAILED_OPERATION means that IMM has aborted *)
(* the ccb, for want of resources or because a change was refused.         *)
(***************************************************************************)
Outcomes == {"OK", "RESOURCE", "REFUSED", "ERROR"}

ccbFinalize(c) == [c EXCEPT !.handle = "zero", !.ccb = {}]
ccbAbort(c)    == [c EXCEPT !.ccb = {}]
AbortedByImm(c) == [c EXCEPT !.handle = "dead", !.ccb = {}]

After(c, outcome) ==
    IF outcome \in {"RESOURCE", "REFUSED"} THEN AbortedByImm(c) ELSE c

\* An outcome that is not forced on IMM is a fault; faults are counted only
\* where their number is bounded.
Fault(outcome, forced) ==
    IF outcome = "OK" \/ forced \/ FaultsForever
    THEN faults' = faults
    ELSE faults < MaxFaults /\ faults' = faults + 1

----------------------------------------------------------------------------
NewContext ==
    [phase |-> "new", pc |-> "idle", commit |-> FALSE, level |-> "prepare",
     cur |-> NoChange, alive |-> {}, ret |-> "MafOk", valid |-> TRUE,
     aborts |-> 0, count |-> 0, retCnt |-> 0,
     cache |-> [d \in Dns |-> [kind |-> "none", point |-> "none", n |-> 0]],
     created |-> FALSE, handle |-> "zero", ccb |-> {}, final |-> {},
     delFailed |-> FALSE, empty |-> FALSE, owned |-> [d \in Dns |-> 0],
     applied |-> {}, times |-> 0]

Init ==
    /\ tx = [t \in Tx |-> NewContext]
    /\ exists \in {set \in SUBSET Dns :
                     \A d \in set : Parent[d] \in set \cup {Root}}
    /\ owner \in [Dns -> {NoOwner, Stale, Foreign}]
    /\ \A d \in Dns \ exists : owner[d] = NoOwner
    /\ edits = 0
    /\ asked = 0
    /\ faults = 0

Put(t, c) == tx' = [tx EXCEPT ![t] = c]

Idle(t, phases) == tx[t].pc = "idle" /\ tx[t].phase \in phases

----------------------------------------------------------------------------
OamSAJoin(t) ==
    /\ Idle(t, {"new"})
    /\ Put(t, [tx[t] EXCEPT !.phase = "open"])
    /\ UNCHANGED <<owner, exists, faults, bounds>>

----------------------------------------------------------------------------
(***************************************************************************)
(* lockDn and checkSetAdminOwner, for the change c.cur: the ownership is   *)
(* asked for and, where IMM says that another has it, the owner's name is  *)
(* read, cleared if it is COM SA's, and the ownership asked for again.     *)
(* Each of these is a call of IMM of its own.                              *)
(***************************************************************************)
Returns(c) == [c EXCEPT !.pc = "idle", !.cur = NoChange, !.alive = {}]

LockDone(c) ==
    IF c.level = "restore" THEN Returns(c)
    ELSE [c EXCEPT !.pc = "operate", !.alive = {}]

LockRefused(c, code) ==
    IF c.level \in EditLevels THEN Returns(c)
    ELSE [Returns(c) EXCEPT !.pc = "prepared", !.ret = code]

\* Mutant: other transactions are ignored.
OthersIgnored == TRUE

\* numInstances = 1, for isAdminOwnerLockedByAnotherTx.
Alone == Cardinality(Live) = 1

(***************************************************************************)
(* saImmOmAdminOwnerSet and what is done on its result.  A name that IMM   *)
(* does not know is in order, it may be in the ccb.                        *)
(***************************************************************************)
AdminOwnerSet(t, c) ==
    LET d     == LockName(c.cur)
        scope == LockScope(c.cur)
        given == d \in exists /\ ~Conflict(t, d, scope)
    IN  \/ /\ ~given
           /\ Put(t, IF d \notin exists THEN LockDone(c)
                     ELSE IF c.pc # "again" /\ Alone
                     THEN [c EXCEPT !.pc = "owner", !.alive = Live]
                     ELSE LockRefused(c, "MafObjectLocked"))
           /\ UNCHANGED <<owner, faults>>
        \/ /\ given
           /\ owner' = [e \in Dns |-> IF e \in Targets(d, scope) THEN t
                                      ELSE owner[e]]
           /\ Put(t, [LockDone(c) EXCEPT !.owned[d] = scope])
           /\ UNCHANGED faults
        \/ /\ Fault("ERROR", FALSE)
           /\ Put(t, LockRefused(c, "MafFailure"))
           /\ UNCHANGED owner

\* An object without an owner has no value to be read.
getAdminOwner(t) ==
    LET c == tx[t]
        d == LockName(c.cur)
        none == d \notin exists \/ owner[d] = NoOwner
    IN  /\ c.pc = "owner"
        /\ \E outcome \in IF none THEN {"ERROR"} ELSE {"OK", "ERROR"} :
              /\ Fault(outcome, none)
              /\ Put(t, IF outcome = "ERROR"
                        THEN LockRefused(c, "MafObjectLocked")
                        ELSE [c EXCEPT !.pc = IF owner[d] = Foreign THEN "again"
                                              ELSE "clear"])
        /\ UNCHANGED <<owner, exists, bounds>>

\* saImmOmAdminOwnerClear takes the objects from whoever has them, unless one
\* is in an open ccb.
AdminOwnerClear(t) ==
    LET c       == tx[t]
        d       == LockName(c.cur)
        targets == Targets(d, LockScope(c.cur))
        busy    == \E e \in targets, u \in Tx : Busy(tx[u], e)
    IN  /\ c.pc = "clear"
        /\ \E outcome \in IF busy THEN {"ERROR"} ELSE {"OK", "ERROR"} :
              /\ Fault(outcome, busy)
              /\ Put(t, IF outcome = "ERROR" THEN LockRefused(c, "MafFailure")
                        ELSE IF d \notin exists THEN LockDone(c)
                        ELSE [c EXCEPT !.pc = "again", !.alive = {}])
              /\ owner' = [e \in Dns |-> IF outcome = "OK" /\ e \in targets
                                         THEN NoOwner ELSE owner[e]]
        /\ UNCHANGED <<exists, bounds>>

AdminOwnerSetAgain(t) ==
    /\ tx[t].pc = "again"
    /\ AdminOwnerSet(t, tx[t])
    /\ UNCHANGED <<exists, bounds>>

----------------------------------------------------------------------------
(***************************************************************************)
(* The managed-object operations.  With LockMo an operation takes the lock *)
(* first and is refused if it cannot have it.                              *)
(***************************************************************************)
Edit(t, x) ==
    LET c    == tx[t]
        held == isAdminOwnerFor(c, LockName(x), One)
    IN  /\ Idle(t, {"open"}) /\ edits < MaxEdits
        /\ edits' = edits + 1
        /\ IF LockMo /\ ~isAdminOwnerFor(c, LockName(x), LockScope(x))
           THEN AdminOwnerSet(t, [c EXCEPT !.cur = x,
                                    !.level = IF held THEN "editHeld"
                                              ELSE "edit"])
           ELSE /\ Put(t, [c EXCEPT !.cache = Cached(c, x)])
                /\ UNCHANGED <<owner, faults>>
        /\ UNCHANGED <<exists, asked>>

setImmMoAttribute(t, d) ==
    /\ d \in View(tx[t])
    /\ Edit(t, [dn |-> d, kind |-> "modify", n |-> edits + 1])

createImmMo(t, d) ==
    /\ d \notin View(tx[t])
    /\ Parent[d] = Root \/ Parent[d] \in View(tx[t])
    /\ Edit(t, [dn |-> d, kind |-> "create", n |-> edits + 1])

deleteImmMo(t, d) ==
    /\ d \in View(tx[t])
    /\ Edit(t, [dn |-> d, kind |-> "delete", n |-> edits + 1])

\* The operation has its lock and changes the cache.
EditDone(t) ==
    LET c == tx[t]
    IN  /\ c.pc = "operate" /\ c.level \in EditLevels
        /\ Put(t, [Returns(c) EXCEPT !.cache = Cached(c, c.cur)])
        /\ UNCHANGED <<owner, exists, faults, bounds>>

\* unLockDnOnFailure: a change that the cache refuses gives back the lock it
\* took, and a deletion takes the lesser lock it had before again.
EditRefused(t) ==
    LET c     == tx[t]
        d     == LockName(c.cur)
        scope == LockScope(c.cur)
        may   == isAdminOwnerFor(c, d, scope) /\ Releasable(c, d, scope)
    IN  /\ c.pc = "operate" /\ c.level \in EditLevels
        /\ IF may
           THEN /\ owner' = [e \in Dns |->
                               IF e \in Targets(d, scope) /\ owner[e] = t
                               THEN NoOwner ELSE owner[e]]
                /\ Put(t, [(IF c.level = "editHeld"
                            THEN [c EXCEPT !.pc = "restore",
                                           !.level = "restore",
                                           !.cur.kind = "modify"]
                            ELSE Returns(c)) EXCEPT !.owned[d] = 0])
           ELSE Put(t, Returns(c)) /\ UNCHANGED owner
        /\ UNCHANGED <<exists, faults, bounds>>

RestoreLock(t) ==
    /\ tx[t].pc = "restore"
    /\ AdminOwnerSet(t, tx[t])
    /\ UNCHANGED <<exists, bounds>>

----------------------------------------------------------------------------
(***************************************************************************)
(* The transaction master: the user asks for a validation, or for commit,  *)
(* which is validate, prepare and commit in turn, or prepares explicitly.  *)
(* A call that fails aborts the transaction.                               *)
(***************************************************************************)
\* Mutant: a ccb made for an earlier validation is kept.
KeepsCcb(c) == [c EXCEPT !.pc = "prepare"]

\* OamSAValidate aborts the ccb there is, to build a new one.
DropsCcb(c) == [ccbAbort(c) EXCEPT !.created = FALSE, !.pc = "prepare"]

StartValidate(t, phase) ==
    LET c == [tx[t] EXCEPT !.valid = TRUE, !.phase = phase, !.commit = FALSE,
                           !.level = "validate",
                           !.aborts = 0, !.count = 0]
    IN  \E outcome \in {"OK", "ERROR"} :
           IF c.created
           THEN /\ Fault(outcome, FALSE)
                /\ Put(t, IF outcome = "OK" \/ c.handle = "zero"
                          THEN DropsCcb(c)
                          ELSE [c EXCEPT !.created = FALSE,
                                         !.ret = "MafFailure"])
                /\ UNCHANGED <<owner, exists>>
           ELSE /\ outcome = "OK"
                /\ Put(t, [c EXCEPT !.pc = "prepare"])
                /\ UNCHANGED <<owner, exists, faults>>

UserValidates(t) ==
    /\ Idle(t, {"open"}) /\ asked < MaxValidates
    /\ asked' = asked + 1
    /\ StartValidate(t, "open")
    /\ UNCHANGED edits

MasterCommits(t) ==
    /\ Idle(t, {"open"})
    /\ StartValidate(t, "validating")
    /\ UNCHANGED bounds

MasterPrepares(t) ==
    LET c == tx[t]
    IN  /\ \/ Idle(t, {"validating"}) /\ c.ret = "MafOk" /\ c.valid
           \/ Idle(t, {"open"}) /\ ExplicitPrepare
        /\ Put(t, [c EXCEPT !.phase = "preparing", !.pc = "prepare",
                            !.level = "prepare"])
        /\ UNCHANGED <<owner, exists, faults, bounds>>

\* OamSACommit begins: the ccb will not be there for a later validation.
OamSACommit(t) ==
    /\ Idle(t, {"preparing"}) /\ tx[t].ret = "MafOk"
    /\ Put(t, [tx[t] EXCEPT !.phase = "committing", !.pc = "apply",
                            !.commit = TRUE, !.retCnt = 0,
                            !.created = FALSE])
    /\ UNCHANGED <<owner, exists, faults, bounds>>

\* OamSAAbort does nothing in IMM.
OamSAAbort(t) ==
    /\ \/ Idle(t, {"open"})
       \/ Idle(t, {"validating"}) /\ ~(tx[t].ret = "MafOk" /\ tx[t].valid)
       \/ Idle(t, {"preparing"}) /\ tx[t].ret # "MafOk"
    /\ Put(t, [tx[t] EXCEPT !.phase = "aborted"])
    /\ UNCHANGED <<owner, exists, faults, bounds>>

(***************************************************************************)
(* OamSAFinish: the ccb is finalized and the context destroyed.  Its       *)
(* ownership goes with the admin owner handle, unless finalizing it fails. *)
(***************************************************************************)
OamSAFinish(t) ==
    /\ \/ Idle(t, {"aborted", "committed"})
       \/ Idle(t, {"committing"})
    /\ \E outcome \in {"OK", "ERROR"} :
          /\ Fault(outcome, FALSE)
          /\ owner' = [d \in Dns |->
                         IF owner[d] # t THEN owner[d]
                         ELSE IF outcome = "OK" THEN NoOwner ELSE Stale]
    /\ Put(t, [NewContext EXCEPT !.phase = "finished"])
    /\ UNCHANGED <<exists, bounds>>

----------------------------------------------------------------------------
(***************************************************************************)
(* OamSAPrepare.  A ccb that exists is left as it is; otherwise one is     *)
(* made and filled: creations, deletions, modifications.                   *)
(***************************************************************************)
PrepareBegins(t) ==
    LET c == [tx[t] EXCEPT !.final = {}, !.empty = FALSE]
    IN  /\ tx[t].pc = "prepare"
        /\ \E outcome \in {"OK", "ERROR"} :
              IF c.created
              THEN /\ outcome = "OK" /\ UNCHANGED faults
                   /\ Put(t, [c EXCEPT !.pc = "prepared", !.ret = "MafOk"])
              ELSE /\ Fault(outcome, FALSE)
                   /\ Put(t, IF outcome = "OK"
                             THEN [c EXCEPT !.created = TRUE, !.handle = "live",
                                            !.ccb = {}, !.pc = "work"]
                             ELSE [c EXCEPT !.pc = "prepared",
                                            !.ret = "MafFailure"])
        /\ UNCHANGED <<owner, exists, bounds>>

Todo(c) == Changes(c) \ c.ccb

\* Creations from the top down, then deletions, then modifications.
IsNext(c, x) ==
    CASE x.kind = "create" -> \A y \in Todo(c) : y.kind = "create" =>
                                  y.dn \notin AncestorsOrSelf[Parent[x.dn]]
      [] x.kind = "delete" -> \A y \in Todo(c) : y.kind # "create"
      [] x.kind = "modify" -> \A y \in Todo(c) : y.kind = "modify"

\* IMM takes a change only of objects it has and of their owner.
Accepts(t, c, x) ==
    LET name == LockName(x)
        made == {y.dn : y \in {z \in c.ccb : z.kind = "create"}}
    IN  /\ x.kind = "create" <=> x.dn \notin exists
        /\ \/ name = Root \/ name \in made
           \/ name \in exists
              /\ \A e \in Targets(name, LockScope(x)) : owner[e] = t

\* Without LockMo the lock is taken now, unless it is held.
OperationBegins(t, x) ==
    LET c == [tx[t] EXCEPT
                !.cur = x,
                !.delFailed = IF x.kind = "create" THEN @ ELSE FALSE,
                !.final = IF x.kind = "modify" THEN Of(tx[t], "modify") ELSE @]
    IN  /\ tx[t].pc = "work" /\ IsNext(tx[t], x)
        /\ IF LockMo \/ isAdminOwnerFor(c, LockName(x), LockScope(x))
           THEN /\ Put(t, [c EXCEPT !.pc = "operate"])
                /\ UNCHANGED <<owner, faults>>
           ELSE AdminOwnerSet(t, c)
        /\ UNCHANGED <<exists, bounds>>

CcbOperation(t) ==
    LET c  == [tx[t] EXCEPT !.cur = NoChange]
        x  == tx[t].cur
        ok == Accepts(t, tx[t], x)
        failed(outcome) ==
            [After(c, outcome) EXCEPT !.pc = "prepared",
                !.ret = IF outcome = "RESOURCE" THEN "MafCommitFailed"
                        ELSE "MafFailure",
                !.delFailed = IF x.kind = "delete" THEN TRUE ELSE @]
    IN  /\ tx[t].pc = "operate" /\ tx[t].level \notin EditLevels
        /\ \E outcome \in IF ok THEN Outcomes ELSE {"ERROR"} :
              /\ Fault(outcome, ~ok)
              /\ Put(t, IF outcome = "OK"
                        THEN [c EXCEPT !.pc = "work", !.ccb = @ \cup {x}]
                        ELSE failed(outcome))
        /\ UNCHANGED <<owner, exists, bounds>>

PrepareEnds(t) ==
    LET c == tx[t]
    IN  /\ c.pc = "work" /\ Todo(c) = {}
        /\ Put(t, [c EXCEPT !.pc = "prepared", !.ret = "MafOk",
                    !.empty = (Changes(c) = {}),
                    !.delFailed = IF Of(c, "delete") \cup Of(c, "modify") = {}
                                  THEN FALSE ELSE @])
        /\ UNCHANGED <<owner, exists, faults, bounds>>

----------------------------------------------------------------------------
(***************************************************************************)
(* After OamSAPrepare, in the function that called it.                     *)
(***************************************************************************)
PreparedForMaster(t) ==
    /\ tx[t].pc = "prepared" /\ tx[t].level = "prepare"
    /\ Put(t, [tx[t] EXCEPT !.pc = "idle"])
    /\ UNCHANGED <<owner, exists, faults, bounds>>

\* Mutant: the retries after a resource abort are not counted.
AbortRetryUncounted(c) ==
    [Released(ccbFinalize(c)) EXCEPT
        !.created = FALSE, !.pc = "prepare",
        !.level = IF c.level \in {"validate", "validateAbort"}
                  THEN "validateAbort" ELSE "revalidateAbort"]

\* handlePrepareOnImmAbort: a new ccb after one that IMM aborted.
AbortRetry(c) ==
    [Released(ccbFinalize(c)) EXCEPT
        !.created = FALSE, !.pc = "prepare", !.aborts = @ + 1,
        !.level = IF c.level \in {"validate", "validateAbort"}
                  THEN "validateAbort" ELSE "revalidateAbort"]

\* Mutant: one retry too many.
RetriesOnceMore(c) == c.aborts <= Retries

MayRetry(c) == c.aborts < Retries

PrepareRetried(t) ==
    LET c == tx[t]
    IN  /\ c.pc = "prepared" /\ c.level # "prepare"
        /\ c.ret = "MafCommitFailed" /\ MayRetry(c)
        /\ Put(t, AbortRetry(c))
        /\ owner' = OwnersReleased(t, ccbFinalize(c))
        /\ UNCHANGED <<exists, faults, bounds>>

\* The ccb is aborted if it can be, and the locks are released.
PrepareGivenUp(t) ==
    LET c == tx[t]
        code == IF c.ret = "MafCommitFailed" THEN "MafFailure" ELSE c.ret
    IN  /\ c.pc = "prepared" /\ c.level # "prepare" /\ c.ret # "MafOk"
        /\ c.ret = "MafCommitFailed" => ~MayRetry(c)
        /\ \E outcome \in {"OK", "ERROR"} :
              LET left == IF outcome = "OK" THEN ccbAbort(c) ELSE c
              IN  /\ Fault(outcome, FALSE)
                  /\ owner' = OwnersReleased(t, left)
                  /\ Put(t, [Released(left) EXCEPT
                               !.pc = "validated", !.ret = code,
                               !.valid = c.level \in {"validate",
                                                      "validateAbort"}])
        /\ UNCHANGED <<exists, bounds>>

PreparedForValidate(t) ==
    LET c == tx[t]
        again == c.level \in {"revalidate", "revalidateAbort"}
    IN  /\ c.pc = "prepared" /\ c.level # "prepare" /\ c.ret = "MafOk"
        /\ Put(t, [c EXCEPT !.pc = IF c.empty /\ ~again THEN "validated"
                                   ELSE "ccbValidate",
                            !.count = IF again THEN @ + 1 ELSE @,
                            !.aborts = 0])
        /\ UNCHANGED <<owner, exists, faults, bounds>>

\* Mutant: the ccb is applied where it is only to be validated.
ValidatesByApplying(t) ==
    LET c == tx[t]
    IN  /\ c.pc = "ccbValidate"
        /\ Put(t, [c EXCEPT !.pc = "validated"])
        /\ exists' = exists
                        \cup {x.dn : x \in {y \in c.ccb : y.kind = "create"}}
        /\ UNCHANGED <<owner, faults, bounds>>

(***************************************************************************)
(* OamSAValidate asks IMM to validate the ccb, and starts over when IMM    *)
(* aborts it for want of resources.                                        *)
(***************************************************************************)
CcbValidate(t) ==
    LET c == tx[t]
    IN  /\ c.pc = "ccbValidate"
        /\ \E outcome \in Outcomes :
              LET done  == After(c, outcome)
                  again == outcome = "RESOURCE" /\ c.count < Retries
              IN  /\ Fault(outcome, FALSE)
                  /\ IF outcome = "OK"
                     THEN Put(t, [c EXCEPT !.pc = "validated"])
                          /\ UNCHANGED owner
                     ELSE /\ owner' = OwnersReleased(t, done)
                          /\ Put(t, IF again
                                    THEN [Released(ccbFinalize(done)) EXCEPT
                                            !.created = FALSE, !.aborts = 0,
                                            !.pc = "prepare",
                                            !.level = "revalidate"]
                                    ELSE [Released(done) EXCEPT
                                            !.pc = "validated",
                                            !.valid = FALSE])
        /\ UNCHANGED <<exists, bounds>>

ValidateReturns(t) ==
    /\ tx[t].pc = "validated" /\ ~tx[t].commit
    /\ Put(t, [tx[t] EXCEPT !.pc = "idle"])
    /\ UNCHANGED <<owner, exists, faults, bounds>>

\* OamSACommit after its own call of OamSAValidate.
ValidateReturnsToCommit(t) ==
    LET c == tx[t]
        failed == [Released(c) EXCEPT !.pc = "idle", !.ret = "MafCommitFailed"]
    IN  /\ c.pc = "validated" /\ c.commit
        /\ IF c.ret = "MafOk" /\ c.valid
           THEN /\ Put(t, [c EXCEPT !.created = FALSE, !.pc = "apply",
                                    !.retCnt = @ + 1])
                /\ UNCHANGED owner
           ELSE /\ Put(t, failed)
                /\ owner' = OwnersReleased(t, c)
        /\ UNCHANGED <<exists, faults, bounds>>

----------------------------------------------------------------------------
(***************************************************************************)
(* saImmOmCcbApply.  A call that ends in another error (a timeout) may     *)
(* have been carried out.                                                  *)
(***************************************************************************)
ObjectsAfter(content) ==
    (exists \cup {x.dn : x \in {y \in content : y.kind = "create"}})
        \ UNION {Subtree(x.dn) : x \in {y \in content : y.kind = "delete"}}

AppliedBy(c) == [c EXCEPT !.applied = c.ccb, !.ccb = {}, !.times = @ + 1]

\* Mutant: commit starts over after any error.
RetriesAnyError(outcome) == outcome \in {"RESOURCE", "ERROR"}

\* The outcomes after which OamSACommit starts over.
RetriesAfter(outcome) == outcome = "RESOURCE"

CcbApplyOk(t) ==
    LET c == tx[t]
    IN  /\ c.pc = "apply" /\ c.handle = "live"
        /\ Put(t, [Released(AppliedBy(c)) EXCEPT !.pc = "idle", !.ret = "MafOk",
                                                 !.phase = "committed"])
        /\ exists' = ObjectsAfter(c.ccb)
        /\ owner' = [d \in Dns |->
                        IF d \notin exists' THEN NoOwner
                        ELSE OwnersReleased(t, [c EXCEPT !.ccb = {}])[d]]
        /\ UNCHANGED <<faults, bounds>>

CcbApplyFails(t, outcome, carriedOut) ==
    LET c == IF carriedOut THEN AppliedBy(tx[t]) ELSE After(tx[t], outcome)
        again == RetriesAfter(outcome) /\ c.retCnt < Retries
    IN  /\ tx[t].pc = "apply" /\ outcome # "OK"
        /\ carriedOut => outcome = "ERROR" /\ tx[t].handle = "live"
        /\ Fault(outcome, tx[t].handle # "live")
        /\ exists' = IF carriedOut THEN ObjectsAfter(tx[t].ccb) ELSE exists
        /\ owner' = [d \in Dns |-> IF d \notin exists' THEN NoOwner
                                   ELSE OwnersReleased(t, c)[d]]
        /\ Put(t, IF again
                  THEN [Released(ccbFinalize(c)) EXCEPT
                          !.pc = "prepare", !.level = "validate",
                          !.valid = TRUE, !.aborts = 0, !.count = 0]
                  ELSE [Released(c) EXCEPT !.pc = "idle",
                                           !.ret = "MafCommitFailed"])
        /\ UNCHANGED bounds

----------------------------------------------------------------------------
\* The steps of a call that has been made of the resource.
Work(t) ==
    \/ PrepareBegins(t)
    \/ getAdminOwner(t)
    \/ AdminOwnerClear(t)
    \/ AdminOwnerSetAgain(t)
    \/ EditDone(t)
    \/ EditRefused(t)
    \/ RestoreLock(t)
    \/ \E x \in Todo(tx[t]) : OperationBegins(t, x)
    \/ CcbOperation(t)
    \/ PrepareEnds(t)
    \/ PreparedForMaster(t)
    \/ PrepareRetried(t)
    \/ PrepareGivenUp(t)
    \/ PreparedForValidate(t)
    \/ CcbValidate(t)
    \/ ValidateReturns(t)
    \/ ValidateReturnsToCommit(t)
    \/ CcbApplyOk(t)
    \/ \E outcome \in Outcomes, carriedOut \in BOOLEAN :
          CcbApplyFails(t, outcome, carriedOut)

Calls(t) ==
    \/ OamSAJoin(t)
    \/ \E d \in Dns : setImmMoAttribute(t, d)
    \/ \E d \in Dns : createImmMo(t, d)
    \/ \E d \in Dns : deleteImmMo(t, d)
    \/ UserValidates(t)
    \/ MasterCommits(t)
    \/ MasterPrepares(t)
    \/ OamSACommit(t)
    \/ OamSAAbort(t)
    \/ OamSAFinish(t)

Next == \E t \in Tx : Calls(t) \/ Work(t)

Spec == Init /\ [][Next]_vars

\* A thread that is in a call of the resource goes on.
FairSpec == Spec /\ \A t \in Tx : WF_vars(Work(t))

----------------------------------------------------------------------------
(***************************************************************************)
(* Type invariant: each context holds values of its type and IMM knows an  *)
(* owner for every name; the retry counters stay within                    *)
(* IMM_ABORT_RETRIES_COUNT.                                                *)
(***************************************************************************)
TypeOK ==
    /\ tx \in [Tx -> TxContext]
    /\ owner \in [Dns -> Tx \cup {NoOwner, Stale, Foreign}]
    /\ exists \subseteq Dns
    /\ edits \in 0 .. MaxEdits
    /\ asked \in 0 .. MaxValidates
    /\ faults \in 0 .. MaxFaults

(***************************************************************************)
(* "The participant shall commit all changes"                              *)
(* (MafOamSpiTransactionalResource_2.h:88): when OamSACommit returns MafOk *)
(* IMM has carried out every change cached by the transaction, however     *)
(* often the ccb was rebuilt on the way.                                   *)
(***************************************************************************)
CommitIsComplete ==
    \A t \in Tx : tx[t].phase = "committed" => tx[t].applied = Changes(tx[t])

(***************************************************************************)
(* The ccb of a transaction is applied at most once: the retry loop of     *)
(* OamSACommit starts over only after errors that imply nothing was done.  *)
(***************************************************************************)
AppliedAtMostOnce == \A t \in Tx : tx[t].times <= 1

\* Whose ownership of an object that stays may end in a step.
OwnersKept ==
    \A d \in Dns, o \in Tx :
        owner[d] = o /\ d \in exists' /\ owner'[d] # o
           => \/ tx'[o] # tx[o]
              \/ \E u \in Tx : /\ tx[u].pc = "clear" /\ tx'[u] # tx[u]
                               /\ o \notin tx[u].alive

(***************************************************************************)
(* "Only one tx alive, so we know that we should be the only admin owner"  *)
(* (OamSAImmBridge.cc:3436): no transaction takes an object from another   *)
(* that was counted when checkSetAdminOwner tested numInstances.  A        *)
(* transaction that lives loses its ownership of an object that stays in a *)
(* step of its own, or to a clearing whose test was made before it joined: *)
(* the test and the clearing are calls apart (TODO at line 3453).          *)
(***************************************************************************)
OwnershipNotStolen == [][OwnersKept]_vars

(***************************************************************************)
(* "Subtree is only used for delete, so we don't have to remember anything *)
(* about dns under dn" (OamSAImmBridge.cc:3416): what mAdminOwners         *)
(* remembers is true in IMM, so a lock that is not asked for again is      *)
(* really held.                                                            *)
(***************************************************************************)
OwnershipIsReal ==
    \A t \in Tx : \A d \in exists :
        tx[t].owned[d] > 0 /\ tx[t].phase # "committed" => owner[d] = t

(***************************************************************************)
(* Every call of the transactional resource returns, through all the       *)
(* nested retry loops.                                                     *)
(***************************************************************************)
CallsReturn == \A t \in Tx : tx[t].pc # "idle" ~> tx[t].pc = "idle"

(***************************************************************************)
(* The transactional resource implements TransactionSpec, "Either all      *)
(* changes or no changes are applied"                                      *)
(* (MafOamSpiTransactionalResource_2.h:25): the objects in IMM change only *)
(* by all that a transaction has cached, once at most, through all the     *)
(* aborts and retries, and also if the answer of saImmOmCcbApply is lost.  *)
(***************************************************************************)
StatusOf(c) ==
    CASE c.phase = "new" -> "none"
      [] c.phase = "committing" /\ c.times > 0 -> "doubtful"
      [] c.phase = "committing" /\ c.times = 0 -> "closing"
      [] c.phase \in {"validating", "preparing"} -> "closing"
      [] c.phase = "finished" -> "over"
      [] c.phase \in {"open", "committed", "aborted"} -> c.phase

Promise == INSTANCE TransactionSpec WITH
    Transactions <- Tx,
    Below <- [d \in Dns |-> Subtree(d)],
    objects <- exists,
    changes <- [t \in Tx |-> Changes(tx[t])],
    status <- [t \in Tx |-> StatusOf(tx[t])]

TransactionsAtomic == Promise!Spec
=============================================================================
