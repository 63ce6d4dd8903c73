# COM SA: models, model checking and proofs

COM SA is the support agent that lets COM (the *common operation and
maintenance* process) run on the SA Forum middleware OpenSAF: it answers the
availability framework (AMF), carries COM's managed-object transactions out on
the information model (IMM), forwards alarms (NTF), logs (LOG) and performance
data, all as components of one shared library loaded by COM. The code is in
`src/src/generic` (C and C++), with a COM-specific part in
`src/src/com_specific`.

This directory holds TLA+ models of that code, the TLC configurations that
check them on small instances, and proofs for TLAPS. `PROJECT.json` lists the
components, the runs, the source lines every definition stands for, and the
hazards the properties aim at.

## 1. Inventory

| component | state | operations | talks to |
|---|---|---|---|
| **Availability controller** `ac/ComSAAc.c` | event queue and pipe, `maf_com_ha_state`, `maf_new_com_ha_state`, thread flags, `maf_acCallbacks` | AMF callbacks (CSI set/remove, health check, terminate), COM's answers, the stop procedure | AMF, COM, the ntf thread, the log service |
| **Select timer** `ac/SelectTimer.c` | sorted timer list, poll table | start/stop timer, `poll_add`/`poll_remove`, `poll_execute` with its callbacks | the amf thread, the PM thread |
| **Transactional resource** `motransaction/OamSAImmBridge.cc`, `TxContext.cc`, `OamSATransaction*.cc`, `ImmCmd.cc` | a context per transaction: ccb handle and flags, admin-owner locks, retry counters; a repository of contexts; a global count of contexts | join, create/delete/set, validate, prepare, commit, abort, finish | COM's transaction master, IMM, the cache |
| **Transaction cache** `motransaction/OamSACache.cc` | tree of new and modified objects, tree of (active or dormant) deletion points | insert, update, remove, iterate | the transactional resource |
| **Model translation** `OamSATranslator.cc`, `MOMRootRepository.cc`, ... | the loaded model | name, class and value conversion | transactional resource, OI proxy |
| **OI proxy** `motransaction/OIproxy` | registered classes, objects and struct classes; implementer handles; transaction of each ccb; struct cache; errors of the applier | register and unregister; IMM's ccb, administrative and runtime callbacks turned into COM transactions; replacing the handles | IMM, COM's components and transaction master |
| **Notification service** `ntf/ComSANtf.c` | alarm queue, the flags of the hand-over, subscriptions, `cm_notification_lock` | open, add and remove a filter, close; the reader of old alarms, the callbacks for new, discarded and CM notifications | NTF, COM, the ntf thread |
| **CM events** `ntf/CmEvent*.cc` | a cache per ccb, the memory charged, the list of discarded ccbs, `alreadySubscribed` | add an attribute, set the DN, build an event, discard all; start, filter, stop | IMM/NTF, COM's event router |
| **Replicated list** `rlist` | a list kept in IMM objects | create, add, remove, get | IMM |
| **Log service** `log` | open streams, opening threads | open, write, close | LOG, the availability controller |
| **Trace service** `trace` | registered trace points | register, write | LTTng |
| **PM transfer** `pmt_sa` | message stream, PM subscription, jobs announced and not fetched | start/stop, PM callbacks, `getGpData` | PM service, COM |
| **Model delivery consumer** `com_specific/mdf` | model delivery handle | model delivery callbacks | MDF, COM |
| **COM reencryptor** `com_specific/com_reencryptor` | objects and attributes to re-encrypt | a program of its own: read, re-encrypt, write back with retries | IMM, SEC |
| **Utilities** `utils` | none | strings, IMM values, child processes | all |

What is hard, and what makes each component correct:

* *Availability controller.* Three kinds of threads meet in one queue. Every
  AMF invocation must be answered exactly once although the answer travels
  through COM; the HA mode recorded must be the one COM is in; the stop
  procedure must join the threads it leaves behind and must not pull the
  callbacks from under an event.
* *Transactional resource and cache.* Commit calls validate, validate calls
  prepare, and each has a retry loop for a ccb that IMM aborts. A commit that
  says OK must have applied all the changes, once; locks must be real; calls
  must end.
* *Notification service.* A reader thread fetches old alarms while the ntf
  thread receives new ones and the MAF thread closes and opens the service: no
  alarm may be missed or overtaken by an older one, the reader must end, and
  closing must not deadlock with a callback.
* *CM events.* One event must tell all the changes of one ccb and nothing else,
  although the notifications of several ccbs are mixed, arrive in pieces, and
  may exceed the memory limit at any of them.
* *OI proxy.* Two descriptors feed one thread; struct attributes arrive apart
  from the objects they belong to; identifiers of ccbs and administrative
  operations share a map; registrations change meanwhile. A committed
  transaction must be the ccb, and registry and IMM must agree.
* *Log, PM.* Detached threads racing a close; a session that one thread starts
  and another stops. *Select timer:* the poll table is shared without a lock.

## 2. Modules

| module | models |
|---|---|
| `AvailabilityController` | `ComSAAc.c`: AMF callbacks, event queue, event handlers, stop procedure, the life of the ntf thread |
| `AvailabilityController_proof`, `AvailabilityAnswers_proof` | theorems about it: types, pipe and invocations; answers, callbacks and HA modes |
| `TransactionSpec` | what a transactional resource promises, abstractly: all changes or none |
| `MoTransaction` | the transactional resource with its cache, over a model of IMM's ccbs and admin owners; implements `TransactionSpec` |
| `MCMoTransaction`, `MoTransaction_proof` | two transactions on an object and its child, for TLC; theorems |
| `AlarmNotification` | `ComSANtf.c`: sessions, filters, reader threads, the alarm and CM callbacks, the close procedure |
| `AlarmNotification_proof` | theorems about it |
| `CmEventSpec` | what the CM events promise, abstractly |
| `CmEvents` | `CmEventHandler.cc`, `CmEventProducer.cc` and the conversion of CM notifications in `ComSANtf.c`; implements `CmEventSpec` |
| `MCCmEvents` | an instance for TLC |
| `CmEvents_proof`, `CmEventContents_proof` | theorems: discarded ccbs and the session, sums over ccbs; the contents of events, the refinement of `CmEventSpec`, the memory, types |
| `OIRegistry` | registration of classes, objects and struct classes |
| `OIProxy` | the callbacks of IMM composed with `OIRegistry`, which it extends and implements |
| `MCOIProxy` | an instance for TLC |
| `OIProxy_proof`, `OIProxyCcbs_proof` | theorems: the registry and its refinement; ccbs and their transactions |

The modules meet where the code does. `AvailabilityController` has the life of
the ntf thread, on which the callbacks of `AlarmNotification` run;
`AlarmNotification` has the lock and the steps around a CM notification, of
which `CmEvents` has the contents; `OIProxy` composes the registrar with the
dispatch thread.

### 2.1 AvailabilityController

The variables bear the names of the static variables of `ComSAAc.c`
(`comHaState` is `maf_com_ha_state`, `eventq` the linked list from
`maf_eventq_head`, and so on); those of COM and AMF are separate
(`upcalls`, `comMode`; `pending`, `csiInv`, `csiHa`, `quiescing`). An AMF
callback is one action, because it runs to its end on the amf thread. The queue
operations hold `eventq_lock` and are one step each. The amf thread takes the
whole queue (`maf_handle_events`) and then handles the batch event by event,
and other threads run in between. `maf_coremw_stop` is three steps, as it
blocks in a join twice (`StopBegins`, `StopTerminatesAmfThread`,
`StopJoinsAmfThread`).

Two history variables serve properties only: `immFailed` (the object
implementers once failed to initialise) and `unanswered` (invocations dropped
by the early return after a failed `pthread_create`).

Assumed of the surroundings. AMF gives one CSI assignment or removal at a time,
in an order its specification allows; whether it may give one before
`saAmfCSIQuiescingComplete` is the constant `QuiescingInterrupted`. COM answers
each up-call once, with the function that belongs to it. `saAmfResponse` fails
for an invocation that AMF does not wait for, and the wrapper then ends the
process.

Not modelled: the registration of the SPI interfaces in `mafLCMinit`, the child
killed by `killChildIfAny`, failures of `saAmfFinalize` when the thread ends.

### 2.2 MoTransaction

`tx[t]` is the `TxContext` of a transaction together with the local variables of
the call in progress (`pc`, `level`, the three retry counters) and what IMM
holds of its ccb. A step is one IMM call with the local work around it, so two
transactions interleave between IMM calls. `OamSAPrepare` is `PrepareBegins`,
then one `CcbOperation` or `LockRefused` per change, then `PrepareEnds`;
`level` says who called it and hence what follows. The four retry places are
`PrepareRetried` (`handlePrepareOnImmAbort`, reached from two loops),
`CcbValidate` and `CcbApplyFails`. `lockDn` is a step per IMM call too:
`AdminOwnerSet` (with the test of `numInstances`), `getAdminOwner`,
`AdminOwnerClear` and `AdminOwnerSetAgain`, whoever calls it: an edit (`Edit` to
`EditDone` or `EditRefused`, with `RestoreLock` for a refused deletion) or
`OamSAPrepare` (`OperationBegins`). So a transaction may join, or take an object,
between the test and the clearing, as the comment at `OamSAImmBridge.cc:3453`
warns. A `ccbAbort` that fails when preparing is given up leaves the ccb as it is.

The cache has one entry per name: `kind` is the entry in the tree of new and
modified objects, `point` the one in the tree of deletion points, and `n` tells
which edit made it, so that a lost or outdated change is visible. Attribute
values are abstracted to `n`.

`TransactionSpec` is the atomicity that `MafOamSpiTransactionalResource_2.h:25`
demands. A transaction has a status and the changes collected so far; they are
settled once its commit is asked for, and then carried out all at once and once at
most (`Commit`), or never. `LoseAnswer` is the one allowance it makes: the changes
are carried out and the user is told that the commit failed, because the answer of
`saImmOmCcbApply` did not arrive. The mapping is `Promise` in `MoTransaction`: the
objects are those of IMM, the changes those in the cache, the status follows from the
phase and from whether the ccb was applied (`StatusOf`). All building, aborting,
rebuilding and validating of ccbs is invisible to it.

Assumed of the surroundings (marked external in the map where they are separate
definitions). COM creates below objects it sees, and deletes and changes objects
it sees. The master validates, prepares and commits in this order;
`ExplicitPrepare` lets it prepare without a validation. IMM refuses to change an
object that the caller does not own, does not release or clear the owner of an
object that is part of an open ccb, tells no owner of an object without one, and
aborts a ccb either for want of resources or because it refuses
a change. An apply that fails with another error may have been carried out.
Retries on `SA_AIS_ERR_TRY_AGAIN` (`ImmCmd.cc`) are folded into the outcome of
a call. Objects may initially be owned by a transaction that is gone (`Stale`)
or by another application (`Foreign`).

Simplifications. `numInstances` counts the live contexts exactly; that it is
incremented and decremented without a lock is below the level of the steps. Initial attributes of a
new object count as part of the creation. A creation that fails half-way in
`createImmMo` (the object stays cached while the parent's lock is given back) is
not modelled, nor are the CM interface contexts, reads and iterators,
administrative operations and struct attributes.

### 2.3 AlarmNotification

An alarm is its number in NTF's log, which is also its event time. Three kinds of
threads step: the ntf thread (`ntf`: a callback is dispatched, and, for an alarm,
decided on and carried out in two steps, because `readOldAlarmDone` is read
outside `alarm_queue_lock`), the readers (`reader[r]`: one step per call of NTF),
and the MAF thread (`main`: the close procedure is five steps). Opening fails in
two ways: when `saNtfInitialize` does, the session is what it was; when a later
call to MAF does, NTF's session stays initialised and polled although the service
counts as closed. In the close procedure NTF may fail to tell the selection object,
so that it stays in the poll table; MAF may refuse, which ends the procedure with
the lock held; and `saNtfFinalize` may fail, which leaves the session and goes on. `flags` are the
static variables of the hand-over. `alarmQueue` is what is reachable from
`alarmQueueFront` and `tail` what the other pointer, `alarmQueue` in the code,
points to: the last object, nothing, or memory that was freed.
`getNotificationId` returns the address of an id, so whether two notifications
compare as equal is left open when both addresses may have been used.

COM adds a filter with the event time of the last alarm it has; NTF keeps its log
in order and may refuse calls, and it may discard an alarm and tell so. `faults`
records by name what the properties except; the comment on `Faults` says what each
name means. `delivered` is all that COM was given since it set its filter, in the
order in which it was given: an alarm may be in it more than once, as the reader
reads alarms that the callback has sent, and `NewestAlarmLast` is about the last
time each was given.

Left out: a failure of `saNtfSelectionObjectGet` or `poll_setcallback` in the
opening (it ends the process), conversion of headers and values, alarms that COM does not want, the
list of values lent to COM, version 3 of the interface, and discarding several
alarms at a time (the double free there ends the process by an assertion).

### 2.4 CmEvents and CmEventSpec

A notification is taken in steps as the code does: `Notify` (with
`convertCMNotificationHeader` up to the attributes), one `addAttr` per attribute,
`convertTo3GPPDN`, and `setDnInCmCache` with everything up to the push, or
`pushOverflow`. `cacheMap[c].dns` holds the attributes by DN, the ones not yet
assigned under the temporary key. Bytes are small numbers from `Amounts`, counted
as `updateMemory` counts them. What the iterator in `discardAllCcbs` visits after
its element was erased is chosen freely (undefined behaviour).

IMM (external) sends notifications for objects that can change that way, each ccb
ends with a notification marked last, runtime objects change under ccb id 0.

`CmEventSpec` has four variables (the objects each transaction is known to have
changed, the last notification told, the transactions of which something was lost,
and whether the promise was given up) and says that a transaction is told once,
as a whole, or an overflow is told and then nothing of it. `PromiseKept` is the
refinement; its mapping is in `CmEvents` (`Promise`). The two ways in which the
code breaks the promise, a last notification without attributes and a ccb that
meets the limit before it is in the cache, set `excused`.

### 2.5 OIRegistry and OIProxy

`OIRegistry` has one step per call of IMM that a registration makes; the call
under way is `registrar`. `ctOwner` is the map of struct classes by path,
`implemented` and `applier` are what IMM holds. Its mutual exclusions, its order
(the registration enters the map last and leaves it before its paths) and its
error paths are those of the code. It is the abstract specification for
everything else in the proxy: `OIProxy` extends it, and that each of its steps is
a step of the registry or none is proved.

In `OIProxy` a callback is one step of the dispatch thread. `ccb` is the phase of
a ccb in IMM and whether the main implementer and the applier have a part in it;
callbacks of the applier wait in `applierQueue`. `txs` are COM's transactions and
what each was given; `ccbTxMap`, `cache` and `applierError` are the maps of the
code. A change is abstracted to its component and to whether it concerns an
object, empties an attribute or carries a struct value. The components' calls may
fail wherever the code looks at their result.

A callback that cannot have the class of the object from IMM (`getRDNAttribute`), or
whose name `parseImmDN` cannot translate, answers OK without making the change
(`OamSAOIProxy.cc:2369-2374`, 2595-2599, 2715-2719; for struct objects 3945-3950 and
4156-4160, where no error is set for the main implementer either), although the
comment at line 2358 promises an error code. The ccb then commits without the change.
The model takes this path for any change (`missed`, and the second disjunct of
`handleComplexTypeCcbChange`), records it as `skipped`, and `CommittedIsWhole` excepts
the ccb: the property does not say that nothing is skipped, but that nothing else is
lost. An administrative operation that leaves its transaction behind (the join fails,
line 1842) leaves it under an identifier that a ccb may get; the ccb carries its changes
out with it, so the transaction counts as the ccb's from `handleCcbApply` on and is
judged by `CommittedIsWhole` like any other. An error of `getAllClassDNs` is ignored
(`OamSARegisterObjectImplementer.cc:405`): a class is then registered beside its
objects, recorded as `search`; `ImplementersMatch` holds in spite of it.

`BadHandle` is the replacement of the handles by the dispatch thread. In a callback
(lines 568 and 3551) the replacement is the same, and what the callback does afterwards
is as if it had come before. Not modelled is that this one also starts a second
dispatch thread (line 4581) beside the first, which goes on with the old descriptors:
both use the maps of the code without a lock, which has no defined outcome that a step
of the model could take. One replacement is followed in a behaviour.

Assumed: IMM calls the main implementer synchronously and the applier not; it
gives callbacks for what COM SA has set itself the implementer of; calls of the
registration interface do not overlap (they come from COM's main thread).

## 3. Runs

| run | instance | states | shows |
|---|---|---|---|
| `ac_safety` | 3 invocations or reports, AMF waits for a quiescing | 1 165 880 | no answer is lost or repeated, the pipe mirrors the queue, the recorded mode is COM's, callbacks outlive their events, COM is not asked for the mode it is in |
| `ac_live` | 2 invocations, AMF may interrupt a quiescing | 32 161 | every invocation is answered, the stop procedure returns |
| `ac_same_mode` | 3 invocations, AMF may interrupt a quiescing | counterexample | COM is asked to go to the mode it is in |
| `ac_ntf_join` | 2 invocations | counterexample | stop returns while the ntf thread it names runs |
| `mo_commit` | 2 transactions, 2 objects, 2 edits, 1 validation, 1 fault, 1 retry | 1 034 965 | commits are complete and applied at most once, nobody takes a live transaction's object, but for one that joins before a clearing already decided; `TransactionSpec` is implemented |
| `mo_live` | 1 transaction, 2 objects, 2 edits, 2 retries, any number of faults, locks taken by the edits | 49 920 | every call returns; the retry counters stay in bounds |
| `mo_explicit_prepare` | 1 transaction, no faults | counterexample | an explicit prepare after a validation commits an old ccb |
| `mo_stale_lock` | 1 transaction, 1 fault | counterexample | a lock is remembered that IMM has released |
| `ntf_handover` | 2 alarms, 2 sessions with 1 filter each, 1 reader at a time, 1 failed call, discarded alarm or CM notification, 1 retry, 2 rounds of reading | 975 102 | no alarm missed, the newest comes last, readers end, closing returns |
| `ntf_queue` | 2 alarms, 1 session, nothing fails | counterexample | an alarm is queued behind a freed object and lost |
| `cm_events` | 4 objects (1 runtime, 1 not notifiable), 2 structs, 2 ccbs, 3 notifications, 2 sessions, a limit of 5 with amounts of 2 | 1 685 552 | events are whole and fit their types, the memory count returns to zero, discarded ccbs stay discarded, ended ccbs leave nothing, a filter has its subscription; `CmEventSpec` is implemented |
| `oi_proxy` | 1 class, 2 objects, 1 struct attribute, 2 components, 2 registration calls, 1 ccb, 3 changes or operations | 3 996 048 | committed transactions are whole but for recorded faults, ended ccbs leave nothing, registry and IMM agree, prepared transactions are final |

Why the bounds are enough for what is asked. Three invocations let a quiescing
be followed by an assignment and another event, or a CSI assignment, a
termination and a spontaneous report be in the queue together with the
terminate event; two suffice to have an unanswered invocation meet the stop
procedure. Two transactions and an object with its child give every conflict
between scope one and scope subtree; two edits give a change made before and one
made after a validation, and a deletion of what was changed. One fault with one
retry takes each retry loop once through and once to its limit; `mo_live`
removes the bound on faults. `Retries` (`IMM_ABORT_RETRIES_COUNT`) is 60 in the product
and 2 in the unit tests; no guard distinguishes the values.

Two alarms are an old one and a new one, or two that are queued one after the
other, of which `ntf_queue` loses the second; that case is excepted in
`ntf_handover`. Two
sessions are needed for flags and readers that outlive a close; two rounds of
reading take the reader through its call of itself and to its limit. Three
notifications are two of one ccb with one of another between them, or an
overflow between two of the same; a limit of 5 is exceeded by the third entry.
Two objects and their class give every exclusion between registrations and a
struct class that is shared; the ccb has the number with which administrative
operations begin, 47, so that they meet.

`CHECK_DEADLOCK FALSE` is set in all runs: the process may have ended or the
component been unloaded, and all transactions may have finished.

**Fairness.** `AvailabilityController`: weak fairness of the amf thread's own
steps and of the stopping thread's, which is what the operating system gives a
runnable thread, and of COM's answers, which the SPI demands. AMF need never
call, COM need never stop. `MoTransaction`: weak fairness of a thread inside a
call of the resource; the master need not make another call. `AlarmNotification`:
weak fairness of the ntf thread's callbacks, of each reader and of the close
procedure once it has begun; these are threads that run and calls that return.
COM need not open, filter or close, NTF need not log.

**Exceptions in the properties.** Where the code has a case it does not handle,
the module records it by name when it happens (`faults`, `immFaults`) and the
property excepts that name and no other: it then shows that there is no second
way to go wrong. It does **not** catch the excepted case itself. This is so for

| property | excepted, and so not caught |
|---|---|
| `HaStateAgrees`, `NeverSetsSameMode` in `ac_safety` | an AMF that interrupts a quiescing (`ac_same_mode` shows it) |
| `NoInvocationLost`, `InvocationsAnswered` | the ntf thread cannot be created (`ComSAAc.c:1140`) |
| `ResponseRefusedOnlyAfterImmFailure` | the object implementers fail to initialise (`ComSAAc.c:972`) |
| `OwnershipNotStolen` | a clearing decided before the owner joined (`OamSAImmBridge.cc:3453`) |
| `NoAlarmMissed`, `NewestAlarmLast` | an alarm behind a freed object (`ntf_queue` shows it), a false match of ids, a call the reader needs fails, a reader still running at the next filter or opening, a second filter, a session that is not finalised while alarms are taken; for the order also a discarded alarm |
| `CloseReturns` | a CM callback between its test and the lock, a router that refuses (both block) |
| `HaStateAgrees` | besides, object implementers that fail to initialise |
| `EventTellsChanges`, `EventTypesFit` | a DN that cannot be translated (`ComSANtf.c:2720`), ccbs that the loop over the freed iterator misses (`CmEventHandler.cc:657`) |
| `CcbLeavesNothing` of the CM events | the same, and a last notification that is for nobody, or for a struct of a discarded ccb |
| `FilterMeansSubscribed` | a subscription that NTF refuses |
| `PromiseKept` | a last notification without attributes, a ccb that meets the limit before it is cached |
| `CommittedIsWhole` | a late callback of the applier, a registration that comes or goes meanwhile, values for another interface, an emptied attribute with cached values, a change skipped with OK |
| `CcbLeavesNothing` of the OI proxy | a late callback, a ccb without the main implementer, replaced handles; a leaked transaction in the map |
| `ImplementersMatch` | a release IMM refuses, replaced handles |

The hazards in `PROJECT.json` name the line of each. The run
`ntf_queue` shows one of them in full, because a comment promises otherwise.

**Mutants.** Each property of a passing run has a mutant, an operator defined
just before the one it replaces and commented `Mutant:`, under which TLC finds
the property violated.

### Findings

1. `ac_same_mode`: the guard of `ComSAAc.c:1084`, "It's illegal to go to the same
   state in COM", compares with `maf_com_ha_state`, which line 1129 brings up to date
   only when the amf thread handles COM's answer. COM has completed a quiescing and the
   answer is still in the queue; an assignment of Quiesced is compared with Active and
   COM is asked for the mode it is in. (With more invocations line 1129 adds a second
   way: it records the mode of the *last* assignment, not of the one answered.)
2. `ac_ntf_join`: the stop procedure looks for the ntf thread before the amf
   thread has handled the events that may create one (`ComSAAc.c:753`).
3. `mo_explicit_prepare`: `OamSAPrepare` keeps the ccb of an earlier validation
   (`OamSAImmBridge.cc:2522`); prepared explicitly, the commit misses the changes
   made since and returns `MafOk`. With a validation first, as in `mo_commit`,
   the ccb is rebuilt and the property holds.
4. `mo_stale_lock`: a failed deletion is released with scope subtree, and the
   locks taken below are still remembered (`OamSAImmBridge.cc:3000`), contrary to
   the comment at line 3416.
5. `ntf_queue`: `sendQueuedAlarms` leaves `alarmQueue` pointing to the object it
   freed last (`ComSANtf.c:3667`). A callback that decided to queue before
   `readOldAlarmDone` was set links its alarm behind that object; the alarm is
   lost, which the queue is to avoid by the comment at line 3786.

## 4. Proofs

`AvailabilityController_proof` proves, for every `MaxInv` and both values of
`QuiescingInterrupted` and `Lm` (nothing else is assumed):

* `TypeCorrect`: `Spec => []TypeOK`. `TypeOK` is inductive as it stands. It says
  more than types: an event without an invocation is a terminate event or a
  flagged report, `pending` are issued invocations, and `csiInv` is pending. The
  proof splits it into groups of variables, as an action touches few of them.
* `PipeCorrect`: `Spec => []PipeMirrorsQueue`. Inductive together with
  `TypeOK`; lemma `QueueSteps` reduces every action to one of three effects on
  the queue (an add, a take, none).
* `InvocationsCarried`: `Spec => []NoInvocationLost`. Inductive together with
  `TypeOK`. The in-flight events are the up-calls, the queue and the batch; the
  lemmas `ElementsOfAppend` and `ElementsOfTail` say how appending and taking the
  head change the events of a sequence, `EventHandled` that the one event that
  leaves has been answered or recorded, `CallMade` that a new invocation comes
  with its event.

`CmEvents_proof` proves, for any ccbs, objects, structs, limit and number of
notifications:

* `CacheSafe`: `Spec => []DiscardedNotCached`. Not inductive: the list is consulted
  when a notification arrives and the cache is written attribute by attribute
  later. `CacheInv` adds that while something of the current notification is still
  to be cached its ccb is not on the list (`StillWanted`), and the shape of the
  current notification (`CurrentOK`). Lemma `DiscardKeepsApart` is about the loop
  with the freed iterator: whatever it visits, it lists what it takes out.
* `FilterServed`: `Spec => []FilterMeansSubscribed`. Inductive as it stands; lemma
  `NotificationSteps` takes together the actions that leave the session alone.

`OIProxy_proof` proves, for any classes, objects, struct classes and components and
any number of calls, assuming `RegistryAssumption`:

* `RegistryMatches`: `RegistrySpec => []ImplementersMatch`. The property speaks of
  the time between calls; `RegistryInv` says what holds during one: the
  registration is in IMM from the first step to the release, its paths are those
  of the attributes already handled on the way in and not yet handled on the way
  out (`PathsOK`), and an applier is set exactly while some path is registered
  (`ApplierOK`).
* `ProxyImplementsRegistry`: `Spec => RegistrySpec`, the refinement, step by step.
* `ProxyMatches`: `Spec => []ImplementersMatch`, from the two.

`AvailabilityAnswers_proof` goes on from there:

* `CallbacksThere`: `Spec => []CallbacksKept`. Needs `ThreadInv`: the batch is empty
  unless the amf thread polls, a thread not yet joined is recorded in `amfRunning`,
  and without callbacks no answer to a termination is in flight.
* `AnsweredOnce`: `Spec => []ResponseRefusedOnlyAfterImmFailure`. `AnswerInv` says
  that no two events in COM's hands, in the queue and in the batch bear the same
  invocation (`Distinct`) and that AMF waits for each that is to be responded to.
* `HaStateRecorded` and `SameModeNeverSet`: `HaStateAgrees` and the action property
  `NeverSetsSameMode`, for `~QuiescingInterrupted`; with an interrupted quiescing
  they are false (finding 1). `ModeInv` says that one change of mode at most is under
  way, that AMF knows of it, and that the recorded mode is COM's or will be when the
  answer is handled.

`MoTransaction_proof` proves, for any finite set of transactions, any objects in any
tree, any number of retries, edits and faults (`ConstantsAssumption`). That the
recursion of `AncestorsOrSelf` has the value it describes is proved too (lemma
`Ancestors`): the smallest set that holds a name and is closed under `Parent` is a
solution.

* `TypeCorrect` and `AppliedOnce`: `Spec => []TypeOK`, `Spec => []AppliedAtMostOnce`.
  The types are not inductive alone: that a retry counter stays in its range needs
  that each round of a loop is entered below the limit (`Rounds`), and `Once` that
  nothing is applied before the end of the call that applies.
* `CommitComplete`: `Spec => []CommitIsComplete` for `~ExplicitPrepare` (with it the
  property is false, finding 3). `Built` follows the ccb through prepare, validate
  and apply and their retries: from the successful end of `OamSAPrepare` on a live
  ccb holds exactly what is cached.
* `NotStolen`: the action property `OwnershipNotStolen`, with the steps of `lockDn`
  interleaved. A step of another transaction that takes an object away is
  `AdminOwnerClear`; the invariant of the contexts (`Counted` in `Good`) says that its
  transaction was alone when it tested `numInstances`, so the one who loses was not
  counted then. `OwnersAlive` (an owner that is a transaction has a context) is for the
  step that deletes a context.
* `TransactionsAreAtomic`: `Spec => TransactionsAtomic`, the refinement of
  `TransactionSpec`, for `~ExplicitPrepare` (finding 3 breaks it otherwise). The
  lemmas `PrepareKeeps`, `OperationKeeps` and `ValidateKeeps` show that a step within
  a call keeps phase, cache and history, so it is not seen; `ApplyBecomes` that
  `saImmOmCcbApply` carries out what is cached, for the first time, or nothing, by
  `Built` and `Once`; `MasterBecomes`, `EditBecomes` and `FinishBecomes` are the calls.

`AlarmNotification_proof` proves, for any number of alarms, openings, filters,
readers, retries and failed calls:

* `NotificationTypeCorrect`: `Spec => []TypeOK`.
* `EveryAlarmGiven`: `Spec => []NoAlarmMissed`. The property speaks of the moments at
  which nothing is under way; `NoneLost` says where an alarm is until then. The alarms
  that wait for the dispatch, the one in the hands of the ntf thread, the queue and
  what the reader has before it are together with what COM was given all that it asked
  for; what waits for the dispatch is closed upwards (every alarm behind one that waits
  waits too); and everything from `callbackLast` on is given or in the stream, which
  is why the reader may stop at that alarm. `SessionInv` (what an open and a closed
  service have), `ReadersInv` (one reader, whose place tells the flags) and `QueueInv`
  (the pointer to the end of the queue) carry it from step to step.
* `OldAlarmsHideNone`: `Spec => []NewestAlarmLast`. `InOrder` says that an alarm given
  before an older one has been given again or is still due (`Settled`); that the queue
  is in order and before what waits; and that while the reader reads for the first
  time COM has nothing newer than what it will read (`ReadSoFar`).

`Fine` and `Calm` in these proofs are the exceptions of the two properties: nothing
is claimed after a fault that they do not allow.

`CmEventContents_proof` proves, under the assumptions of the module
(`ConstantsAssumption`, and `TempAssumption`: the temporary key is no DN):

* `EventsComplete` and `EventsTyped`: `Spec => []EventTellsChanges`,
  `Spec => []EventTypesFit`. `ContentInv` relates the cache to what the notifications
  said (`NotedInv`), the temporary key to the notification under way (`TempInv`), and
  the types of a DN to its attributes (`FitInv`).
* `EndedForgotten`: `Spec => []CcbLeavesNothing`; `EndedInv` adds that a notification
  under way belongs to a ccb that has ended only if it is its last.
* `PromiseHolds`: `Spec => PromiseKept`, the refinement of `CmEventSpec`, one step per
  action; `PartialInv` says that a ccb of which something was lost is on the list of
  discarded ones until it has ended, so that nothing of it is collected any more.
* `MemoryAccounted`: `Spec => []NoPhantomMemory`. `MemoryInv` adds that there are
  finitely many ccbs, that the counters are numbers, and that without a limit nothing
  is charged. The property compares a counter with a sum over the cache, a recursion
  over a finite set. The sum is shown to be the cardinality of a set, the bytes of the
  ccbs numbered within each (`SumCounts` in `CmEvents_proof`): that count solves the
  recursion, and no other function does, as there would be a smallest set on which the
  two differ (`SmallestSet`). From there `SumSplit`, `SumOfOne` and `SumSame` are facts
  about cardinalities, and each action adds, takes out or recharges one ccb, or takes
  out the ccbs that `discardAllCcbs` visits.
* `CmTypes`: `Spec => []TypeOK`, from `ContentInv`, `MemoryInv` and what an action
  leaves in the remaining variables (`RestOK`).

`OIProxyCcbs_proof` proves, for any ccbs, components, registrations and changes
(`ProxyAssumption`, `RegistryAssumption`):

* `ProxyTypeCorrect`, `CommittedWhole`, `NothingLeft` and `PreparedStaysFinal`:
  `Spec => []TypeOK`, `[]CommittedIsWhole`, `[]CcbLeavesNothing` and the action
  property `PreparedIsFinal`. `CcbsInv` has three parts. `MapInv`: the map from
  identifiers to transactions is one-to-one, its transactions have not ended, and every
  transaction of a ccb that has not ended is in it. `QueueInv`: the changes that wait
  for the applier are in their order. For each ccb, `CcbInv`: what it gave its
  transaction is a prefix of what was wanted and the rest waits in order (`FlowInv`),
  a prepared transaction has a prepared ccb (`PreparedInv`), what waits or is left in
  which phase (`WaitInv`, `LeftInv`). A step touches one ccb; the lemmas about frames
  show that the others keep their part.

The assumptions on constants are those of the modules; TLC evaluates them in the runs.

Only model-checked:

* the liveness properties (`ReaderEnds`, `CloseReturns`, `CallsReturn`,
  `InvocationsAnswered`, `StopReturns`): fairness and ENABLED are beyond the prover;
* the five properties that the code violates.

Every invariant and every action property of a passing run is a theorem.

No module reached from a proof declares a RECURSIVE operator.

## 5. Plan

What is left, in this order.

1. Proofs: lemmas that say more of the exceptions, for example that without a failed
   call or a discarded alarm only `"tail"`, `"match"`, `"overlap"`, `"resubscribe"` and `"late"` can be
   recorded in `AlarmNotification`; the action properties that follow from the
   invariants proved.
2. `MoTransaction`: longer sequences of edits for the two trees of the cache
   (`OamSACache.cc:2311`).
3. `LogService` (opening threads and close) and `PmTransfer` (message stream,
   subscription, jobs announced and not fetched), the remaining components in
   which threads meet.

## 6. Not modelled

* *Model translation* (`OamSATranslator.cc` and its data classes), formatting of
  values in `ComSANtf.c` and the OI proxy, traces and log records, child processes:
  pure data or I/O without state that a property could be about. These, with the
  unit tests and stubs kept beside the code, are the greater part of the lines.
* *Select timer*: its timers are called nowhere in the repository; what remains
  is the poll table, an array shared without a lock.
* *Replicated list, reencryptor, model delivery consumer, trace service*:
  sequential code around calls of IMM or of other libraries.
* *Log service, PM transfer*: concurrent and worth a model, see section 5.
