-------------------- MODULE AvailabilityController_proof --------------------
(***************************************************************************)
(* Proofs about the availability controller, for every number of           *)
(* invocations, for both behaviours of AMF during a quiescing and for both *)
(* variants of the component.                                              *)
(***************************************************************************)
EXTENDS AvailabilityController, TLAPS

(***************************************************************************)
(* The type invariant by groups of variables: an action touches few of     *)
(* them.                                                                   *)
(***************************************************************************)
ThreadsOK ==
    /\ process \in {"up", "start failed", "response failed", "crashed",
                    "forced termination"}
    /\ acCallbacks \in BOOLEAN
    /\ amfThread \in {"none", "starting", "polling", "ended"}
    /\ amfRunning \in BOOLEAN
    /\ stopThread \in BOOLEAN
    /\ stopPc \in {"idle", "terminate amf", "join amf", "done", "unloaded"}

QueueOK == eventq \in Seq(Event) /\ pipe \in Nat

BatchOK == batch \in Seq(Event)

HaOK ==
    /\ comHaState \in HaModes
    /\ newComHaState \in HaModes
    /\ alertalarm \in BOOLEAN

NtfOK ==
    /\ ntfRunning \in BOOLEAN
    /\ ntfPthread \in Nat
    /\ ntfLive \subseteq 1 .. ntfPthread

ComOK ==
    /\ upcalls \subseteq Upcall
    /\ comMode \in HaModes
    /\ reports \in 0 .. MaxInv

AmfOK ==
    /\ pending \subseteq 1 .. issued
    /\ csiInv \in {0} \cup pending
    /\ csiHa \in CsiStates
    /\ quiescing \in 0 .. issued
    /\ issued \in 0 .. MaxInv

HistoryOK == immFailed \in BOOLEAN /\ unanswered \subseteq Invocations

\* The groups together are the type invariant.
LEMMA TypeGroups ==
    TypeOK <=> /\ ThreadsOK /\ QueueOK /\ BatchOK /\ HaOK
               /\ NtfOK /\ ComOK /\ AmfOK /\ HistoryOK
  BY DEF TypeOK, ThreadsOK, QueueOK, BatchOK, HaOK, NtfOK, ComOK, AmfOK,
         HistoryOK

\* Init establishes the type invariant.
LEMMA TypeInit == Init => TypeOK
<1> SUFFICES ASSUME Init PROVE TypeOK
  OBVIOUS
<1> USE DEF Init
<1>1. ThreadsOK
  BY DEF ThreadsOK
<1>2. QueueOK /\ BatchOK
  BY DEF QueueOK, BatchOK
<1>3. HaOK /\ NtfOK
  BY DEF HaOK, NtfOK, HaModes
<1>0. MaxInv \in Nat
  BY ConstantsAssumption
<1>4. ComOK
  BY <1>0 DEF ComOK, HaModes
<1>5. AmfOK
  BY <1>0 DEF AmfOK, CsiStates
<1>6. HistoryOK
  BY DEF HistoryOK
<1> QED
  BY <1>1, <1>2, <1>3, <1>4, <1>5, <1>6, TypeGroups

----------------------------------------------------------------------------
(***************************************************************************)
(* What the helpers keep.                                                  *)
(***************************************************************************)
\* An event made for an invocation is an event.
LEMMA NewEvent ==
    ASSUME NEW inv \in Invocations, NEW flags \in {0, 1},
           NEW type \in {"healthCheckReport", "haModeAssumed",
                         "prepareTerminationResponse"}
    PROVE  maf_new_event(type, inv, flags) \in Event
  BY DEF maf_new_event, Event

\* The terminate event and COM's own health report are events.
LEMMA OwnEvents ==
    /\ maf_new_event("Terminate", 0, 0) \in Event
    /\ \A ok \in BOOLEAN : [SpontaneousEvent EXCEPT !.ok = ok] \in Event
  BY DEF maf_new_event, SpontaneousEvent, Event

\* An event COM has answered is still an event.
LEMMA AnsweredEvent ==
    ASSUME NEW u \in Upcall, NEW ok \in BOOLEAN,
           u.event.type # "Terminate"
    PROVE  /\ [u.event EXCEPT !.ok = ok] \in Event
           /\ [u.event EXCEPT !.ok = ok].inv = u.event.inv
           /\ [u.event EXCEPT !.ok = ok].flags = u.event.flags
  BY DEF Upcall, Event

\* maf_event_add keeps the queue a sequence of events.
LEMMA AddKeepsQueue ==
    ASSUME NEW event \in Event, QueueOK, maf_event_add(event)
    PROVE  QueueOK'
  BY DEF QueueOK, maf_event_add

\* maf_event_getq keeps the queue and the batch sequences of events.
LEMMA GetqKeepsQueue ==
    ASSUME QueueOK, maf_event_getq
    PROVE  QueueOK' /\ BatchOK'
  BY DEF QueueOK, BatchOK, maf_event_getq

\* A response keeps the types of what AMF knows.
LEMMA ResponseKeepsAmf ==
    ASSUME NEW inv, NEW ok, AmfOK, ThreadsOK, saAmfResponse(inv, ok),
           UNCHANGED <<quiescing, issued, thrVars>>
    PROVE  AmfOK' /\ ThreadsOK'
<1>1. AmfOK'
  BY DEF AmfOK, saAmfResponse, CsiStates
<1>2. ThreadsOK'
  BY DEF ThreadsOK, saAmfResponse, thrVars
<1> QED
  BY <1>1, <1>2

\* The end of a quiescing keeps the types of what AMF knows.
LEMMA QuiescingCompleteKeepsAmf ==
    ASSUME NEW inv, NEW ok, AmfOK, saAmfCSIQuiescingComplete(inv, ok),
           UNCHANGED <<pending, csiInv, issued>>
    PROVE  AmfOK'
  BY ConstantsAssumption DEF AmfOK, saAmfCSIQuiescingComplete, CsiStates

\* Handling takes the first event of the batch, which is an event.
LEMMA HandlingTakesHead ==
    ASSUME NEW type, BatchOK, Handling(type)
    PROVE  /\ BatchOK'
           /\ Head(batch) \in Event
           /\ Head(batch).type = type
  BY DEF BatchOK, Handling

\* A group whose variables do not change keeps its types.
LEMMA GroupsUnchanged ==
    ASSUME TypeOK
    PROVE  /\ UNCHANGED <<process, thrVars>> => ThreadsOK'
           /\ UNCHANGED qVars => QueueOK'
           /\ UNCHANGED batch => BatchOK'
           /\ UNCHANGED haVars => HaOK'
           /\ UNCHANGED ntfVars => NtfOK'
           /\ UNCHANGED comVars => ComOK'
           /\ UNCHANGED amfVars => AmfOK'
           /\ UNCHANGED histVars => HistoryOK'
<1>1. UNCHANGED <<process, thrVars>> => ThreadsOK'
  BY DEF TypeOK, ThreadsOK, thrVars
<1>2. UNCHANGED qVars => QueueOK'
  BY DEF TypeOK, QueueOK, qVars
<1>3. UNCHANGED batch => BatchOK'
  BY DEF TypeOK, BatchOK
<1>4. UNCHANGED haVars => HaOK'
  BY DEF TypeOK, HaOK, haVars
<1>5. UNCHANGED ntfVars => NtfOK'
  BY DEF TypeOK, NtfOK, ntfVars
<1>6. UNCHANGED comVars => ComOK'
  BY DEF TypeOK, ComOK, comVars
<1>7. UNCHANGED amfVars => AmfOK'
  BY DEF TypeOK, AmfOK, amfVars
<1>8. UNCHANGED histVars => HistoryOK'
  BY DEF TypeOK, HistoryOK, histVars
<1> QED
  BY <1>1, <1>2, <1>3, <1>4, <1>5, <1>6, <1>7, <1>8

\* The next invocation of AMF is within the bound.
LEMMA NextInvocation ==
    ASSUME TypeOK, AmfMayCall
    PROVE  /\ issued + 1 \in Invocations
           /\ issued + 1 \in 0 .. MaxInv
           /\ 1 .. issued \subseteq 1 .. (issued + 1)
           /\ issued + 1 \in 1 .. (issued + 1)
           /\ 0 .. issued \subseteq 0 .. (issued + 1)
<1>1. MaxInv \in Nat
  BY ConstantsAssumption
<1>2. issued \in 0 .. MaxInv /\ reports \in 0 .. MaxInv
  BY DEF TypeOK
<1>3. issued + reports < MaxInv
  BY DEF AmfMayCall
<1> QED
  BY <1>1, <1>2, <1>3 DEF Invocations

\* A CSI assignment keeps every group's types.
LEMMA CsiSetCallbackKeepsTypes ==
    ASSUME TypeOK, AmfMayCall,
           NEW state \in CsiStates, NEW ha \in HaStates, NEW immOk \in BOOLEAN,
           maf_amf_csi_set_callback(issued + 1, state, ha, immOk)
    PROVE  TypeOK'
<1> DEFINE inv == issued + 1
<1> USE DEF maf_amf_csi_set_callback
<1>0. ModeOf(ha) \in HaModes /\ FlagsOf(ha) \in {0, 1}
  BY DEF ModeOf, FlagsOf, HaModes, HaStates
<1>1. QueueOK' /\ BatchOK' /\ NtfOK'
  BY GroupsUnchanged
<1>2. ThreadsOK'
  BY DEF TypeOK, ThreadsOK, thrVars
<1>3. HaOK'
  BY <1>0 DEF TypeOK, HaOK
<1>4. HistoryOK'
  BY DEF TypeOK, HistoryOK
<1>5. ComOK'
  <2>1. Call(maf_new_event("prepareTerminationResponse", inv, 0), "Unassigned")
           \in Upcall
    BY NewEvent, NextInvocation DEF Call, Upcall, HaModes
  <2>2. Call(maf_new_event("haModeAssumed", inv, FlagsOf(ha)), ModeOf(ha))
           \in Upcall
    BY <1>0, NewEvent, NextInvocation DEF Call, Upcall
  <2>3. upcalls' \subseteq Upcall
    BY <2>1, <2>2 DEF TypeOK
  <2> QED
    BY <2>3 DEF TypeOK, ComOK
<1>6. AmfOK'
  <2>1. issued' = inv /\ csiHa' = state
    OBVIOUS
  <2>2. quiescing' \in {0, inv}
    BY DEF SameMode
  <2>3. pending' \in {pending, pending \cup {inv}}
    BY DEF SameMode
  <2>4. csiInv' \in {0} \cup pending'
    BY DEF SameMode, TypeOK
  <2>5. pending \subseteq 1 .. issued
    BY DEF TypeOK
  <2>6. pending' \subseteq 1 .. issued'
    BY <2>1, <2>3, <2>5, NextInvocation
  <2>7. quiescing' \in 0 .. issued'
    BY <2>1, <2>2, NextInvocation
  <2>8. issued' \in 0 .. MaxInv
    BY <2>1, NextInvocation
  <2> QED
    BY <2>1, <2>4, <2>6, <2>7, <2>8 DEF AmfOK
<1> QED
  BY <1>1, <1>2, <1>3, <1>4, <1>5, <1>6, TypeGroups, PTL

\* Every step of the controller keeps the type invariant.
LEMMA TypeNext == TypeOK /\ [Next]_vars => TypeOK'
<1> DEFINE Groups == /\ ThreadsOK /\ QueueOK /\ BatchOK /\ HaOK
                     /\ NtfOK /\ ComOK /\ AmfOK /\ HistoryOK
<1> SUFFICES ASSUME TypeOK, [Next]_vars PROVE Groups'
  BY TypeGroups, PTL
<1>p. TypeOK' => Groups'
  BY TypeGroups, PTL
<1> USE GroupsUnchanged
<1>0. ThreadsOK /\ QueueOK /\ BatchOK /\ HaOK /\ NtfOK /\ ComOK /\ AmfOK
        /\ HistoryOK
  BY TypeGroups
<1>1. ASSUME NEW callbacks \in BOOLEAN, maf_coremw_acInitialize(callbacks)
      PROVE  Groups'
  <2>1. ThreadsOK'
    BY <1>0, <1>1 DEF maf_coremw_acInitialize, ThreadsOK
  <2> QED
    BY <1>1, <2>1 DEF maf_coremw_acInitialize
<1>2. CASE AmfThreadRegisters
  <2>1. ThreadsOK'
    BY <1>0, <1>2 DEF AmfThreadRegisters, ThreadsOK
  <2> QED
    BY <1>2, <2>1 DEF AmfThreadRegisters
<1>3. CASE AmfThreadFailsToRegister
  <2>1. ThreadsOK'
    BY <1>0, <1>3 DEF AmfThreadFailsToRegister, ThreadsOK, thrVars
  <2> QED
    BY <1>3, <2>1 DEF AmfThreadFailsToRegister
<1>4. CASE maf_handle_events
  <2>1. QueueOK' /\ BatchOK'
    BY <1>0, <1>4, GetqKeepsQueue DEF maf_handle_events
  <2> QED
    BY <1>4, <2>1 DEF maf_handle_events
<1>5. CASE HandleTerminate
  <2>1. ThreadsOK'
    BY <1>0, <1>5 DEF HandleTerminate, ThreadsOK
  <2>2. BatchOK'
    BY <1>0, <1>5, HandlingTakesHead DEF HandleTerminate
  <2> QED
    BY <1>5, <2>1, <2>2 DEF HandleTerminate
<1>6. ASSUME NEW created \in BOOLEAN, maf_coremw_haModeAssumed_event(created)
      PROVE  Groups'
  <2> DEFINE event == Head(batch)
  <2>1. BatchOK' /\ event \in Event /\ event.type = "haModeAssumed"
    BY <1>0, <1>6, HandlingTakesHead DEF maf_coremw_haModeAssumed_event
  <2>2. HaOK'
    BY <1>0, <1>6 DEF maf_coremw_haModeAssumed_event, HaOK, RecordedMode
  <2>3. NtfOK'
    <3>1. \/ UNCHANGED ntfVars
          \/ /\ ntfPthread' = ntfPthread + 1
             /\ ntfLive' = ntfLive \cup {ntfPthread + 1}
             /\ ntfRunning' = TRUE
      BY <1>6 DEF maf_coremw_haModeAssumed_event
    <3>2. ntfPthread \in Nat /\ ntfLive \subseteq 1 .. ntfPthread
      BY <1>0 DEF NtfOK
    <3>3. ntfLive \cup {ntfPthread + 1} \subseteq 1 .. (ntfPthread + 1)
      BY <3>2
    <3>4. CASE UNCHANGED ntfVars
      BY <3>4
    <3>5. CASE ~UNCHANGED ntfVars
      <4>1. /\ ntfPthread' = ntfPthread + 1
            /\ ntfLive' = ntfLive \cup {ntfPthread + 1}
            /\ ntfRunning' = TRUE
        BY <3>1, <3>5
      <4>2. ntfPthread' \in Nat
        BY <3>2, <4>1
      <4>3. ntfLive' \subseteq 1 .. ntfPthread'
        BY <3>3, <4>1
      <4> QED
        BY <4>1, <4>2, <4>3 DEF NtfOK
    <3> QED
      BY <3>4, <3>5
  <2>4. HistoryOK'
    <3>1. event.inv \in Invocations
      BY <2>1 DEF Event
    <3> QED
      BY <1>0, <1>6, <3>1 DEF maf_coremw_haModeAssumed_event, HistoryOK
  <2>5. ThreadsOK' /\ AmfOK'
    <3>1. UNCHANGED <<issued, thrVars>>
      BY <1>6 DEF maf_coremw_haModeAssumed_event
    <3>2. CASE ~created
      BY <1>6, <3>1, <3>2 DEF maf_coremw_haModeAssumed_event, amfVars
    <3>3. CASE created /\ event.flags = 1
      <4>1. /\ saAmfCSIQuiescingComplete(event.inv, event.ok)
            /\ UNCHANGED <<process, pending, csiInv>>
        BY <1>6, <3>3 DEF maf_coremw_haModeAssumed_event, ModeAssumedAnswer
      <4> QED
        BY <1>0, <3>1, <4>1, QuiescingCompleteKeepsAmf
    <3>4. CASE created /\ event.flags # 1
      <4>1. saAmfResponse(event.inv, event.ok) /\ UNCHANGED quiescing
        BY <1>6, <3>4 DEF maf_coremw_haModeAssumed_event, ModeAssumedAnswer
      <4> QED
        BY <1>0, <3>1, <4>1, ResponseKeepsAmf
    <3> QED
      BY <3>2, <3>3, <3>4
  <2> QED
    BY <1>6, <2>1, <2>2, <2>3, <2>4, <2>5
    DEF maf_coremw_haModeAssumed_event
<1>7. CASE maf_coremw_healthCheckReport_event
  <2>1. BatchOK'
    BY <1>0, <1>7, HandlingTakesHead DEF maf_coremw_healthCheckReport_event
  <2>2. ThreadsOK' /\ AmfOK'
    <3>1. CASE Head(batch).flags = 0
      BY <1>0, <1>7, <3>1, ResponseKeepsAmf
      DEF maf_coremw_healthCheckReport_event
    <3>2. CASE Head(batch).flags # 0
      BY <1>7, <3>2 DEF maf_coremw_healthCheckReport_event, amfVars
    <3> QED
      BY <3>1, <3>2
  <2> QED
    BY <1>7, <2>1, <2>2 DEF maf_coremw_healthCheckReport_event
<1>8. CASE maf_coremw_prepareTerminationResponse_event
  <2>1. BatchOK'
    BY <1>0, <1>8, HandlingTakesHead
    DEF maf_coremw_prepareTerminationResponse_event
  <2>2. ThreadsOK' /\ AmfOK'
    BY <1>0, <1>8, ResponseKeepsAmf
    DEF maf_coremw_prepareTerminationResponse_event
  <2> QED
    BY <1>8, <2>1, <2>2 DEF maf_coremw_prepareTerminationResponse_event
<1>9. CASE AmfThreadEnds
  <2>1. ThreadsOK'
    BY <1>0, <1>9 DEF AmfThreadEnds, ThreadsOK
  <2> QED
    BY <1>9, <2>1 DEF AmfThreadEnds
<1>10. ASSUME NEW ha \in HaStates, NEW immOk \in BOOLEAN, CsiSet(ha, immOk)
       PROVE  Groups'
  BY <1>10, <1>p, CsiSetCallbackKeepsTypes DEF CsiSet, CsiStates
<1>11. CASE maf_amf_csi_remove_callback
  <2>1. CASE comHaState = "Unassigned"
    <3>1. AmfOK'
      <4>1. /\ issued' = issued + 1 /\ csiHa' = "NONE" /\ quiescing' = 0
            /\ UNCHANGED <<pending, csiInv>> /\ AmfMayCall
        BY <1>11, <2>1 DEF maf_amf_csi_remove_callback
      <4>2. pending' \subseteq 1 .. issued' /\ issued' \in 0 .. MaxInv
        BY <1>0, <4>1, NextInvocation DEF AmfOK
      <4>3. quiescing' \in 0 .. issued'
        BY <4>1, <4>2, ConstantsAssumption
      <4> QED
        BY <1>0, <4>1, <4>2, <4>3 DEF AmfOK, CsiStates
    <3> QED
      BY <1>11, <2>1, <3>1 DEF maf_amf_csi_remove_callback
  <2>2. CASE comHaState # "Unassigned"
    BY <1>11, <2>2, <1>p, CsiSetCallbackKeepsTypes
    DEF maf_amf_csi_remove_callback, CsiStates, HaStates
  <2> QED
    BY <2>1, <2>2
<1>12. CASE maf_amf_healthcheck_callback
  <2> DEFINE call == Call(maf_new_event("healthCheckReport", issued + 1, 0),
                          "Unassigned")
  <2> USE DEF maf_amf_healthcheck_callback
  <2>0. AmfMayCall
    BY <1>12
  <2>1. ComOK'
    <3>1. call \in Upcall
      BY <2>0, NewEvent, NextInvocation DEF Call, Upcall, HaModes
    <3>2. upcalls' \subseteq Upcall
      BY <1>0, <1>12, <3>1 DEF ComOK
    <3> QED
      BY <1>0, <1>12, <3>2 DEF ComOK
  <2>2. AmfOK'
    <3>1. pending' \in {pending, pending \cup {issued + 1}}
      BY <1>12
    <3>2. issued' = issued + 1 /\ UNCHANGED <<csiInv, csiHa, quiescing>>
      BY <1>12
    <3>3. /\ pending' \subseteq 1 .. issued' /\ quiescing' \in 0 .. issued'
          /\ issued' \in 0 .. MaxInv
      BY <1>0, <2>0, <3>1, <3>2, NextInvocation DEF AmfOK
    <3> QED
      BY <1>0, <3>1, <3>2, <3>3 DEF AmfOK
  <2> QED
    BY <1>12, <2>1, <2>2
<1>13. CASE maf_amf_comp_terminate_callback
  <2> DEFINE call == Call(maf_new_event("prepareTerminationResponse",
                                        issued + 1, 0), "Unassigned")
  <2> USE DEF maf_amf_comp_terminate_callback
  <2>0. AmfMayCall
    BY <1>13
  <2>1. ComOK'
    <3>1. call \in Upcall
      BY <2>0, NewEvent, NextInvocation DEF Call, Upcall, HaModes
    <3>2. upcalls' \subseteq Upcall
      BY <1>0, <1>13, <3>1 DEF ComOK
    <3> QED
      BY <1>0, <1>13, <3>2 DEF ComOK
  <2>2. AmfOK'
    <3>1. pending' \in {pending, pending \cup {issued + 1}}
      BY <1>13
    <3>2. issued' = issued + 1 /\ UNCHANGED <<csiInv, csiHa, quiescing>>
      BY <1>13
    <3>3. /\ pending' \subseteq 1 .. issued' /\ quiescing' \in 0 .. issued'
          /\ issued' \in 0 .. MaxInv
      BY <1>0, <2>0, <3>1, <3>2, NextInvocation DEF AmfOK
    <3> QED
      BY <1>0, <3>1, <3>2, <3>3 DEF AmfOK
  <2>3. ThreadsOK'
    BY <1>0, <1>13 DEF ThreadsOK, thrVars
  <2> QED
    BY <1>13, <2>1, <2>2, <2>3
<1>14. ASSUME NEW u \in upcalls, NEW ok \in BOOLEAN,
              \/ maf_coremw_haModeAssumed(u, ok)
              \/ maf_coremw_prepareTerminationResponse(u, ok)
              \/ maf_coremw_healthCheckReport(u, ok)
       PROVE  Groups'
  <2>1. /\ Answer(u, ok) /\ u.event.type # "Terminate"
        /\ comMode' \in {comMode, u.mode}
    BY <1>14 DEF maf_coremw_haModeAssumed, maf_coremw_healthCheckReport,
                 maf_coremw_prepareTerminationResponse
  <2>2. u \in Upcall
    BY <1>0 DEF ComOK
  <2>3. QueueOK'
    BY <1>0, <2>1, <2>2, AnsweredEvent, AddKeepsQueue DEF Answer
  <2>4. ComOK'
    <3>1. u.mode \in HaModes
      BY <2>2 DEF Upcall
    <3> QED
      BY <1>0, <2>1, <3>1 DEF Answer, ComOK
  <2> QED
    BY <2>1, <2>3, <2>4 DEF Answer
<1>15. ASSUME NEW ok \in BOOLEAN, SpontaneousHealthCheckReport(ok)
       PROVE  Groups'
  <2>1. QueueOK'
    BY <1>0, <1>15, OwnEvents, AddKeepsQueue DEF SpontaneousHealthCheckReport
  <2>2. ComOK'
    <3>1. issued \in 0 .. MaxInv /\ reports \in 0 .. MaxInv /\ MaxInv \in Nat
      BY <1>0, ConstantsAssumption DEF AmfOK, ComOK
    <3>2. issued + reports < MaxInv /\ reports' = reports + 1
      BY <1>15 DEF SpontaneousHealthCheckReport
    <3>3. reports' \in 0 .. MaxInv
      BY <3>1, <3>2
    <3> QED
      BY <1>0, <1>15, <3>3 DEF SpontaneousHealthCheckReport, ComOK
  <2> QED
    BY <1>15, <2>1, <2>2 DEF SpontaneousHealthCheckReport
<1>16. CASE StopBegins
  <2>1. ThreadsOK'
    BY <1>0, <1>16 DEF StopBegins, ThreadsOK
  <2>2. NtfOK'
    BY <1>0, <1>16 DEF StopBegins, NtfOK, ntfVars
  <2> QED
    BY <1>16, <2>1, <2>2 DEF StopBegins
<1>17. CASE StopTerminatesAmfThread
  <2>1. ThreadsOK'
    BY <1>0, <1>17 DEF StopTerminatesAmfThread, ThreadsOK
  <2>2. QueueOK'
    BY <1>0, <1>17, OwnEvents, AddKeepsQueue DEF StopTerminatesAmfThread
  <2> QED
    BY <1>17, <2>1, <2>2 DEF StopTerminatesAmfThread
<1>18. CASE StopJoinsAmfThread
  <2>1. ThreadsOK'
    BY <1>0, <1>18 DEF StopJoinsAmfThread, ThreadsOK
  <2> QED
    BY <1>18, <2>1 DEF StopJoinsAmfThread
<1>19. CASE mafLCMterminate
  <2>1. ThreadsOK'
    BY <1>0, <1>19 DEF mafLCMterminate, ThreadsOK
  <2>2. HaOK'
    BY <1>0, <1>19 DEF mafLCMterminate, HaOK
  <2> QED
    BY <1>19, <2>1, <2>2 DEF mafLCMterminate
<1>20. ASSUME NEW t \in ntfLive, NtfThreadLeaves(t)
       PROVE  Groups'
  <2>1. NtfOK'
    BY <1>0, <1>20 DEF NtfThreadLeaves, NtfOK
  <2> QED
    BY <1>20, <2>1 DEF NtfThreadLeaves
<1>21. CASE UNCHANGED vars
  BY <1>21 DEF vars
<1> QED
  BY <1>1, <1>2, <1>3, <1>4, <1>5, <1>6, <1>7, <1>8, <1>9, <1>10, <1>11,
     <1>12, <1>13, <1>14, <1>15, <1>16, <1>17, <1>18, <1>19, <1>20, <1>21
  DEF Next, AmfThreadRuns, HandleEvent, AmfCalls, ComAnswers, StopRuns

(***************************************************************************)
(* The variables of ComSAAc.c, the event queue and the batch in            *)
(* particular, keep values of their types, in every behaviour.             *)
(***************************************************************************)
THEOREM TypeCorrect == Spec => []TypeOK
  BY TypeInit, TypeNext, PTL DEF Spec

----------------------------------------------------------------------------
(***************************************************************************)
(* The queue.                                                              *)
(***************************************************************************)
\* A step leaves the queue alone, adds an event or takes all events.
LEMMA QueueSteps ==
    ASSUME TypeOK, [Next]_vars
    PROVE  \/ UNCHANGED qVars
           \/ \E event \in Event : maf_event_add(event)
           \/ maf_event_getq
<1> DEFINE Goal == \/ UNCHANGED qVars
                   \/ \E event \in Event : maf_event_add(event)
                   \/ maf_event_getq
<1>1. ASSUME NEW u \in upcalls, NEW ok \in BOOLEAN,
             \/ maf_coremw_haModeAssumed(u, ok)
             \/ maf_coremw_prepareTerminationResponse(u, ok)
             \/ maf_coremw_healthCheckReport(u, ok)
      PROVE  Goal
  <2>1. Answer(u, ok) /\ u.event.type # "Terminate"
    BY <1>1 DEF maf_coremw_haModeAssumed, maf_coremw_healthCheckReport,
                maf_coremw_prepareTerminationResponse
  <2>2. u \in Upcall
    BY DEF TypeOK
  <2> QED
    BY <2>1, <2>2, AnsweredEvent DEF Answer
<1>2. ASSUME NEW ok \in BOOLEAN, SpontaneousHealthCheckReport(ok) PROVE Goal
  BY <1>2, OwnEvents DEF SpontaneousHealthCheckReport
<1>3. CASE StopTerminatesAmfThread
  BY <1>3, OwnEvents DEF StopTerminatesAmfThread
<1>4. CASE maf_handle_events
  BY <1>4 DEF maf_handle_events
<1>5. CASE AmfThreadRegisters \/ AmfThreadFailsToRegister \/ AmfThreadEnds
  BY <1>5 DEF AmfThreadRegisters, AmfThreadFailsToRegister, AmfThreadEnds
<1>6. CASE HandleEvent
  BY <1>6 DEF HandleEvent, HandleTerminate, maf_coremw_haModeAssumed_event,
              maf_coremw_healthCheckReport_event,
              maf_coremw_prepareTerminationResponse_event
<1>7. CASE AmfCalls
  BY <1>7 DEF AmfCalls, CsiSet, maf_amf_csi_set_callback,
              maf_amf_csi_remove_callback, maf_amf_healthcheck_callback,
              maf_amf_comp_terminate_callback
<1>8. CASE StopBegins \/ StopJoinsAmfThread \/ mafLCMterminate
  BY <1>8 DEF StopBegins, StopJoinsAmfThread, mafLCMterminate
<1>9. ASSUME NEW callbacks \in BOOLEAN, maf_coremw_acInitialize(callbacks)
      PROVE  Goal
  BY <1>9 DEF maf_coremw_acInitialize
<1>10. ASSUME NEW t \in ntfLive, NtfThreadLeaves(t) PROVE Goal
  BY <1>10 DEF NtfThreadLeaves
<1>11. CASE UNCHANGED vars
  BY <1>11 DEF vars
<1> QED
  BY <1>1, <1>2, <1>3, <1>4, <1>5, <1>6, <1>7, <1>8, <1>9, <1>10, <1>11
  DEF Next, AmfThreadRuns, ComAnswers, StopRuns

\* Adding to the queue and taking it whole keep the pipe and it together.
LEMMA PipeNext == TypeOK /\ PipeMirrorsQueue /\ [Next]_vars => PipeMirrorsQueue'
<1> SUFFICES ASSUME TypeOK, PipeMirrorsQueue, [Next]_vars
             PROVE  PipeMirrorsQueue'
  OBVIOUS
<1>0. eventq \in Seq(Event)
  BY DEF TypeOK
<1>1. CASE UNCHANGED qVars
  BY <1>1 DEF qVars, PipeMirrorsQueue
<1>2. ASSUME NEW event \in Event, maf_event_add(event)
      PROVE  PipeMirrorsQueue'
  <2>1. Append(eventq, event) # <<>>
    <3>1. Len(Append(eventq, event)) = Len(eventq) + 1 /\ Len(eventq) \in Nat
      BY <1>0
    <3>2. Len(<<>>) = 0
      OBVIOUS
    <3> QED
      BY <3>1, <3>2
  <2> QED
    BY <1>2, <2>1 DEF maf_event_add, PipeMirrorsQueue
<1>3. CASE maf_event_getq
  BY <1>3 DEF maf_event_getq, PipeMirrorsQueue
<1> QED
  BY <1>1, <1>2, <1>3, QueueSteps

(***************************************************************************)
(* No wake-up of the amf thread is lost and none is spurious: event_pipe   *)
(* holds one character exactly while events wait, whatever COM, the stop   *)
(* procedure and the amf thread do at the same time.                       *)
(***************************************************************************)
THEOREM PipeCorrect == Spec => []PipeMirrorsQueue
<1>1. Init => PipeMirrorsQueue
  BY DEF Init, PipeMirrorsQueue
<1> QED
  BY <1>1, TypeCorrect, PipeNext, PTL DEF Spec

----------------------------------------------------------------------------
(***************************************************************************)
(* No invocation is lost on its way through COM, the queue and the batch.  *)
(***************************************************************************)
\* The elements of the sequences the queue operations make.
LEMMA ElementsOfAppend ==
    ASSUME NEW seq \in Seq(Event), NEW event \in Event
    PROVE  Elements(seq) \cup {event} \subseteq Elements(Append(seq, event))
<1> DEFINE longer == Append(seq, event)
<1>1. /\ DOMAIN seq = 1 .. Len(seq) /\ Len(seq) \in Nat
      /\ DOMAIN longer = 1 .. (Len(seq) + 1)
  OBVIOUS
<1>2. /\ \A k \in 1 .. Len(seq) : longer[k] = seq[k]
      /\ longer[Len(seq) + 1] = event
  OBVIOUS
<1>3. ASSUME NEW k \in 1 .. Len(seq) PROVE k \in DOMAIN longer
  BY <1>1
<1>4. Len(seq) + 1 \in DOMAIN longer
  BY <1>1
<1> HIDE DEF longer
<1>5. Elements(seq) \subseteq Elements(longer)
  BY <1>1, <1>2, <1>3 DEF Elements
<1>6. event \in Elements(longer)
  BY <1>2, <1>4 DEF Elements
<1> QED
  BY <1>5, <1>6 DEF longer

\* An event of a queue is its first or one behind it.
LEMMA ElementsOfTail ==
    ASSUME NEW seq \in Seq(Event), seq # <<>>
    PROVE  Elements(seq) \subseteq {Head(seq)} \cup Elements(Tail(seq))
<1> DEFINE rest == Tail(seq)
<1>1. SUFFICES ASSUME NEW k \in DOMAIN seq, k # 1
               PROVE  seq[k] \in Elements(rest)
  BY DEF Elements
<1>2. /\ Len(seq) \in Nat /\ k \in 1 .. Len(seq)
      /\ DOMAIN rest = 1 .. (Len(seq) - 1)
  OBVIOUS
<1>3. k - 1 \in DOMAIN rest
  BY <1>1, <1>2
<1>4. rest[k - 1] = seq[k]
  BY <1>1, <1>2
<1> HIDE DEF rest
<1> QED
  BY <1>3, <1>4 DEF Elements

\* A step that keeps all events, and carries what it makes pending.
LEMMA MoreEvents ==
    ASSUME NoInvocationLost, UNCHANGED unanswered, InFlight \subseteq InFlight',
           \A i \in pending' \ pending : \E e \in InFlight' :
               e.inv = i /\ e.flags = 0
    PROVE  NoInvocationLost'
  BY DEF NoInvocationLost

\* A step that handles the first event of the batch.
LEMMA EventHandled ==
    ASSUME TypeOK, NoInvocationLost, NEW type, Handling(type),
           UNCHANGED <<upcalls, eventq>>,
           pending' \subseteq pending, unanswered \subseteq unanswered',
           Head(batch).flags = 0 => \/ Head(batch).inv \notin pending'
                                    \/ Head(batch).inv \in unanswered'
    PROVE  NoInvocationLost'
<1>1. batch \in Seq(Event) /\ batch # <<>> /\ batch' = Tail(batch)
  BY DEF TypeOK, Handling
<1>2. InFlight \subseteq {Head(batch)} \cup InFlight'
  BY <1>1, ElementsOfTail DEF InFlight
<1> QED
  BY <1>2 DEF NoInvocationLost

\* An up-call that carries the invocation it makes pending.
LEMMA CallMade ==
    ASSUME NoInvocationLost, NEW inv,
           UNCHANGED <<unanswered, eventq, batch>>, upcalls \subseteq upcalls',
           pending' \subseteq pending \cup {inv},
           inv \in pending' \ pending => \E u \in upcalls' :
               u.event.inv = inv /\ u.event.flags = 0
    PROVE  NoInvocationLost'
<1>1. InFlight \subseteq InFlight'
  BY DEF InFlight
<1>2. ASSUME NEW i \in pending' \ pending
      PROVE  \E e \in InFlight' : e.inv = i /\ e.flags = 0
  BY <1>2 DEF InFlight
<1> QED
  BY <1>1, <1>2, MoreEvents

\* A CSI assignment is pending only if COM has been asked for its answer.
LEMMA CsiSetCallbackLosesNone ==
    ASSUME NoInvocationLost, NEW inv, NEW state, NEW ha, NEW immOk,
           maf_amf_csi_set_callback(inv, state, ha, immOk)
    PROVE  NoInvocationLost'
<1> USE DEF maf_amf_csi_set_callback
<1>1. /\ UNCHANGED <<unanswered, eventq, batch>> /\ upcalls \subseteq upcalls'
      /\ pending' \subseteq pending \cup {inv}
  BY DEF qVars
<1>2. ASSUME inv \in pending' \ pending
      PROVE  \E u \in upcalls' : u.event.inv = inv /\ u.event.flags = 0
  <2> DEFINE call == Call(maf_new_event("haModeAssumed", inv, FlagsOf(ha)),
                          ModeOf(ha))
  <2>1. ~SameMode(ModeOf(ha)) /\ ha # "QUIESCING"
    BY <1>2
  <2>2. call \in upcalls'
    BY <2>1
  <2>3. call.event.inv = inv /\ call.event.flags = 0
    BY <2>1 DEF Call, maf_new_event, FlagsOf
  <2> HIDE DEF call
  <2> QED
    BY <2>2, <2>3
<1> QED
  BY <1>1, <1>2, CallMade

\* Every step keeps the invocations AMF waits for.
LEMMA NoInvocationLostNext ==
    TypeOK /\ NoInvocationLost /\ [Next]_vars => NoInvocationLost'
<1> SUFFICES ASSUME TypeOK, NoInvocationLost, [Next]_vars
             PROVE  NoInvocationLost'
  OBVIOUS
<1>1. CASE UNCHANGED <<upcalls, eventq, batch, pending, unanswered>>
  BY <1>1 DEF NoInvocationLost, InFlight
<1>2. CASE maf_handle_events
  <2>1. InFlight \subseteq InFlight'
    BY <1>2 DEF maf_handle_events, maf_event_getq, InFlight, Elements, comVars
  <2> QED
    BY <1>2, <2>1, MoreEvents DEF maf_handle_events, amfVars, histVars
<1>3. CASE HandleTerminate
  <2>1. Head(batch) \in Event /\ Head(batch).type = "Terminate"
    BY <1>3, HandlingTakesHead, TypeGroups DEF HandleTerminate
  <2>2. Head(batch).inv = 0
    BY <2>1 DEF Event
  <2>3. 0 \notin pending
    <3>1. pending \subseteq 1 .. issued /\ issued \in 0 .. MaxInv
      BY DEF TypeOK
    <3> QED
      BY <3>1, ConstantsAssumption
  <2> QED
    BY <1>3, <2>2, <2>3, EventHandled
    DEF HandleTerminate, comVars, qVars, amfVars, histVars
<1>4. ASSUME NEW created \in BOOLEAN, maf_coremw_haModeAssumed_event(created)
      PROVE  NoInvocationLost'
  <2>1. /\ Handling("haModeAssumed") /\ UNCHANGED <<upcalls, eventq>>
        /\ unanswered \subseteq unanswered'
    BY <1>4 DEF maf_coremw_haModeAssumed_event, comVars, qVars
  <2>2. CASE created
    <3>1. ModeAssumedAnswer(Head(batch))
      BY <1>4, <2>2 DEF maf_coremw_haModeAssumed_event
    <3>2. /\ pending' \subseteq pending
          /\ Head(batch).flags = 0 => Head(batch).inv \notin pending'
      <4>1. CASE Head(batch).flags = 1
        BY <3>1, <4>1 DEF ModeAssumedAnswer
      <4>2. CASE Head(batch).flags # 1
        <5>1. saAmfResponse(Head(batch).inv, Head(batch).ok)
          BY <3>1, <4>2 DEF ModeAssumedAnswer
        <5>2. pending' = pending \ {Head(batch).inv}
          BY <5>1 DEF saAmfResponse
        <5> QED
          BY <5>2
      <4> QED
        BY <4>1, <4>2
    <3> QED
      BY <2>1, <3>2, EventHandled
  <2>3. CASE ~created
    <3>1. Head(batch).inv \in unanswered' /\ UNCHANGED pending
      BY <1>4, <2>3 DEF maf_coremw_haModeAssumed_event
    <3> QED
      BY <2>1, <3>1, EventHandled
  <2> QED
    BY <2>2, <2>3
<1>5. CASE maf_coremw_healthCheckReport_event
  BY <1>5, EventHandled
  DEF maf_coremw_healthCheckReport_event, saAmfResponse, comVars, qVars,
      histVars
<1>6. CASE maf_coremw_prepareTerminationResponse_event
  BY <1>6, EventHandled
  DEF maf_coremw_prepareTerminationResponse_event, saAmfResponse, comVars,
      qVars, histVars
<1>7. ASSUME NEW ha \in HaStates, NEW immOk \in BOOLEAN, CsiSet(ha, immOk)
      PROVE  NoInvocationLost'
  BY <1>7, CsiSetCallbackLosesNone DEF CsiSet
<1>8. CASE maf_amf_csi_remove_callback
  <2>1. CASE comHaState = "Unassigned"
    BY <1>1, <1>8, <2>1
    DEF maf_amf_csi_remove_callback, comVars, qVars, histVars
  <2>2. CASE comHaState # "Unassigned"
    BY <1>8, <2>2, CsiSetCallbackLosesNone DEF maf_amf_csi_remove_callback
  <2> QED
    BY <2>1, <2>2
<1>9. CASE maf_amf_healthcheck_callback
  <2> DEFINE call == Call(maf_new_event("healthCheckReport", issued + 1, 0),
                          "Unassigned")
  <2>1. call.event.inv = issued + 1 /\ call.event.flags = 0
    BY DEF Call, maf_new_event
  <2>2. \/ pending' = pending /\ upcalls' = upcalls
        \/ /\ pending' = pending \cup {issued + 1}
           /\ upcalls' = upcalls \cup {call}
    BY <1>9 DEF maf_amf_healthcheck_callback
  <2> HIDE DEF call
  <2> QED
    BY <1>9, <2>1, <2>2, CallMade
    DEF maf_amf_healthcheck_callback, qVars, histVars
<1>10. CASE maf_amf_comp_terminate_callback
  <2> DEFINE call == Call(maf_new_event("prepareTerminationResponse",
                                        issued + 1, 0), "Unassigned")
  <2>1. call.event.inv = issued + 1 /\ call.event.flags = 0
    BY DEF Call, maf_new_event
  <2>2. \/ pending' = pending /\ upcalls' = upcalls
        \/ /\ pending' = pending \cup {issued + 1}
           /\ upcalls' = upcalls \cup {call}
    BY <1>10 DEF maf_amf_comp_terminate_callback
  <2> HIDE DEF call
  <2> QED
    BY <1>10, <2>1, <2>2, CallMade
    DEF maf_amf_comp_terminate_callback, qVars, histVars
<1>11. ASSUME NEW u \in upcalls, NEW ok \in BOOLEAN,
              \/ maf_coremw_haModeAssumed(u, ok)
              \/ maf_coremw_prepareTerminationResponse(u, ok)
              \/ maf_coremw_healthCheckReport(u, ok)
       PROVE  NoInvocationLost'
  <2> DEFINE event == [u.event EXCEPT !.ok = ok]
  <2>1. Answer(u, ok) /\ u.event.type # "Terminate"
    BY <1>11 DEF maf_coremw_haModeAssumed, maf_coremw_healthCheckReport,
                 maf_coremw_prepareTerminationResponse
  <2>2. u \in Upcall /\ eventq \in Seq(Event)
    BY DEF TypeOK
  <2>3. event \in Event /\ event.inv = u.event.inv
          /\ event.flags = u.event.flags
    BY <2>1, <2>2, AnsweredEvent
  <2>4. /\ upcalls' = upcalls \ {u} /\ eventq' = Append(eventq, event)
        /\ UNCHANGED <<batch, pending, unanswered>>
    BY <2>1 DEF Answer, maf_event_add, amfVars, histVars
  <2> HIDE DEF event
  <2>5. Elements(eventq) \cup {event} \subseteq Elements(eventq')
    BY <2>2, <2>3, <2>4, ElementsOfAppend
  <2>6. InFlight \subseteq {u.event} \cup InFlight' /\ event \in InFlight'
    BY <2>4, <2>5 DEF InFlight
  <2> QED
    BY <2>3, <2>4, <2>6 DEF NoInvocationLost
<1>12. ASSUME NEW event \in Event, maf_event_add(event),
              UNCHANGED <<upcalls, batch, pending, unanswered>>
       PROVE  NoInvocationLost'
  <2>1. Elements(eventq) \subseteq Elements(eventq')
    BY <1>12, ElementsOfAppend DEF maf_event_add, TypeOK
  <2>2. InFlight \subseteq InFlight'
    BY <1>12, <2>1 DEF InFlight
  <2> QED
    BY <1>12, <2>2, MoreEvents
<1>13. ASSUME NEW ok \in BOOLEAN, SpontaneousHealthCheckReport(ok)
       PROVE  NoInvocationLost'
  BY <1>12, <1>13, OwnEvents
  DEF SpontaneousHealthCheckReport, amfVars, histVars
<1>14. CASE StopTerminatesAmfThread
  BY <1>1, <1>12, <1>14, OwnEvents
  DEF StopTerminatesAmfThread, amfVars, histVars, comVars, qVars
<1>15. CASE \/ AmfThreadRegisters \/ AmfThreadFailsToRegister
            \/ AmfThreadEnds \/ StopBegins \/ StopJoinsAmfThread
            \/ mafLCMterminate \/ UNCHANGED vars
            \/ \E callbacks \in BOOLEAN : maf_coremw_acInitialize(callbacks)
            \/ \E t \in ntfLive : NtfThreadLeaves(t)
  BY <1>1, <1>15
  DEF AmfThreadRegisters, AmfThreadFailsToRegister, AmfThreadEnds, StopBegins,
      StopJoinsAmfThread, mafLCMterminate, maf_coremw_acInitialize,
      NtfThreadLeaves, vars, amfVars, histVars, comVars, qVars
<1> QED
  BY <1>2, <1>3, <1>4, <1>5, <1>6, <1>7, <1>8, <1>9, <1>10, <1>11, <1>13,
     <1>14, <1>15
  DEF Next, AmfThreadRuns, HandleEvent, AmfCalls, ComAnswers, StopRuns

(***************************************************************************)
(* Every invocation AMF waits for is carried by an event that will be      *)
(* answered, in every interleaving of AMF's callbacks, COM's answers, the  *)
(* amf thread's event handling and the stop procedure; the ones dropped    *)
(* when the ntf thread could not be created are the only exception.        *)
(***************************************************************************)
THEOREM InvocationsCarried == Spec => []NoInvocationLost
<1>1. Init => NoInvocationLost
  BY DEF Init, NoInvocationLost
<1> QED
  BY <1>1, TypeCorrect, NoInvocationLostNext, PTL DEF Spec

=============================================================================
