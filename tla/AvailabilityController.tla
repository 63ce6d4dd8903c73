----------------------- MODULE AvailabilityController -----------------------
(***************************************************************************)
(* The availability controller of COM SA (ac/ComSAAc.c).                   *)
(*                                                                         *)
(* AMF (the OpenSAF availability framework) calls the amf thread, which    *)
(* turns each call into an up-call to COM.  COM answers later, from a      *)
(* thread of its own, by putting the event object that stands for the      *)
(* up-call on a queue and waking the amf thread through a pipe; the amf    *)
(* thread then answers AMF.  The COM main thread may stop the component at *)
(* any time, joining the notification (ntf) thread and the amf thread.     *)
(*                                                                         *)
(* Threads: the amf thread (all the AMF callbacks and event handlers run   *)
(* on it), COM (answers and the stop procedure), the ntf threads.  The     *)
(* queue operations hold eventq_lock, so each is one step.                 *)
(***************************************************************************)
EXTENDS Naturals, Sequences, FiniteSets

CONSTANTS
    MaxInv,               \* bound: invocations of AMF and reports of COM
    QuiescingInterrupted, \* may AMF give a new CSI before QuiescingComplete?
    Lm                    \* _CC_NAME is "lm" rather than "com"

ASSUME ConstantsAssumption ==
    /\ MaxInv \in Nat
    /\ QuiescingInterrupted \in BOOLEAN
    /\ Lm \in BOOLEAN

VARIABLES
    process,        \* "up", or how the process ended
    acCallbacks,    \* maf_acCallbacks # NULL
    amfThread,      \* the amf thread: "none", "starting", "polling", "ended"
    amfRunning,     \* amf_pthread_isrunning
    stopThread,     \* stop_thread
    eventq,         \* maf_eventq_head .. maf_eventq_tail
    pipe,           \* characters in event_pipe
    batch,          \* events taken by maf_event_getq and not yet handled
    comHaState,     \* maf_com_ha_state
    newComHaState,  \* maf_new_com_ha_state
    alertalarm,     \* the alarm, command and security logs were opened
    ntfRunning,     \* ntf_pthread_isrunning
    ntfPthread,     \* ntf_pthread: the ntf thread created last (0: none)
    ntfLive,        \* the ntf threads that still poll
    stopPc,         \* where maf_coremw_stop is
    upcalls,        \* COM: up-calls not yet answered
    comMode,        \* COM: the HA mode it has assumed
    reports,        \* COM: spontaneous health reports sent
    pending,        \* AMF: invocations not yet responded to
    csiInv,         \* AMF: the pending CSI assignment or removal (0: none)
    csiHa,          \* AMF: the HA state it last assigned
    quiescing,      \* AMF: the invocation whose quiescing is not complete
    issued,         \* AMF: number of invocations issued
    immFailed,      \* history: ObjImp_init_imm has failed
    unanswered      \* history: invocations dropped by an early return

amfVars  == <<pending, csiInv, csiHa, quiescing, issued>>
comVars  == <<upcalls, comMode, reports>>
haVars   == <<comHaState, newComHaState, alertalarm>>
ntfVars  == <<ntfRunning, ntfPthread, ntfLive>>
qVars    == <<eventq, pipe>>
thrVars  == <<acCallbacks, amfThread, amfRunning, stopThread, stopPc>>
histVars == <<immFailed, unanswered>>
vars == <<process, batch, amfVars, comVars, haVars, ntfVars, qVars, thrVars,
          histVars>>

Invocations == 1 .. MaxInv
HaModes     == {"Unassigned", "Active", "Standby"}
HaStates    == {"ACTIVE", "STANDBY", "QUIESCED", "QUIESCING"}
CsiStates   == HaStates \cup {"NONE", "FAILED"}

(***************************************************************************)
(* struct maf_CoremwEvent.  Flag 1 marks an event whose invocation needs   *)
(* no response: the quiescing that was answered at once, and the health    *)
(* report COM sends on its own.  "ok" is error = MafOk.                    *)
(***************************************************************************)
Event ==
    [type : {"healthCheckReport", "haModeAssumed",
             "prepareTerminationResponse"},
     inv : Invocations, flags : {0, 1}, ok : BOOLEAN]
    \cup [type : {"healthCheckReport"}, inv : {0}, flags : {1}, ok : BOOLEAN]
    \cup [type : {"Terminate"}, inv : {0}, flags : {0}, ok : {TRUE}]

\* An up-call COM has not answered: its event and the mode of setHaMode.
Upcall == [event : Event, mode : HaModes]

maf_new_event(type, inv, flags) ==
    [type |-> type, inv |-> inv, flags |-> flags, ok |-> TRUE]

Call(event, mode) == [event |-> event, mode |-> mode]

\* Mutant: the spontaneous report is created like one that AMF waits for.
SpontaneousEventUnflagged == maf_new_event("healthCheckReport", 0, 0)

\* The event of a health report COM sends on its own.
SpontaneousEvent == maf_new_event("healthCheckReport", 0, 1)

Up == process = "up"

----------------------------------------------------------------------------
(***************************************************************************)
(* The event queue.  Both operations run under eventq_lock.                *)
(***************************************************************************)
\* Mutant: a second event is not linked behind the first.
EventAddUnlinked(event) ==
    /\ eventq' = <<event>>
    /\ pipe' = IF eventq = <<>> THEN pipe + 1 ELSE pipe

\* Mutant: no character is written when the queue was empty.
EventAddNoWakeUp(event) ==
    /\ eventq' = Append(eventq, event)
    /\ pipe' = pipe

maf_event_add(event) ==
    /\ eventq' = Append(eventq, event)
    /\ pipe' = IF eventq = <<>> THEN pipe + 1 ELSE pipe

\* Mutant: one event is taken although the pipe is emptied.
GetqTakesOne ==
    /\ batch' = SubSeq(eventq, 1, 1)
    /\ eventq' = Tail(eventq)
    /\ pipe' = 0

\* The pipe is read with a 16 character buffer.
maf_event_getq ==
    /\ batch' = eventq
    /\ eventq' = <<>>
    /\ pipe' = IF pipe > 16 THEN pipe - 16 ELSE 0

----------------------------------------------------------------------------
(***************************************************************************)
(* Answers to AMF.  Responding to an invocation AMF does not wait for      *)
(* fails, and saAmfResponse_wrapper then leaves the process with err_quit. *)
(* A failed CSI assignment makes AMF give the component up.                *)
(***************************************************************************)
saAmfResponse(inv, ok) ==
    /\ process' = IF inv \in pending THEN process ELSE "response failed"
    /\ pending' = pending \ {inv}
    /\ csiInv' = IF csiInv = inv THEN 0 ELSE csiInv
    /\ csiHa' = IF csiInv = inv /\ ~ok THEN "FAILED" ELSE csiHa

saAmfCSIQuiescingComplete(inv, ok) ==
    /\ quiescing' = IF quiescing = inv THEN 0 ELSE quiescing
    /\ csiHa' = IF quiescing = inv /\ ~ok THEN "FAILED" ELSE csiHa

----------------------------------------------------------------------------
Init ==
    /\ process = "up"
    /\ acCallbacks = FALSE
    /\ amfThread = "none"
    /\ amfRunning = FALSE
    /\ stopThread = FALSE
    /\ eventq = <<>>
    /\ pipe = 0
    /\ batch = <<>>
    /\ comHaState = "Unassigned"
    /\ newComHaState = "Unassigned"
    /\ alertalarm = FALSE
    /\ ntfRunning = FALSE
    /\ ntfPthread = 0
    /\ ntfLive = {}
    /\ stopPc = "idle"
    /\ upcalls = {}
    /\ comMode = "Unassigned"
    /\ reports = 0
    /\ pending = {}
    /\ csiInv = 0
    /\ csiHa = "NONE"
    /\ quiescing = 0
    /\ issued = 0
    /\ immFailed = FALSE
    /\ unanswered = {}

----------------------------------------------------------------------------
(***************************************************************************)
(* Start of the component: maf_coremw_acInitialize, called once by COM,    *)
(* stores the callbacks COM gave (perhaps NULL) and creates the amf thread,*)
(* which registers with AMF before it polls.  An AMF call that fails there *)
(* ends the process.                                                       *)
(***************************************************************************)
maf_coremw_acInitialize(callbacks) ==
    /\ Up /\ amfThread = "none" /\ stopPc = "idle"
    /\ acCallbacks' = callbacks
    /\ amfThread' = "starting"
    /\ amfRunning' = TRUE
    /\ UNCHANGED <<process, batch, stopThread, stopPc, amfVars, comVars,
                   haVars, ntfVars, qVars, histVars>>

AmfThreadRegisters ==
    /\ Up /\ amfThread = "starting"
    /\ amfThread' = "polling"
    /\ UNCHANGED <<process, batch, acCallbacks, amfRunning, stopThread,
                   stopPc, amfVars, comVars, haVars, ntfVars, qVars, histVars>>

AmfThreadFailsToRegister ==
    /\ Up /\ amfThread = "starting"
    /\ process' = "start failed"
    /\ UNCHANGED <<batch, thrVars, amfVars, comVars, haVars, ntfVars, qVars,
                   histVars>>

\* The poll loop is left only between two calls of poll_execute.
AmfThreadEnds ==
    /\ Up /\ amfThread = "polling" /\ batch = <<>> /\ stopThread
    /\ amfThread' = "ended"
    /\ UNCHANGED <<process, batch, acCallbacks, amfRunning, stopThread,
                   stopPc, amfVars, comVars, haVars, ntfVars, qVars, histVars>>

\* AMF may call: the thread polls, handles no event and AMF may go on.
AmfMayCall ==
    /\ Up /\ amfThread = "polling" /\ batch = <<>> /\ ~stopThread
    /\ issued + reports < MaxInv

(***************************************************************************)
(* AMF gives one CSI assignment or removal at a time; whether it waits for *)
(* the end of a quiescing is QuiescingInterrupted.                         *)
(***************************************************************************)
CsiMayChange ==
    /\ csiInv = 0
    /\ csiHa # "FAILED"
    /\ quiescing = 0 \/ QuiescingInterrupted

CsiFollows(ha) ==
    CASE ha = "ACTIVE"    -> csiHa \in {"NONE", "STANDBY", "QUIESCED",
                                        "QUIESCING"}
      [] ha = "STANDBY"   -> csiHa \in {"NONE", "QUIESCED"}
      [] ha = "QUIESCED"  -> csiHa \in {"ACTIVE", "QUIESCING"}
      [] ha = "QUIESCING" -> csiHa = "ACTIVE"

\* The mode of COM that each HA state of AMF asks for.
ModeOf(ha) == CASE ha = "ACTIVE"  -> "Active"
                [] ha = "STANDBY" -> "Standby"
                [] OTHER          -> "Unassigned"

\* Mutant: a transition to the mode COM is in is passed on to COM.
SameModeUnchecked(mode) == ~acCallbacks

\* COM is not asked: there is nobody to ask, or it is in that mode already.
SameMode(mode) == ~acCallbacks \/ comHaState = mode

\* Mutant: the event of a quiescing is like that of any other assignment.
FlagsAlwaysZero(ha) == 0

\* A quiescing is responded to before COM is asked.
FlagsOf(ha) == IF ha = "QUIESCING" THEN 1 ELSE 0

(***************************************************************************)
(* maf_amf_csi_set_callback.  "state" is the HA state AMF records, "ha"    *)
(* the one the callback is given.  When the object implementers cannot be  *)
(* initialised the code asks COM to prepare for termination with the same  *)
(* invocation and goes on.                                                 *)
(***************************************************************************)
maf_amf_csi_set_callback(inv, state, ha, immOk) ==
    LET mode     == ModeOf(ha)
        same     == SameMode(mode)
        immCall  == IF immOk THEN {}
                    ELSE {Call(maf_new_event("prepareTerminationResponse",
                                             inv, 0), "Unassigned")}
        modeCall == IF same THEN {}
                    ELSE {Call(maf_new_event("haModeAssumed", inv,
                                             FlagsOf(ha)),
                               mode)}
    IN  /\ issued' = inv
        /\ newComHaState' = mode
        /\ alertalarm' = (alertalarm \/ (ha = "ACTIVE" /\ ~Lm))
        /\ immFailed' = (immFailed \/ ~immOk)
        /\ upcalls' = upcalls \cup immCall \cup modeCall
        /\ process' = IF immOk \/ acCallbacks THEN process ELSE "crashed"
        /\ csiHa' = state
        /\ IF same \/ ha = "QUIESCING"
           THEN UNCHANGED <<pending, csiInv>>
           ELSE pending' = pending \cup {inv} /\ csiInv' = inv
        /\ quiescing' = IF ha = "QUIESCING" /\ ~same THEN inv ELSE 0
        /\ UNCHANGED <<batch, comHaState, comMode, reports, ntfVars, qVars,
                       thrVars, unanswered>>

CsiSet(ha, immOk) ==
    /\ AmfMayCall /\ CsiMayChange /\ CsiFollows(ha)
    /\ ha # "ACTIVE" => immOk
    /\ maf_amf_csi_set_callback(issued + 1, ha, ha, immOk)

\* An active or standby load that is removed is handled as QUIESCED.
maf_amf_csi_remove_callback ==
    /\ AmfMayCall /\ CsiMayChange /\ csiHa # "NONE"
    /\ IF comHaState = "Unassigned"
       THEN /\ issued' = issued + 1
            /\ csiHa' = "NONE"
            /\ quiescing' = 0
            /\ UNCHANGED <<process, batch, pending, csiInv, comVars, haVars,
                           ntfVars, qVars, thrVars, histVars>>
       ELSE maf_amf_csi_set_callback(issued + 1, "NONE", "QUIESCED", TRUE)

maf_amf_healthcheck_callback ==
    LET inv == issued + 1
        call == Call(maf_new_event("healthCheckReport", inv, 0), "Unassigned")
    IN  /\ AmfMayCall
        /\ issued' = inv
        /\ IF acCallbacks
           THEN pending' = pending \cup {inv} /\ upcalls' = upcalls \cup {call}
           ELSE UNCHANGED <<pending, upcalls>>
        /\ UNCHANGED <<process, batch, csiInv, csiHa, quiescing, comMode,
                       reports, haVars, ntfVars, qVars, thrVars, histVars>>

maf_amf_comp_terminate_callback ==
    LET inv == issued + 1
        call == Call(maf_new_event("prepareTerminationResponse", inv, 0),
                     "Unassigned")
    IN  /\ AmfMayCall
        /\ issued' = inv
        /\ IF acCallbacks
           THEN /\ pending' = pending \cup {inv}
                /\ upcalls' = upcalls \cup {call}
                /\ UNCHANGED process
           ELSE /\ process' = "forced termination"
                /\ UNCHANGED <<pending, upcalls>>
        /\ UNCHANGED <<batch, csiInv, csiHa, quiescing, comMode, reports,
                       haVars, ntfVars, qVars, thrVars, histVars>>

----------------------------------------------------------------------------
(***************************************************************************)
(* COM answers an up-call, from any of its threads.  COM answers each      *)
(* up-call once and with the function that belongs to it (a mismatch would *)
(* end the process); a mode it accepts is the mode it has assumed.         *)
(***************************************************************************)
Answer(u, ok) ==
    /\ Up /\ u \in upcalls
    /\ upcalls' = upcalls \ {u}
    /\ maf_event_add([u.event EXCEPT !.ok = ok])
    /\ UNCHANGED <<process, batch, reports, amfVars, haVars, ntfVars, thrVars,
                   histVars>>

maf_coremw_haModeAssumed(u, ok) ==
    /\ u.event.type = "haModeAssumed"
    /\ Answer(u, ok)
    /\ comMode' = IF ok THEN u.mode ELSE comMode

maf_coremw_prepareTerminationResponse(u, ok) ==
    /\ u.event.type = "prepareTerminationResponse"
    /\ Answer(u, ok)
    /\ UNCHANGED comMode

maf_coremw_healthCheckReport(u, ok) ==
    /\ u.event.type = "healthCheckReport"
    /\ Answer(u, ok)
    /\ UNCHANGED comMode

\* invocation = COM_INITIATED_INVOCATION: there is no up-call to answer.
SpontaneousHealthCheckReport(ok) ==
    /\ Up /\ amfThread # "none" /\ issued + reports < MaxInv
    /\ reports' = reports + 1
    /\ maf_event_add([SpontaneousEvent EXCEPT !.ok = ok])
    /\ UNCHANGED <<process, batch, upcalls, comMode, amfVars, haVars, ntfVars,
                   thrVars, histVars>>

----------------------------------------------------------------------------
(***************************************************************************)
(* The amf thread handles events: it takes the whole queue when the pipe   *)
(* is readable and then handles the batch, one event after the other,      *)
(* before it polls again.                                                  *)
(***************************************************************************)
maf_handle_events ==
    /\ Up /\ amfThread = "polling" /\ batch = <<>> /\ ~stopThread
    /\ pipe > 0
    /\ maf_event_getq
    /\ UNCHANGED <<process, amfVars, comVars, haVars, ntfVars, thrVars,
                   histVars>>

Handling(type) ==
    /\ Up /\ batch # <<>>
    /\ Head(batch).type = type
    /\ batch' = Tail(batch)

\* Mutant: the terminate event is consumed without effect.
TerminateIgnored ==
    /\ Handling("Terminate")
    /\ UNCHANGED <<process, thrVars, amfVars, comVars, haVars, ntfVars, qVars,
                   histVars>>

HandleTerminate ==
    /\ Handling("Terminate")
    /\ stopThread' = TRUE
    /\ UNCHANGED <<process, acCallbacks, amfThread, amfRunning, stopPc,
                   amfVars, comVars, haVars, ntfVars, qVars, histVars>>

\* What maf_coremw_haModeAssumed_event tells AMF once COM has answered.
ModeAssumedAnswer(event) ==
    IF event.flags = 1
    THEN /\ saAmfCSIQuiescingComplete(event.inv, event.ok)
         /\ UNCHANGED <<process, pending, csiInv>>
    ELSE /\ saAmfResponse(event.inv, event.ok)
         /\ UNCHANGED quiescing

\* Mutant: the mode is recorded even if COM refused it.
ModeRecordedOnError(event) == newComHaState

\* The mode recorded for COM once it has answered.
RecordedMode(event) == IF event.ok THEN newComHaState ELSE comHaState

(***************************************************************************)
(* maf_coremw_haModeAssumed_event.  The mode that is recorded is the one   *)
(* of the last CSI assignment, not the one this event was created for.  On *)
(* Active an ntf thread is created; when that fails the handler returns    *)
(* without an answer to AMF.                                               *)
(***************************************************************************)
maf_coremw_haModeAssumed_event(created) ==
    LET event  == Head(batch)
        active == event.ok /\ newComHaState = "Active"
        thread == ntfPthread + 1
    IN  /\ Handling("haModeAssumed")
        /\ active \/ created
        /\ comHaState' = RecordedMode(event)
        /\ IF active /\ created
           THEN /\ ntfPthread' = thread
                /\ ntfLive' = ntfLive \cup {thread}
                /\ ntfRunning' = TRUE
           ELSE UNCHANGED ntfVars
        /\ IF created
           THEN ModeAssumedAnswer(event) /\ UNCHANGED unanswered
           ELSE /\ unanswered' = unanswered \cup {event.inv}
                /\ UNCHANGED <<process, pending, csiInv, csiHa, quiescing>>
        /\ UNCHANGED <<newComHaState, alertalarm, issued, immFailed, comVars,
                       qVars, thrVars>>

\* With flag 1 the report goes to saAmfComponentErrorReport.
maf_coremw_healthCheckReport_event ==
    LET event == Head(batch)
    IN  /\ Handling("healthCheckReport")
        /\ IF event.flags = 0
           THEN saAmfResponse(event.inv, event.ok)
           ELSE UNCHANGED <<process, pending, csiInv, csiHa>>
        /\ UNCHANGED <<quiescing, issued, comVars, haVars, ntfVars, qVars,
                       thrVars, histVars>>

\* terminateProcess only tells COM to stop its components.
maf_coremw_prepareTerminationResponse_event ==
    LET event == Head(batch)
    IN  /\ Handling("prepareTerminationResponse")
        /\ saAmfResponse(event.inv, event.ok)
        /\ UNCHANGED <<quiescing, issued, comVars, haVars, ntfVars, qVars,
                       thrVars, histVars>>

----------------------------------------------------------------------------
(***************************************************************************)
(* maf_coremw_stop, on the COM main thread: join the ntf thread if one is  *)
(* recorded, have the amf thread terminate, join it, forget the callbacks. *)
(***************************************************************************)
StopBegins ==
    /\ Up /\ stopPc = "idle"
    /\ stopPc' = "terminate amf"
    /\ IF ntfRunning
       THEN /\ ntfLive' = ntfLive \ {ntfPthread}
            /\ ntfRunning' = FALSE
            /\ UNCHANGED ntfPthread
       ELSE UNCHANGED ntfVars
    /\ UNCHANGED <<process, batch, acCallbacks, amfThread, amfRunning,
                   stopThread, amfVars, comVars, haVars, qVars, histVars>>

\* Mutant: the callbacks are forgotten before the amf thread is joined.
StopForgetsCallbacksFirst ==
    /\ Up /\ stopPc = "terminate amf"
    /\ acCallbacks' = FALSE
    /\ IF amfRunning
       THEN /\ maf_event_add(maf_new_event("Terminate", 0, 0))
            /\ stopPc' = "join amf"
       ELSE stopPc' = "done" /\ UNCHANGED qVars
    /\ UNCHANGED <<process, batch, amfThread, amfRunning, stopThread, amfVars,
                   comVars, haVars, ntfVars, histVars>>

StopTerminatesAmfThread ==
    /\ Up /\ stopPc = "terminate amf"
    /\ IF amfRunning
       THEN /\ maf_event_add(maf_new_event("Terminate", 0, 0))
            /\ stopPc' = "join amf"
            /\ UNCHANGED acCallbacks
       ELSE /\ acCallbacks' = FALSE
            /\ stopPc' = "done"
            /\ UNCHANGED qVars
    /\ UNCHANGED <<process, batch, amfThread, amfRunning, stopThread, amfVars,
                   comVars, haVars, ntfVars, histVars>>

StopJoinsAmfThread ==
    /\ Up /\ stopPc = "join amf" /\ amfThread = "ended"
    /\ amfRunning' = FALSE
    /\ acCallbacks' = FALSE
    /\ stopPc' = "done"
    /\ UNCHANGED <<process, batch, amfThread, stopThread, amfVars, comVars,
                   haVars, ntfVars, qVars, histVars>>

\* mafLCMterminate: the logs opened by an active assignment are closed.
mafLCMterminate ==
    /\ Up /\ stopPc = "done"
    /\ alertalarm' = FALSE
    /\ stopPc' = "unloaded"
    /\ UNCHANGED <<process, batch, acCallbacks, amfThread, amfRunning,
                   stopThread, comHaState, newComHaState, amfVars, comVars,
                   ntfVars, qVars, histVars>>

(***************************************************************************)
(* An ntf thread leaves its loop when it finds ntf_stop_thread set, which  *)
(* the notification service does for a while when COM, no longer active,   *)
(* closes it; a thread that sits in poll meanwhile does not notice.        *)
(***************************************************************************)
NtfThreadLeaves(t) ==
    /\ Up /\ t \in ntfLive /\ comMode # "Active"
    /\ ntfLive' = ntfLive \ {t}
    /\ UNCHANGED <<process, batch, ntfRunning, ntfPthread, amfVars, comVars,
                   haVars, qVars, thrVars, histVars>>

----------------------------------------------------------------------------
AmfCalls ==
    \/ \E ha \in HaStates, immOk \in BOOLEAN : CsiSet(ha, immOk)
    \/ maf_amf_csi_remove_callback
    \/ maf_amf_healthcheck_callback
    \/ maf_amf_comp_terminate_callback

ComAnswers ==
    \E u \in upcalls, ok \in BOOLEAN :
        \/ maf_coremw_haModeAssumed(u, ok)
        \/ maf_coremw_prepareTerminationResponse(u, ok)
        \/ maf_coremw_healthCheckReport(u, ok)

HandleEvent ==
    \/ HandleTerminate
    \/ \E created \in BOOLEAN : maf_coremw_haModeAssumed_event(created)
    \/ maf_coremw_healthCheckReport_event
    \/ maf_coremw_prepareTerminationResponse_event

\* The steps the amf thread takes without waiting for anyone.
AmfThreadRuns ==
    \/ AmfThreadRegisters
    \/ AmfThreadFailsToRegister
    \/ maf_handle_events
    \/ HandleEvent
    \/ AmfThreadEnds

StopRuns ==
    \/ StopTerminatesAmfThread
    \/ StopJoinsAmfThread

Next ==
    \/ \E callbacks \in BOOLEAN : maf_coremw_acInitialize(callbacks)
    \/ AmfThreadRuns
    \/ AmfCalls
    \/ ComAnswers
    \/ \E ok \in BOOLEAN : SpontaneousHealthCheckReport(ok)
    \/ StopBegins
    \/ StopRuns
    \/ mafLCMterminate
    \/ \E t \in ntfLive : NtfThreadLeaves(t)

Spec == Init /\ [][Next]_vars

(***************************************************************************)
(* The operating system runs the amf thread and the stopping thread while  *)
(* they have something to do, and COM answers every up-call.               *)
(***************************************************************************)
FairSpec ==
    /\ Spec
    /\ WF_vars(AmfThreadRuns)
    /\ WF_vars(ComAnswers)
    /\ WF_vars(StopRuns)

----------------------------------------------------------------------------
(***************************************************************************)
(* Type invariant: every variable of ComSAAc.c, and of the COM and AMF     *)
(* that surround it, has a value of its type; in particular an event       *)
(* without an invocation is either Terminate or a flagged health report.   *)
(***************************************************************************)
TypeOK ==
    /\ process \in {"up", "start failed", "response failed", "crashed",
                    "forced termination"}
    /\ acCallbacks \in BOOLEAN
    /\ amfThread \in {"none", "starting", "polling", "ended"}
    /\ amfRunning \in BOOLEAN
    /\ stopThread \in BOOLEAN
    /\ eventq \in Seq(Event)
    /\ pipe \in Nat
    /\ batch \in Seq(Event)
    /\ comHaState \in HaModes
    /\ newComHaState \in HaModes
    /\ alertalarm \in BOOLEAN
    /\ ntfRunning \in BOOLEAN
    /\ ntfPthread \in Nat
    /\ ntfLive \subseteq 1 .. ntfPthread
    /\ stopPc \in {"idle", "terminate amf", "join amf", "done", "unloaded"}
    /\ upcalls \subseteq Upcall
    /\ comMode \in HaModes
    /\ reports \in 0 .. MaxInv
    /\ pending \subseteq 1 .. issued
    /\ csiInv \in {0} \cup pending
    /\ csiHa \in CsiStates
    /\ quiescing \in 0 .. issued
    /\ issued \in 0 .. MaxInv
    /\ immFailed \in BOOLEAN
    /\ unanswered \subseteq Invocations

(***************************************************************************)
(* maf_event_add writes to event_pipe only for the first event of a queue, *)
(* and maf_event_getq takes the queue and the character together: the pipe *)
(* holds exactly one character while events wait and none otherwise.  No   *)
(* wake-up of the amf thread is lost and none is spurious ("should contain *)
(* max 1 character", ComSAAc.c:719).                                       *)
(***************************************************************************)
PipeMirrorsQueue == pipe = IF eventq = <<>> THEN 0 ELSE 1

Elements(seq) == {seq[k] : k \in DOMAIN seq}

\* The event objects that exist: at COM, in the queue, and taken from it.
InFlight ==
    {u.event : u \in upcalls} \cup Elements(eventq) \cup Elements(batch)

(***************************************************************************)
(* An invocation AMF still waits for is carried by an event that will be   *)
(* answered, wherever the hand-over between the threads stands; the only   *)
(* ones lost are those whose handler returned because the ntf thread could *)
(* not be created (ComSAAc.c:1133-1141).                                   *)
(***************************************************************************)
NoInvocationLost ==
    \A i \in pending :
        i \in unanswered \/ \E e \in InFlight : e.inv = i /\ e.flags = 0

(***************************************************************************)
(* AMF is never answered twice, or for an invocation it does not wait for: *)
(* saAmfResponse_wrapper ends the process for a refused response only when *)
(* the object implementers failed to initialise and one invocation was     *)
(* given to COM in two events (ComSAAc.c:969-974).                         *)
(***************************************************************************)
ResponseRefusedOnlyAfterImmFailure == process = "response failed" => immFailed

(***************************************************************************)
(* When no setHaMode is under way, the mode recorded in maf_com_ha_state   *)
(* is the mode COM has really assumed, although it is copied from a        *)
(* variable that later CSI assignments overwrite (ComSAAc.c:1129): this    *)
(* rests on AMF waiting for the end of a quiescing, and on no invocation   *)
(* having been answered for COM's termination (ComSAAc.c:972).             *)
(***************************************************************************)
HaStateAgrees ==
    immFailed \/ comHaState = comMode
        \/ \E e \in InFlight : e.type = "haModeAssumed"

(***************************************************************************)
(* COM is never asked to go to the mode it is in: "It's illegal to go to   *)
(* the same state in COM, so just answer opensaf" (ComSAAc.c:1086).        *)
(***************************************************************************)
NeverSetsSameMode ==
    [][\A u \in upcalls' \ upcalls :
          u.event.type = "haModeAssumed" /\ ~immFailed
              => u.mode # comMode]_vars

(***************************************************************************)
(* The assertion of maf_coremw_prepareTerminationResponse_event (line      *)
(* 1261): while the amf thread has such an event to handle, the stop       *)
(* procedure has not reset maf_acCallbacks.                                *)
(***************************************************************************)
CallbacksKept ==
    \A k \in DOMAIN batch :
        batch[k].type = "prepareTerminationResponse" => acCallbacks

(***************************************************************************)
(* maf_coremw_stop joins the ntf polling thread ("Joint the ntf polling    *)
(* thread", ComSAAc.c:756): once it has returned, the thread that          *)
(* ntf_pthread names no longer runs.                                       *)
(***************************************************************************)
NtfThreadJoined == stopPc \in {"done", "unloaded"} => ntfPthread \notin ntfLive

(***************************************************************************)
(* Every invocation AMF waits for is answered, unless the process ends,    *)
(* the component is stopped, or creating the ntf thread failed.            *)
(***************************************************************************)
InvocationsAnswered ==
    \A i \in Invocations :
        i \in pending ~> \/ i \notin pending \/ i \in unanswered
                         \/ ~Up \/ stopThread

(***************************************************************************)
(* maf_coremw_stop returns: the amf thread it joins sees the terminate     *)
(* event whatever else is in the queue, even if it still registers.        *)
(***************************************************************************)
StopReturns == stopPc = "terminate amf" ~> stopPc = "done" \/ ~Up
=============================================================================
