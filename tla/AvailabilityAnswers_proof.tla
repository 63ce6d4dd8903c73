--------------------- MODULE AvailabilityAnswers_proof ---------------------
(***************************************************************************)
(* Proofs about the answers the availability controller gives to AMF and   *)
(* the HA mode it records for COM, for every number of invocations.        *)
(***************************************************************************)
EXTENDS AvailabilityController_proof

(***************************************************************************)
(* The amf thread.  Events exist only after it was created, are handled    *)
(* only while it polls, and COM is asked to prepare for termination only   *)
(* if it gave callbacks; without them the process crashes instead.         *)
(***************************************************************************)
Terminations == {e \in InFlight : e.type = "prepareTerminationResponse"}

ThreadInv ==
    /\ amfThread = "none" => InFlight = {}
    /\ amfThread \in {"starting", "polling"} => amfRunning
    /\ amfRunning => amfThread # "none"
    /\ batch # <<>> => amfThread = "polling" /\ process # "crashed"
    /\ amfThread \in {"starting", "polling"} /\ process # "crashed"
          => Terminations = {} \/ acCallbacks

(***************************************************************************)
(* As long as the object implementers have been initialised, no two events *)
(* bear the same invocation and AMF waits for every invocation that is to  *)
(* be responded to.                                                        *)
(***************************************************************************)
NoRepeat(seq) ==
    \A j, k \in DOMAIN seq :
        seq[j].inv = seq[k].inv /\ seq[j].inv # 0 => j = k

Apart(seq1, seq2) ==
    \A e \in Elements(seq1), f \in Elements(seq2) :
        e.inv = f.inv => e.inv = 0

NotAsked(seq) ==
    \A u \in upcalls, e \in Elements(seq) : u.event.inv # e.inv

Distinct ==
    /\ \A u, v \in upcalls : u.event.inv = v.event.inv => u = v
    /\ \A u \in upcalls : u.event.inv # 0
    /\ NoRepeat(eventq) /\ NoRepeat(batch) /\ Apart(eventq, batch)
    /\ NotAsked(eventq) /\ NotAsked(batch)

Awaited(e) ==
    /\ e.inv <= issued
    /\ e.flags = 0 /\ e.type # "Terminate" => e.inv \in pending
    /\ e.type = "prepareTerminationResponse" => e.flags = 0

AnswersDue ==
    /\ process # "response failed"
    /\ Distinct
    /\ \A e \in InFlight : Awaited(e)

AnswerInv == immFailed \/ AnswersDue

(***************************************************************************)
(* If AMF waits for the end of a quiescing, at most one change of mode is  *)
(* under way, AMF knows of it, and the mode COM has is the one recorded,   *)
(* or will be once the answer is handled.                                  *)
(***************************************************************************)
IsMode(e) == e.type = "haModeAssumed"

ModeKnown(e) == IF e.flags = 0 THEN csiInv = e.inv ELSE quiescing = e.inv

ModeSettled ==
    /\ \A e \in InFlight : IsMode(e) => ModeKnown(e)
    /\ \A e, f \in InFlight : IsMode(e) /\ IsMode(f) => e.inv = f.inv
    /\ \A u \in upcalls : IsMode(u.event) => /\ u.mode = newComHaState
                                             /\ comMode = comHaState
    /\ \A e \in Elements(eventq) \cup Elements(batch) :
          IsMode(e) => comMode = RecordedMode(e)
    /\ comHaState = comMode \/ \E e \in InFlight : IsMode(e)

ModeInv == immFailed \/ ModeSettled

----------------------------------------------------------------------------
(***************************************************************************)
(* Events move from COM to the queue and from there to the batch.          *)
(***************************************************************************)
LEMMA ElementsAppended ==
    ASSUME NEW seq \in Seq(Event), NEW event \in Event
    PROVE  Elements(Append(seq, event)) = Elements(seq) \cup {event}
<1> DEFINE longer == Append(seq, event)
<1>1. /\ DOMAIN seq = 1 .. Len(seq) /\ Len(seq) \in Nat
      /\ DOMAIN longer = 1 .. (Len(seq) + 1)
  OBVIOUS
<1>2. /\ \A k \in 1 .. Len(seq) : longer[k] = seq[k]
      /\ longer[Len(seq) + 1] = event
  OBVIOUS
<1>3. \A k \in DOMAIN longer : k \in DOMAIN seq \/ k = Len(seq) + 1
  BY <1>1
<1> HIDE DEF longer
<1>4. Elements(longer) \subseteq Elements(seq) \cup {event}
  BY <1>1, <1>2, <1>3 DEF Elements
<1> QED
  BY <1>4, ElementsOfAppend DEF longer

\* The first event is one of a queue, and so are those behind it.
LEMMA ElementsTail ==
    ASSUME NEW seq \in Seq(Event), seq # <<>>
    PROVE  /\ Head(seq) \in Elements(seq)
           /\ Elements(Tail(seq)) \subseteq Elements(seq)
<1> DEFINE rest == Tail(seq)
<1>1. /\ DOMAIN seq = 1 .. Len(seq) /\ Len(seq) \in Nat /\ 1 \in DOMAIN seq
      /\ DOMAIN rest = 1 .. (Len(seq) - 1) /\ Head(seq) = seq[1]
  OBVIOUS
<1>2. \A k \in DOMAIN rest : rest[k] = seq[k + 1] /\ k + 1 \in DOMAIN seq
  BY <1>1
<1> HIDE DEF rest
<1>3. Elements(rest) \subseteq Elements(seq)
  BY <1>2 DEF Elements
<1>4. Head(seq) \in Elements(seq)
  BY <1>1 DEF Elements
<1> QED
  BY <1>3, <1>4 DEF rest

\* Appending an invocation that is not there repeats none.
LEMMA NoRepeatAppended ==
    ASSUME NEW seq \in Seq(Event), NEW event \in Event, NoRepeat(seq),
           event.inv = 0 \/ \A e \in Elements(seq) : e.inv # event.inv
    PROVE  NoRepeat(Append(seq, event))
<1> DEFINE longer == Append(seq, event)
<1>1. /\ DOMAIN seq = 1 .. Len(seq) /\ Len(seq) \in Nat
      /\ DOMAIN longer = 1 .. (Len(seq) + 1)
  OBVIOUS
<1>2. /\ \A k \in 1 .. Len(seq) : longer[k] = seq[k]
      /\ longer[Len(seq) + 1] = event
  OBVIOUS
<1>3. \A k \in DOMAIN longer : k \in DOMAIN seq \/ k = Len(seq) + 1
  BY <1>1
<1>4. event.inv = 0 \/ \A k \in DOMAIN seq : seq[k].inv # event.inv
  BY DEF Elements
<1> HIDE DEF longer
<1>5. ASSUME NEW j \in DOMAIN longer, NEW k \in DOMAIN longer,
             longer[j].inv = longer[k].inv, longer[j].inv # 0
      PROVE  j = k
  <2>1. CASE j \in DOMAIN seq /\ k \in DOMAIN seq
    BY <1>1, <1>2, <1>5, <2>1 DEF NoRepeat
  <2>2. CASE j \notin DOMAIN seq \/ k \notin DOMAIN seq
    BY <1>1, <1>2, <1>3, <1>4, <1>5, <2>2
  <2> QED
    BY <2>1, <2>2
<1> QED
  BY <1>5 DEF NoRepeat, longer

\* The first of a sequence without repetitions is not among the others.
LEMMA NoRepeatTail ==
    ASSUME NEW seq \in Seq(Event), seq # <<>>, NoRepeat(seq)
    PROVE  /\ NoRepeat(Tail(seq))
           /\ \A e \in Elements(Tail(seq)) : e.inv = Head(seq).inv => e.inv = 0
<1> DEFINE rest == Tail(seq)
<1>1. /\ DOMAIN seq = 1 .. Len(seq) /\ Len(seq) \in Nat /\ 1 \in DOMAIN seq
      /\ DOMAIN rest = 1 .. (Len(seq) - 1) /\ Head(seq) = seq[1]
  OBVIOUS
<1>2. \A k \in DOMAIN rest : /\ rest[k] = seq[k + 1] /\ k + 1 \in DOMAIN seq
                             /\ k + 1 # 1 /\ k \in Nat
  BY <1>1
<1> HIDE DEF rest
<1>3. NoRepeat(rest)
  <2> SUFFICES ASSUME NEW j \in DOMAIN rest, NEW k \in DOMAIN rest,
                      rest[j].inv = rest[k].inv, rest[j].inv # 0
               PROVE  j = k
    BY DEF NoRepeat
  <2>1. j + 1 = k + 1
    BY <1>2 DEF NoRepeat
  <2> QED
    BY <1>2, <2>1
<1>4. \A k \in DOMAIN rest : rest[k].inv = seq[1].inv => rest[k].inv = 0
  BY <1>1, <1>2 DEF NoRepeat
<1>5. \A e \in Elements(rest) : e.inv = Head(seq).inv => e.inv = 0
  BY <1>1, <1>4 DEF Elements
<1> QED
  BY <1>3, <1>5 DEF rest

\* The five ways in which a step moves events.
AskedFor(calls) == upcalls' = upcalls \cup calls /\ UNCHANGED <<eventq, batch>>

AnsweredBy(u, event) ==
    /\ u \in upcalls /\ upcalls' = upcalls \ {u}
    /\ eventq' = Append(eventq, event)
    /\ UNCHANGED batch

Added(event) == eventq' = Append(eventq, event) /\ UNCHANGED <<upcalls, batch>>

Taken ==
    /\ batch = <<>> /\ batch' = eventq /\ eventq' = <<>>
    /\ UNCHANGED upcalls

Handled ==
    /\ batch # <<>> /\ batch' = Tail(batch)
    /\ UNCHANGED <<upcalls, eventq>>

\* COM is called: its calls are in flight besides.
LEMMA FlightAsked ==
    ASSUME NEW calls, AskedFor(calls)
    PROVE  InFlight' = InFlight \cup {u.event : u \in calls}
  BY DEF AskedFor, InFlight

\* COM answers: the event in the queue replaces the one of the call.
LEMMA FlightAnswered ==
    ASSUME TypeOK, NEW u, NEW event \in Event, AnsweredBy(u, event)
    PROVE  /\ InFlight' \subseteq InFlight \cup {event}
           /\ InFlight \subseteq InFlight' \cup {u.event}
           /\ event \in InFlight' /\ u.event \in InFlight
<1>1. Elements(eventq') = Elements(eventq) \cup {event}
  BY ElementsAppended DEF TypeOK, AnsweredBy
<1> QED
  BY <1>1 DEF AnsweredBy, InFlight

\* An event is put on the queue.
LEMMA FlightAdded ==
    ASSUME TypeOK, NEW event \in Event, Added(event)
    PROVE  InFlight' = InFlight \cup {event}
<1>1. Elements(eventq') = Elements(eventq) \cup {event}
  BY ElementsAppended DEF TypeOK, Added
<1> QED
  BY <1>1 DEF Added, InFlight

\* The amf thread takes over the queue: nothing changes in flight.
LEMMA FlightTaken ==
    ASSUME Taken
    PROVE  InFlight' = InFlight
<1>1. Elements(<<>>) = {}
  BY DEF Elements
<1> QED
  BY <1>1 DEF Taken, InFlight

\* The amf thread handles an event: only that one may be gone.
LEMMA FlightHandled ==
    ASSUME TypeOK, Handled
    PROVE  /\ InFlight' \subseteq InFlight
           /\ InFlight \subseteq InFlight' \cup {Head(batch)}
           /\ Head(batch) \in InFlight
<1>1. /\ Head(batch) \in Elements(batch)
      /\ Elements(batch') \subseteq Elements(batch)
      /\ Elements(batch) \subseteq {Head(batch)} \cup Elements(batch')
  BY ElementsTail, ElementsOfTail DEF TypeOK, Handled
<1> QED
  BY <1>1 DEF Handled, InFlight

\* The actions, by the way they move events.
LEMMA HandlersHandle ==
    ASSUME TypeOK, HandleEvent
    PROVE  /\ Handled /\ Up /\ Head(batch) \in Event
           /\ UNCHANGED <<acCallbacks, amfThread, amfRunning>>
           /\ process' \in {process, "response failed"}
  BY HandlingTakesHead, TypeGroups
  DEF HandleEvent, HandleTerminate, maf_coremw_haModeAssumed_event,
      maf_coremw_healthCheckReport_event,
      maf_coremw_prepareTerminationResponse_event, Handling, Handled,
      ModeAssumedAnswer, saAmfResponse, comVars, qVars, thrVars, amfVars

\* COM's answer to a call is the event of the call, with its result.
LEMMA AnswersAnswer ==
    ASSUME TypeOK, NEW u \in upcalls, NEW ok \in BOOLEAN,
           \/ maf_coremw_haModeAssumed(u, ok)
           \/ maf_coremw_prepareTerminationResponse(u, ok)
           \/ maf_coremw_healthCheckReport(u, ok)
    PROVE  LET event == [u.event EXCEPT !.ok = ok]
           IN  /\ AnsweredBy(u, event) /\ event \in Event
               /\ event.type = u.event.type /\ event.inv = u.event.inv
               /\ event.flags = u.event.flags /\ event.ok = ok
               /\ UNCHANGED <<process, amfVars, haVars, thrVars, histVars>>
               /\ comMode' = IF ok /\ IsMode(u.event) THEN u.mode ELSE comMode
<1> DEFINE event == [u.event EXCEPT !.ok = ok]
<1>1. Answer(u, ok) /\ u.event.type # "Terminate"
  BY DEF maf_coremw_haModeAssumed, maf_coremw_healthCheckReport,
         maf_coremw_prepareTerminationResponse
<1>2. u \in Upcall
  BY DEF TypeOK
<1>3. /\ event \in Event /\ event.inv = u.event.inv
      /\ event.flags = u.event.flags
  BY <1>1, <1>2, AnsweredEvent
<1>4. event.type = u.event.type /\ event.ok = ok
  BY <1>1, <1>2 DEF Upcall, Event
<1>5. AnsweredBy(u, event)
        /\ UNCHANGED <<process, amfVars, haVars, thrVars, histVars>>
  BY <1>1 DEF Answer, maf_event_add, AnsweredBy
<1>6. comMode' = IF ok /\ IsMode(u.event) THEN u.mode ELSE comMode
  BY DEF maf_coremw_haModeAssumed, maf_coremw_healthCheckReport,
         maf_coremw_prepareTerminationResponse, IsMode
<1> QED
  BY <1>3, <1>4, <1>5, <1>6

\* The calls of a CSI assignment: at most one, and a request to prepare for
\* termination only if the object implementers could not be initialised.
ImmCall(inv) ==
    Call(maf_new_event("prepareTerminationResponse", inv, 0), "Unassigned")

ModeCall(inv, ha) ==
    Call(maf_new_event("haModeAssumed", inv, FlagsOf(ha)), ModeOf(ha))

CsiCalls(inv, ha, immOk) ==
    (IF immOk THEN {} ELSE {ImmCall(inv)})
        \cup (IF SameMode(ModeOf(ha)) THEN {} ELSE {ModeCall(inv, ha)})

\* What the callback of a CSI assignment asks of COM, and what it records.
LEMMA CsiSetAsks ==
    ASSUME NEW inv, NEW state, NEW ha, NEW immOk \in BOOLEAN,
           maf_amf_csi_set_callback(inv, state, ha, immOk)
    PROVE  /\ AskedFor(CsiCalls(inv, ha, immOk))
           /\ UNCHANGED <<thrVars, comMode, comHaState>>
           /\ process' = IF immOk \/ acCallbacks THEN process ELSE "crashed"
           /\ issued' = inv /\ newComHaState' = ModeOf(ha)
           /\ immFailed' = (immFailed \/ ~immOk)
           /\ IF SameMode(ModeOf(ha)) \/ ha = "QUIESCING"
              THEN UNCHANGED <<pending, csiInv>>
              ELSE pending' = pending \cup {inv} /\ csiInv' = inv
           /\ quiescing' = IF ha = "QUIESCING" /\ ~SameMode(ModeOf(ha))
                           THEN inv ELSE 0
<1>1. upcalls' = upcalls \cup CsiCalls(inv, ha, immOk)
  BY DEF maf_amf_csi_set_callback, CsiCalls, ImmCall, ModeCall
<1> QED
  BY <1>1 DEF maf_amf_csi_set_callback, AskedFor, qVars

\* What the calls carry.
LEMMA CallFields ==
    ASSUME NEW inv, NEW ha
    PROVE  /\ ImmCall(inv).event.inv = inv
           /\ ImmCall(inv).event.type = "prepareTerminationResponse"
           /\ ModeCall(inv, ha).event.inv = inv
           /\ ModeCall(inv, ha).event.type = "haModeAssumed"
           /\ ModeCall(inv, ha).event.flags = FlagsOf(ha)
           /\ ModeCall(inv, ha).mode = ModeOf(ha)
  BY DEF ImmCall, ModeCall, Call, maf_new_event

\* The steps of AMF, by what they ask of COM.
LEMMA CallsAsk ==
    ASSUME AmfCalls
    PROVE  /\ AmfMayCall
           /\ \/ \E ha \in HaStates, immOk \in BOOLEAN :
                    /\ CsiMayChange
                    /\ maf_amf_csi_set_callback(issued + 1, ha, ha, immOk)
              \/ /\ CsiMayChange
                 /\ maf_amf_csi_set_callback(issued + 1, "NONE", "QUIESCED",
                                             TRUE)
              \/ /\ CsiMayChange /\ issued' = issued + 1 /\ quiescing' = 0
                 /\ UNCHANGED <<process, batch, pending, csiInv, comVars,
                                haVars, ntfVars, qVars, thrVars, histVars>>
              \/ maf_amf_healthcheck_callback
              \/ maf_amf_comp_terminate_callback
  BY DEF AmfCalls, CsiSet, maf_amf_csi_remove_callback,
         maf_amf_healthcheck_callback, maf_amf_comp_terminate_callback

\* The steps that leave the events where they are.
Still ==
    /\ UNCHANGED <<upcalls, eventq, batch>>
    /\ UNCHANGED <<comMode, comHaState, newComHaState, amfVars, immFailed>>

\* The steps of the threads that move no event.
LEMMA StillSteps ==
    ASSUME \/ AmfThreadRegisters \/ AmfThreadFailsToRegister
           \/ AmfThreadEnds \/ StopBegins \/ StopJoinsAmfThread
           \/ mafLCMterminate \/ UNCHANGED vars
           \/ \E callbacks \in BOOLEAN : maf_coremw_acInitialize(callbacks)
           \/ \E t \in ntfLive : NtfThreadLeaves(t)
    PROVE  Still /\ process' \in {process, "start failed"}
  BY DEF AmfThreadRegisters, AmfThreadFailsToRegister, AmfThreadEnds,
         StopBegins, StopJoinsAmfThread, mafLCMterminate,
         maf_coremw_acInitialize, NtfThreadLeaves, vars, comVars, haVars,
         qVars, histVars, Still

----------------------------------------------------------------------------
(***************************************************************************)
(* The callbacks are there while a prepare-for-termination is handled.     *)
(***************************************************************************)
\* The terminations among the events, when events are only moved or added.
LEMMA NoNewTermination ==
    ASSUME \A e \in InFlight' \ InFlight :
              \/ e.type # "prepareTerminationResponse"
              \/ \E f \in InFlight : f.type = "prepareTerminationResponse"
    PROVE  Terminations = {} => Terminations' = {}
  BY DEF Terminations

\* Every step keeps what is known of the amf thread.
LEMMA ThreadNext == TypeOK /\ ThreadInv /\ [Next]_vars => ThreadInv'
<1> SUFFICES ASSUME TypeOK, ThreadInv, [Next]_vars PROVE ThreadInv'
  OBVIOUS
<1> USE DEF ThreadInv
<1>0. /\ amfThread \in {"none", "starting", "polling", "ended"}
      /\ acCallbacks \in BOOLEAN /\ amfRunning \in BOOLEAN
      /\ eventq \in Seq(Event) /\ batch \in Seq(Event)
  BY DEF TypeOK
<1>1. ASSUME NEW callbacks \in BOOLEAN, maf_coremw_acInitialize(callbacks)
      PROVE  ThreadInv'
  <2>1. InFlight' = InFlight /\ Terminations' = Terminations
    BY <1>1, StillSteps DEF Still, InFlight, Terminations
  <2>2. InFlight = {} /\ Terminations = {}
    BY <1>1 DEF maf_coremw_acInitialize, Terminations
  <2> QED
    BY <1>1, <2>1, <2>2 DEF maf_coremw_acInitialize
<1>2. CASE \/ AmfThreadRegisters \/ AmfThreadFailsToRegister
           \/ AmfThreadEnds \/ StopBegins \/ StopJoinsAmfThread
           \/ mafLCMterminate \/ UNCHANGED vars
           \/ \E t \in ntfLive : NtfThreadLeaves(t)
  <2>1. /\ InFlight' = InFlight /\ Terminations' = Terminations
        /\ batch' = batch
    BY <1>2, StillSteps DEF Still, InFlight, Terminations
  <2>2. process' \in {process, "start failed"} /\ (process' = process \/ Up)
    BY <1>2, StillSteps
    DEF AmfThreadRegisters, AmfThreadFailsToRegister, AmfThreadEnds,
         StopBegins, StopJoinsAmfThread, mafLCMterminate, NtfThreadLeaves,
         vars
  <2>3. CASE AmfThreadRegisters
    BY <1>0, <2>1, <2>2, <2>3 DEF AmfThreadRegisters
  <2>4. CASE AmfThreadEnds
    BY <1>0, <2>1, <2>2, <2>4 DEF AmfThreadEnds
  <2>5. CASE StopJoinsAmfThread
    BY <1>0, <2>1, <2>2, <2>5 DEF StopJoinsAmfThread
  <2>6. CASE UNCHANGED <<acCallbacks, amfThread, amfRunning>>
    BY <1>0, <2>1, <2>2, <2>6 DEF Up
  <2> QED
    BY <1>2, <2>3, <2>4, <2>5, <2>6
    DEF AmfThreadFailsToRegister, StopBegins, mafLCMterminate,
        NtfThreadLeaves, thrVars, vars
<1>3. CASE maf_handle_events
  <2>1. Taken /\ UNCHANGED <<process, thrVars>>
    BY <1>3 DEF maf_handle_events, maf_event_getq, Taken, comVars
  <2>2. InFlight' = InFlight /\ Terminations' = Terminations
    BY <2>1, FlightTaken DEF Terminations
  <2> QED
    BY <1>3, <2>1, <2>2 DEF maf_handle_events, thrVars, Up
<1>4. CASE HandleEvent
  <2>1. /\ Handled /\ Up /\ UNCHANGED <<acCallbacks, amfThread, amfRunning>>
        /\ process' \in {process, "response failed"}
    BY <1>4, HandlersHandle
  <2>2. InFlight' \subseteq InFlight
    BY <2>1, FlightHandled
  <2>3. Terminations = {} => Terminations' = {}
    BY <2>2, NoNewTermination
  <2>4. batch # <<>>
    BY <2>1 DEF Handled
  <2> QED
    BY <1>0, <2>1, <2>2, <2>3, <2>4 DEF Up
<1>5. ASSUME NEW u \in upcalls, NEW ok \in BOOLEAN,
             \/ maf_coremw_haModeAssumed(u, ok)
             \/ maf_coremw_prepareTerminationResponse(u, ok)
             \/ maf_coremw_healthCheckReport(u, ok)
      PROVE  ThreadInv'
  <2> DEFINE event == [u.event EXCEPT !.ok = ok]
  <2>1. /\ AnsweredBy(u, event) /\ event \in Event
        /\ event.type = u.event.type /\ UNCHANGED <<process, thrVars>>
    BY <1>5, AnswersAnswer
  <2> HIDE DEF event
  <2>2. InFlight' \subseteq InFlight \cup {event} /\ u.event \in InFlight
    BY <2>1, FlightAnswered
  <2>3. Terminations = {} => Terminations' = {}
    BY <2>1, <2>2, NoNewTermination
  <2>4. amfThread # "none"
    BY <2>2
  <2> QED
    BY <1>0, <2>1, <2>3, <2>4 DEF AnsweredBy, thrVars
<1>6. ASSUME NEW event \in Event, event.type # "prepareTerminationResponse",
             maf_event_add(event), UNCHANGED <<upcalls, batch>>,
             UNCHANGED <<process, acCallbacks, amfThread, amfRunning>>,
             amfThread # "none"
      PROVE  ThreadInv'
  <2>1. InFlight' = InFlight \cup {event}
    BY <1>6, FlightAdded DEF maf_event_add, Added
  <2>2. Terminations = {} => Terminations' = {}
    BY <1>6, <2>1, NoNewTermination
  <2> QED
    BY <1>0, <1>6, <2>2
<1>7. ASSUME NEW ok \in BOOLEAN, SpontaneousHealthCheckReport(ok)
      PROVE  ThreadInv'
  <2>1. [SpontaneousEvent EXCEPT !.ok = ok].type = "healthCheckReport"
    BY DEF SpontaneousEvent, maf_new_event
  <2> QED
    BY <1>6, <1>7, <2>1, OwnEvents DEF SpontaneousHealthCheckReport, thrVars
<1>8. CASE StopTerminatesAmfThread
  <2>1. CASE amfRunning
    <3>1. maf_new_event("Terminate", 0, 0).type = "Terminate"
      BY DEF maf_new_event
    <3> QED
      BY <1>6, <1>8, <2>1, <3>1, OwnEvents
      DEF StopTerminatesAmfThread, comVars
  <2>2. CASE ~amfRunning
    <3>1. InFlight' = InFlight /\ batch' = batch
      BY <1>8, <2>2 DEF StopTerminatesAmfThread, InFlight, comVars, qVars
    <3>2. amfThread \in {"none", "ended"} /\ batch = <<>>
      BY <1>0, <2>2
    <3> QED
      BY <1>8, <3>1, <3>2 DEF StopTerminatesAmfThread
  <2> QED
    BY <2>1, <2>2
<1>9. CASE AmfCalls
  <2>0. AmfMayCall /\ amfThread = "polling" /\ batch = <<>> /\ amfRunning
    BY <1>9, CallsAsk DEF AmfMayCall
  <2>1. ASSUME UNCHANGED <<batch, acCallbacks, amfThread, amfRunning>>,
               \/ acCallbacks
               \/ process' = "crashed"
               \/ Terminations = {} => Terminations' = {}
        PROVE  ThreadInv'
    BY <1>0, <2>0, <2>1 DEF AmfMayCall, Up
  <2>2. ASSUME NEW inv, NEW state, NEW ha, NEW immOk \in BOOLEAN,
               maf_amf_csi_set_callback(inv, state, ha, immOk)
        PROVE  ThreadInv'
    <3>1. /\ AskedFor(CsiCalls(inv, ha, immOk)) /\ UNCHANGED thrVars
          /\ process' = IF immOk \/ acCallbacks THEN process ELSE "crashed"
      BY <2>2, CsiSetAsks
    <3>2. CASE acCallbacks \/ process' = "crashed"
      BY <2>1, <3>1, <3>2 DEF AskedFor, thrVars
    <3>3. CASE ~acCallbacks /\ process' # "crashed"
      <4>1. immOk /\ SameMode(ModeOf(ha))
        BY <3>1, <3>3 DEF SameMode
      <4>2. CsiCalls(inv, ha, immOk) = {}
        BY <4>1 DEF CsiCalls
      <4>3. InFlight' = InFlight
        BY <3>1, <4>2, FlightAsked
      <4> QED
        BY <2>1, <3>1, <4>3, NoNewTermination DEF AskedFor, thrVars
    <3> QED
      BY <3>2, <3>3
  <2>3. ASSUME UNCHANGED <<process, batch, comVars, qVars, thrVars>>
        PROVE  ThreadInv'
    <3>1. InFlight' = InFlight
      BY <2>3 DEF InFlight, comVars, qVars
    <3> QED
      BY <2>1, <2>3, <3>1, NoNewTermination DEF thrVars
  <2>4. CASE maf_amf_healthcheck_callback \/ maf_amf_comp_terminate_callback
    <3>1. CASE acCallbacks
      BY <2>1, <2>4, <3>1
      DEF maf_amf_healthcheck_callback, maf_amf_comp_terminate_callback,
          thrVars
    <3>2. CASE ~acCallbacks
      <4>1. /\ UNCHANGED <<batch, acCallbacks, amfThread, amfRunning>>
            /\ UNCHANGED <<upcalls, eventq>>
        BY <2>4, <3>2
        DEF maf_amf_healthcheck_callback, maf_amf_comp_terminate_callback,
            thrVars, qVars
      <4>2. InFlight' = InFlight
        BY <4>1 DEF InFlight
      <4> QED
        BY <2>1, <4>1, <4>2, NoNewTermination
    <3> QED
      BY <3>1, <3>2
  <2> QED
    BY <1>9, <2>2, <2>3, <2>4, CallsAsk
<1> QED
  BY <1>1, <1>2, <1>3, <1>4, <1>5, <1>7, <1>8, <1>9
  DEF Next, AmfThreadRuns, ComAnswers, StopRuns

(***************************************************************************)
(* The assertion of maf_coremw_prepareTerminationResponse_event holds: the *)
(* stop procedure forgets the callbacks only after it has joined the amf   *)
(* thread, which ends with no event left to handle.                        *)
(***************************************************************************)
THEOREM CallbacksThere == Spec => []CallbacksKept
<1>1. Init => ThreadInv
  BY DEF Init, ThreadInv, InFlight, Elements, Terminations
<1>2. TypeOK /\ ThreadInv => CallbacksKept
  <2> SUFFICES ASSUME ThreadInv, NEW k \in DOMAIN batch,
                      batch[k].type = "prepareTerminationResponse"
               PROVE  acCallbacks
    BY DEF CallbacksKept
  <2>1. batch[k] \in Terminations
    BY DEF Terminations, InFlight, Elements
  <2>2. batch # <<>>
    OBVIOUS
  <2> QED
    BY <2>1, <2>2 DEF ThreadInv
<1> QED
  BY <1>1, <1>2, TypeCorrect, ThreadNext, PTL DEF Spec

----------------------------------------------------------------------------
(***************************************************************************)
(* AMF waits for every response it gets.                                   *)
(***************************************************************************)
\* The invocation of an event is a number, and one of no up-call is 0.
LEMMA FlightTypes ==
    ASSUME TypeOK
    PROVE  /\ \A e \in InFlight : e \in Event /\ e.inv \in Nat
           /\ Elements(eventq) \subseteq InFlight
           /\ Elements(batch) \subseteq InFlight
           /\ \A u \in upcalls : u.event \in InFlight
           /\ issued \in Nat /\ pending \subseteq Nat \ {0}
<1>1. /\ issued \in 0 .. MaxInv /\ MaxInv \in Nat
      /\ pending \subseteq 1 .. issued
  BY ConstantsAssumption DEF TypeOK
<1>2. ASSUME NEW seq \in Seq(Event) PROVE Elements(seq) \subseteq Event
  <2>1. \A k \in DOMAIN seq : seq[k] \in Event
    OBVIOUS
  <2> QED
    BY <2>1 DEF Elements
<1>3. \A u \in upcalls : u.event \in Event
  BY DEF TypeOK, Upcall
<1>4. InFlight \subseteq Event
  BY <1>2, <1>3 DEF InFlight, TypeOK
<1>5. ASSUME NEW e \in Event PROVE e.inv \in Nat
  <2>1. e.inv \in Invocations \cup {0}
    BY DEF Event
  <2> QED
    BY <1>1, <2>1 DEF Invocations
<1>6. issued \in Nat /\ pending \subseteq Nat \ {0}
  BY <1>1
<1> QED
  BY <1>4, <1>5, <1>6 DEF InFlight

\* Taking the queue keeps the invocations apart.
LEMMA DistinctTaken ==
    ASSUME Distinct, Taken
    PROVE  Distinct'
<1>1. Elements(<<>>) = {} /\ NoRepeat(<<>>)
  BY DEF Elements, NoRepeat
<1> QED
  BY <1>1 DEF Distinct, Taken, Apart, NotAsked

\* Handling an event leaves no other event with its invocation.
LEMMA DistinctHandled ==
    ASSUME TypeOK, Distinct, Handled
    PROVE  /\ Distinct'
           /\ \A e \in InFlight' : e.inv = Head(batch).inv => e.inv = 0
<1>1. /\ NoRepeat(batch')
      /\ \A e \in Elements(batch') : e.inv = Head(batch).inv => e.inv = 0
  BY NoRepeatTail DEF TypeOK, Distinct, Handled
<1>2. Head(batch) \in Elements(batch) /\ Elements(batch') \subseteq Elements(batch)
  BY ElementsTail DEF TypeOK, Handled
<1>3. Distinct'
  BY <1>1, <1>2 DEF Distinct, Handled, Apart, NotAsked
<1>4. \A e \in InFlight' : e.inv = Head(batch).inv => e.inv = 0
  BY <1>1, <1>2 DEF Distinct, Handled, InFlight, Apart, NotAsked
<1> QED
  BY <1>3, <1>4

\* The answer takes the invocation of its up-call with it.
LEMMA DistinctAnswered ==
    ASSUME TypeOK, Distinct, NEW u, NEW event \in Event, AnsweredBy(u, event),
           event.inv = u.event.inv
    PROVE  Distinct'
<1>1. Elements(eventq') = Elements(eventq) \cup {event}
  BY ElementsAppended DEF TypeOK, AnsweredBy
<1>2. NoRepeat(eventq')
  BY NoRepeatAppended DEF TypeOK, Distinct, AnsweredBy, NotAsked
<1> QED
  BY <1>1, <1>2 DEF Distinct, AnsweredBy, Apart, NotAsked

\* An event of the component's own has no invocation.
LEMMA DistinctAdded ==
    ASSUME TypeOK, Distinct, NEW event \in Event, Added(event), event.inv = 0
    PROVE  Distinct'
<1>1. Elements(eventq') = Elements(eventq) \cup {event}
  BY ElementsAppended DEF TypeOK, Added
<1>2. NoRepeat(eventq')
  BY NoRepeatAppended DEF TypeOK, Distinct, Added
<1> QED
  BY <1>1, <1>2 DEF Distinct, Added, Apart, NotAsked

\* AMF numbers its invocations: a new one is carried by no event.
LEMMA DistinctAsked ==
    ASSUME TypeOK, AnswersDue, NEW call, AskedFor({call}),
           call.event.inv = issued + 1
    PROVE  Distinct'
<1>1. \A e \in InFlight : e.inv \in Nat /\ e.inv <= issued
  BY FlightTypes DEF AnswersDue, Awaited
<1>2. issued \in Nat
  BY FlightTypes
<1>3. \A e \in InFlight : e.inv # issued + 1
  BY <1>1, <1>2
<1>4. issued + 1 # 0
  BY <1>2
<1>5. /\ \A u \in upcalls : u.event.inv # call.event.inv
      /\ \A e \in Elements(eventq) \cup Elements(batch) :
            e.inv # call.event.inv
  BY <1>3, FlightTypes
<1> QED
  BY <1>4, <1>5 DEF AnswersDue, Distinct, AskedFor, Apart, NotAsked

\* A handler responds to AMF only for the invocation of its event.
LEMMA HandlersRespond ==
    ASSUME TypeOK, HandleEvent, Awaited(Head(batch))
    PROVE  /\ issued' = issued /\ immFailed' = immFailed
           /\ process' = process
           /\ pending \ {Head(batch).inv} \subseteq pending'
<1> DEFINE event == Head(batch)
<1>1. event \in Event
  BY HandlersHandle
<1>2. event.flags \in {0, 1}
  BY <1>1 DEF Event
<1>3. CASE HandleTerminate
  BY <1>3 DEF HandleTerminate, amfVars, histVars
<1>4. ASSUME NEW created \in BOOLEAN, maf_coremw_haModeAssumed_event(created)
      PROVE  /\ issued' = issued /\ immFailed' = immFailed
             /\ process' = process /\ pending \ {event.inv} \subseteq pending'
  <2>1. UNCHANGED <<issued, immFailed>> /\ event.type = "haModeAssumed"
    BY <1>4 DEF maf_coremw_haModeAssumed_event, Handling
  <2>2. \/ UNCHANGED <<process, pending>>
        \/ event.flags # 1 /\ saAmfResponse(event.inv, event.ok)
    BY <1>4 DEF maf_coremw_haModeAssumed_event, ModeAssumedAnswer
  <2> QED
    BY <1>2, <2>1, <2>2 DEF saAmfResponse, Awaited
<1>5. CASE maf_coremw_healthCheckReport_event
  BY <1>5 DEF maf_coremw_healthCheckReport_event, Handling, saAmfResponse,
              Awaited, histVars
<1>6. CASE maf_coremw_prepareTerminationResponse_event
  BY <1>6 DEF maf_coremw_prepareTerminationResponse_event, Handling,
              saAmfResponse, Awaited, histVars
<1> QED
  BY <1>3, <1>4, <1>5, <1>6 DEF HandleEvent

\* A failure of the object implementers is not forgotten.
LEMMA ImmFailedStays == [Next]_vars /\ immFailed => immFailed'
<1> SUFFICES ASSUME [Next]_vars, immFailed PROVE immFailed'
  OBVIOUS
<1>1. CASE AmfCalls
  BY <1>1, CallsAsk
  DEF maf_amf_csi_set_callback, maf_amf_healthcheck_callback,
      maf_amf_comp_terminate_callback, histVars
<1>2. CASE ComAnswers
  BY <1>2 DEF ComAnswers, maf_coremw_haModeAssumed,
              maf_coremw_prepareTerminationResponse,
              maf_coremw_healthCheckReport, Answer, histVars
<1>3. CASE HandleEvent
  BY <1>3 DEF HandleEvent, HandleTerminate, maf_coremw_haModeAssumed_event,
              maf_coremw_healthCheckReport_event,
              maf_coremw_prepareTerminationResponse_event, histVars
<1>4. CASE UNCHANGED histVars
  BY <1>4 DEF histVars
<1> QED
  BY <1>1, <1>2, <1>3, <1>4, StillSteps
  DEF Next, AmfThreadRuns, StopRuns, maf_handle_events, Still,
      SpontaneousHealthCheckReport, StopTerminatesAmfThread

\* What is not above a number is not above the next.
LEMMA LaterInvocation ==
    ASSUME NEW m \in Nat, NEW n \in Nat, m <= n
    PROVE  m <= n + 1
  OBVIOUS

\* A call of AMF that succeeds makes its invocation due.
LEMMA CallDue ==
    ASSUME TypeOK, AnswersDue, NEW calls, AskedFor(calls),
           process' # "response failed",
           issued' = issued + 1, pending \subseteq pending',
           \/ calls = {}
           \/ \E call : /\ calls = {call} /\ call.event.inv = issued + 1
                        /\ Awaited(call.event)'
    PROVE  AnswersDue'
<1>0. issued \in Nat /\ \A e \in InFlight : e.inv \in Nat
  BY FlightTypes
<1>1. ASSUME NEW e \in InFlight PROVE Awaited(e)'
  <2>1. Awaited(e)
    BY DEF AnswersDue
  <2>2. e.inv <= issued'
    BY <1>0, <2>1, LaterInvocation DEF Awaited
  <2> QED
    BY <2>1, <2>2 DEF Awaited
<1>2. InFlight' = InFlight \cup {u.event : u \in calls}
  BY FlightAsked
<1>3. \A e \in InFlight' : Awaited(e)'
  BY <1>1, <1>2
<1>4. Distinct'
  <2>1. CASE calls = {}
    BY <2>1 DEF AskedFor, AnswersDue, Distinct, Apart, NotAsked
  <2>2. CASE calls # {}
    BY <2>2, DistinctAsked
  <2> QED
    BY <2>1, <2>2
<1> QED
  BY <1>3, <1>4 DEF AnswersDue

\* While the object implementers work, a step keeps what is due.
LEMMA DueNext ==
    ASSUME TypeOK, AnswersDue, [Next]_vars, ~immFailed'
    PROVE  AnswersDue'
<1>0. /\ process # "response failed" /\ Distinct
      /\ \A e \in InFlight : Awaited(e)
  BY DEF AnswersDue
<1>1. CASE Still /\ process' \in {process, "start failed"}
  <2>1. Distinct' /\ InFlight' = InFlight
    BY <1>0, <1>1 DEF Still, Distinct, Apart, NotAsked, InFlight
  <2>2. UNCHANGED <<issued, pending>>
    BY <1>1 DEF Still, amfVars
  <2> QED
    BY <1>0, <1>1, <2>1, <2>2 DEF AnswersDue, Awaited
<1>2. CASE maf_handle_events
  <2>1. Taken /\ UNCHANGED <<process, issued, pending>>
    BY <1>2 DEF maf_handle_events, maf_event_getq, Taken, comVars, amfVars
  <2>2. Distinct' /\ InFlight' = InFlight
    BY <1>0, <2>1, DistinctTaken, FlightTaken
  <2> QED
    BY <1>0, <2>1, <2>2 DEF AnswersDue, Awaited
<1>3. CASE HandleEvent
  <2>1. Handled
    BY <1>3, HandlersHandle
  <2>2. InFlight' \subseteq InFlight /\ Head(batch) \in InFlight
    BY <2>1, FlightHandled
  <2>3. /\ Distinct'
        /\ \A e \in InFlight' : e.inv = Head(batch).inv => e.inv = 0
    BY <1>0, <2>1, DistinctHandled
  <2>4. /\ issued' = issued /\ process' = process
        /\ pending \ {Head(batch).inv} \subseteq pending'
    BY <1>0, <1>3, <2>2, HandlersRespond
  <2>5. ASSUME NEW e \in InFlight' PROVE Awaited(e)'
    BY <1>0, <2>2, <2>3, <2>4, FlightTypes DEF Awaited
  <2> QED
    BY <1>0, <2>3, <2>4, <2>5 DEF AnswersDue
<1>4. ASSUME NEW u \in upcalls, NEW ok \in BOOLEAN,
             \/ maf_coremw_haModeAssumed(u, ok)
             \/ maf_coremw_prepareTerminationResponse(u, ok)
             \/ maf_coremw_healthCheckReport(u, ok)
      PROVE  AnswersDue'
  <2> DEFINE event == [u.event EXCEPT !.ok = ok]
  <2>1. /\ AnsweredBy(u, event) /\ event \in Event
        /\ event.type = u.event.type /\ event.inv = u.event.inv
        /\ event.flags = u.event.flags /\ UNCHANGED <<process, amfVars>>
    BY <1>4, AnswersAnswer
  <2> HIDE DEF event
  <2>2. InFlight' \subseteq InFlight \cup {event} /\ u.event \in InFlight
    BY <2>1, FlightAnswered
  <2>3. Distinct'
    BY <1>0, <2>1, DistinctAnswered
  <2>4. Awaited(event) /\ UNCHANGED <<issued, pending>>
    BY <1>0, <2>1, <2>2 DEF Awaited, amfVars
  <2> QED
    BY <1>0, <2>1, <2>2, <2>3, <2>4 DEF AnswersDue, Awaited
<1>5. ASSUME NEW event \in Event, event.inv = 0,
             event.type # "prepareTerminationResponse",
             event.flags = 1 \/ event.type = "Terminate",
             maf_event_add(event), UNCHANGED <<upcalls, batch>>,
             UNCHANGED <<process, issued, pending>>
      PROVE  AnswersDue'
  <2>1. Added(event)
    BY <1>5 DEF maf_event_add, Added
  <2>2. InFlight' = InFlight \cup {event} /\ Distinct'
    BY <1>0, <1>5, <2>1, FlightAdded, DistinctAdded
  <2>3. Awaited(event)
    BY <1>5, FlightTypes DEF Awaited
  <2> QED
    BY <1>0, <1>5, <2>2, <2>3 DEF AnswersDue, Awaited
<1>6. ASSUME NEW ok \in BOOLEAN, SpontaneousHealthCheckReport(ok)
      PROVE  AnswersDue'
  <2>1. /\ [SpontaneousEvent EXCEPT !.ok = ok].type = "healthCheckReport"
        /\ [SpontaneousEvent EXCEPT !.ok = ok].inv = 0
        /\ [SpontaneousEvent EXCEPT !.ok = ok].flags = 1
    BY DEF SpontaneousEvent, maf_new_event
  <2> QED
    BY <1>5, <1>6, <2>1, OwnEvents DEF SpontaneousHealthCheckReport, amfVars
<1>7. CASE StopTerminatesAmfThread
  <2>1. CASE amfRunning
    <3>1. /\ maf_new_event("Terminate", 0, 0).type = "Terminate"
          /\ maf_new_event("Terminate", 0, 0).inv = 0
      BY DEF maf_new_event
    <3> QED
      BY <1>5, <1>7, <2>1, <3>1, OwnEvents
      DEF StopTerminatesAmfThread, comVars, amfVars
  <2>2. CASE ~amfRunning
    BY <1>1, <1>7, <2>2
    DEF StopTerminatesAmfThread, Still, comVars, qVars, haVars, histVars
  <2> QED
    BY <2>1, <2>2
<1>8. CASE AmfCalls
  <2>1. ASSUME NEW state, NEW ha, NEW immOk \in BOOLEAN,
               maf_amf_csi_set_callback(issued + 1, state, ha, immOk)
        PROVE  AnswersDue'
    <3> DEFINE inv == issued + 1
    <3>1. /\ AskedFor(CsiCalls(inv, ha, immOk)) /\ issued' = inv
          /\ immFailed' = (immFailed \/ ~immOk)
          /\ process' = IF immOk \/ acCallbacks THEN process ELSE "crashed"
          /\ IF SameMode(ModeOf(ha)) \/ ha = "QUIESCING"
             THEN UNCHANGED <<pending, csiInv>>
             ELSE pending' = pending \cup {inv} /\ csiInv' = inv
      BY <2>1, CsiSetAsks
    <3>2. immOk
      BY <3>1
    <3>3. process' # "response failed" /\ pending \subseteq pending'
      BY <1>0, <3>1
    <3>4. CASE SameMode(ModeOf(ha))
      <4>1. CsiCalls(inv, ha, immOk) = {}
        BY <3>2, <3>4 DEF CsiCalls
      <4> QED
        BY <3>1, <3>3, <4>1, CallDue
    <3>5. CASE ~SameMode(ModeOf(ha))
      <4>1. CsiCalls(inv, ha, immOk) = {ModeCall(inv, ha)}
        BY <3>2, <3>5 DEF CsiCalls
      <4>2. FlagsOf(ha) = 0 => ha # "QUIESCING"
        BY DEF FlagsOf
      <4>3. PICK call : call = ModeCall(inv, ha)
        OBVIOUS
      <4>4. Awaited(call.event)'
        BY <3>1, <3>5, <4>2, <4>3, CallFields, FlightTypes DEF Awaited
      <4>5. AskedFor({call}) /\ call.event.inv = inv
        BY <3>1, <4>1, <4>3, CallFields
      <4> QED
        BY <3>1, <3>3, <4>4, <4>5, CallDue
    <3> QED
      BY <3>4, <3>5
  <2>2. ASSUME UNCHANGED <<process, batch, pending, comVars, qVars>>,
               issued' = issued + 1
        PROVE  AnswersDue'
    <3>1. AskedFor({})
      BY <2>2 DEF AskedFor, comVars, qVars
    <3> QED
      BY <1>0, <2>2, <3>1, CallDue
  <2>3. ASSUME NEW type \in {"healthCheckReport", "prepareTerminationResponse"},
               NEW call,
               call = Call(maf_new_event(type, issued + 1, 0), "Unassigned"),
               upcalls' = upcalls \cup {call}, UNCHANGED <<eventq, batch>>,
               process' = process,
               issued' = issued + 1, pending' = pending \cup {issued + 1}
        PROVE  AnswersDue'
    <3>1. /\ call.event.inv = issued + 1 /\ call.event.type = type
          /\ call.event.flags = 0
      BY <2>3 DEF Call, maf_new_event
    <3>2. Awaited(call.event)'
      BY <2>3, <3>1, FlightTypes DEF Awaited
    <3>3. AskedFor({call})
      BY <2>3 DEF AskedFor
    <3> QED
      BY <1>0, <2>3, <3>1, <3>2, <3>3, CallDue
  <2>4. CASE maf_amf_healthcheck_callback
    <3>1. CASE acCallbacks
      BY <2>3, <2>4, <3>1 DEF maf_amf_healthcheck_callback, qVars
    <3>2. CASE ~acCallbacks
      BY <2>2, <2>4, <3>2 DEF maf_amf_healthcheck_callback, comVars
    <3> QED
      BY <3>1, <3>2
  <2>5. CASE maf_amf_comp_terminate_callback
    <3>1. CASE acCallbacks
      BY <2>3, <2>5, <3>1 DEF maf_amf_comp_terminate_callback, qVars
    <3>2. CASE ~acCallbacks
      <4>1. /\ AskedFor({}) /\ process' = "forced termination"
            /\ issued' = issued + 1 /\ UNCHANGED pending
        BY <2>5, <3>2 DEF maf_amf_comp_terminate_callback, AskedFor, qVars
      <4> QED
        BY <4>1, CallDue
    <3> QED
      BY <3>1, <3>2
  <2> QED
    BY <1>8, <2>1, <2>2, <2>4, <2>5, CallsAsk
<1> QED
  BY <1>1, <1>2, <1>3, <1>4, <1>6, <1>7, <1>8, StillSteps
  DEF Next, AmfThreadRuns, ComAnswers, StopRuns

\* Every step keeps the invariant.
LEMMA AnswerNext == TypeOK /\ AnswerInv /\ [Next]_vars => AnswerInv'
  BY DueNext, ImmFailedStays DEF AnswerInv

\* No event exists at first.
LEMMA AnswerInit == Init => AnswerInv
<1> SUFFICES ASSUME Init PROVE AnswersDue
  BY DEF AnswerInv
<1>1. upcalls = {} /\ eventq = <<>> /\ batch = <<>> /\ process = "up"
  BY DEF Init
<1>2. Elements(<<>>) = {} /\ NoRepeat(<<>>)
  BY DEF Elements, NoRepeat
<1> QED
  BY <1>1, <1>2 DEF AnswersDue, Distinct, Apart, NotAsked, InFlight

(***************************************************************************)
(* AMF is never answered twice, nor for an invocation it does not wait     *)
(* for, in any interleaving: only a failure of the object implementers     *)
(* makes saAmfResponse_wrapper leave the process.  This holds whether or   *)
(* not AMF interrupts a quiescing.                                         *)
(***************************************************************************)
THEOREM AnsweredOnce == Spec => []ResponseRefusedOnlyAfterImmFailure
<1>1. AnswerInv => ResponseRefusedOnlyAfterImmFailure
  BY DEF AnswerInv, AnswersDue, ResponseRefusedOnlyAfterImmFailure
<1> QED
  BY <1>1, AnswerInit, AnswerNext, TypeCorrect, PTL DEF Spec

----------------------------------------------------------------------------
(***************************************************************************)
(* The mode recorded for COM.                                              *)
(***************************************************************************)
\* A change of mode is always made for an invocation.
LEMMA ModeInvocation ==
    ASSUME TypeOK, NEW e \in InFlight, IsMode(e)
    PROVE  e.inv # 0 /\ e.flags \in {0, 1}
<1>1. e \in Event /\ e.type = "haModeAssumed"
  BY FlightTypes DEF IsMode
<1>2. e.inv \in Invocations /\ e.flags \in {0, 1}
  BY <1>1 DEF Event
<1>3. 0 \notin Invocations
  BY ConstantsAssumption DEF Invocations
<1> QED
  BY <1>2, <1>3

\* If AMF waits, it changes the CSI only when no change of mode is under way.
LEMMA NoModePending ==
    ASSUME TypeOK, ModeSettled, ~QuiescingInterrupted, CsiMayChange
    PROVE  (\A e \in InFlight : ~IsMode(e)) /\ comHaState = comMode
<1>1. csiInv = 0 /\ quiescing = 0
  BY DEF CsiMayChange
<1>2. \A e \in InFlight : ~IsMode(e)
  BY <1>1, ModeInvocation DEF ModeSettled, ModeKnown
<1> QED
  BY <1>2 DEF ModeSettled

\* A step that leaves the modes and the changes of mode alone.
LEMMA ModesAlone ==
    ASSUME ModeSettled,
           \A e \in InFlight' : IsMode(e) => e \in InFlight /\ ModeKnown(e)',
           \A e \in InFlight : IsMode(e) => e \in InFlight',
           \A u \in upcalls' : IsMode(u.event) => u \in upcalls,
           \A e \in Elements(eventq') \cup Elements(batch') : IsMode(e) =>
               e \in Elements(eventq) \cup Elements(batch),
           UNCHANGED <<comMode, comHaState, newComHaState>>
    PROVE  ModeSettled'
  BY DEF ModeSettled, RecordedMode

\* When no change of mode is under way, the recorded mode is the real one.
LEMMA ModesQuiet ==
    ASSUME \A e \in InFlight' : ~IsMode(e), comHaState' = comMode'
    PROVE  ModeSettled'
<1>1. \A u \in upcalls' : u.event \in InFlight'
  BY DEF InFlight
<1>2. \A e \in Elements(eventq') \cup Elements(batch') : e \in InFlight'
  BY DEF InFlight
<1> QED
  BY <1>1, <1>2 DEF ModeSettled

\* Handling one event.
LEMMA ModeHandled ==
    ASSUME TypeOK, AnswersDue, ModeSettled, HandleEvent
    PROVE  ModeSettled'
<1> DEFINE event == Head(batch)
<1>0. Handled /\ Distinct /\ event \in Event
  BY HandlersHandle DEF AnswersDue
<1>1. /\ InFlight' \subseteq InFlight /\ event \in InFlight
      /\ InFlight \subseteq InFlight' \cup {event}
  BY <1>0, FlightHandled
<1>2. \A e \in InFlight' : e.inv = event.inv => e.inv = 0
  BY <1>0, DistinctHandled
<1>3. /\ event \in Elements(batch)
      /\ Elements(batch') \subseteq Elements(batch)
      /\ eventq' = eventq /\ upcalls' = upcalls
  BY <1>0, ElementsTail DEF TypeOK, Handled
<1>4. ASSUME NEW e \in InFlight', IsMode(e) PROVE e.inv # event.inv
  BY <1>1, <1>2, <1>4, ModeInvocation
<1>5. CASE IsMode(event)
  <2>1. \A e \in InFlight' : ~IsMode(e)
    BY <1>1, <1>4, <1>5 DEF ModeSettled
  <2>2. PICK created \in BOOLEAN : maf_coremw_haModeAssumed_event(created)
    BY <1>5 DEF HandleEvent, HandleTerminate, Handling, IsMode,
                maf_coremw_healthCheckReport_event,
                maf_coremw_prepareTerminationResponse_event
  <2>3. comHaState' = RecordedMode(event) /\ UNCHANGED comMode
    BY <2>2 DEF maf_coremw_haModeAssumed_event, comVars
  <2>4. comMode = RecordedMode(event)
    BY <1>3, <1>5 DEF ModeSettled
  <2> QED
    BY <2>1, <2>3, <2>4, ModesQuiet
<1>6. CASE ~IsMode(event)
  <2>1. /\ UNCHANGED <<comMode, comHaState, newComHaState, quiescing>>
        /\ csiInv' \in {csiInv} \cup (IF csiInv = event.inv THEN {0} ELSE {})
    BY <1>6 DEF HandleEvent, HandleTerminate, Handling, IsMode,
                maf_coremw_haModeAssumed_event,
                maf_coremw_healthCheckReport_event,
                maf_coremw_prepareTerminationResponse_event, saAmfResponse,
                comVars, haVars, amfVars
  <2>2. ASSUME NEW e \in InFlight', IsMode(e)
        PROVE  e \in InFlight /\ ModeKnown(e)'
    <3>1. e \in InFlight /\ ModeKnown(e)
      BY <1>1, <2>2 DEF ModeSettled
    <3> QED
      BY <1>4, <2>1, <2>2, <3>1 DEF ModeKnown
  <2>3. \A e \in InFlight : IsMode(e) => e \in InFlight'
    BY <1>1, <1>6
  <2> QED
    BY <1>3, <2>1, <2>2, <2>3, ModesAlone
<1> QED
  BY <1>5, <1>6

\* COM answers a change of mode, or something else.
LEMMA ModeAnswered ==
    ASSUME TypeOK, AnswersDue, ModeSettled,
           NEW u \in upcalls, NEW ok \in BOOLEAN,
           \/ maf_coremw_haModeAssumed(u, ok)
           \/ maf_coremw_prepareTerminationResponse(u, ok)
           \/ maf_coremw_healthCheckReport(u, ok)
    PROVE  ModeSettled'
<1> DEFINE event == [u.event EXCEPT !.ok = ok]
<1>1. /\ AnsweredBy(u, event) /\ event \in Event
      /\ event.type = u.event.type /\ event.inv = u.event.inv
      /\ event.flags = u.event.flags /\ event.ok = ok
      /\ UNCHANGED <<amfVars, haVars>>
      /\ comMode' = IF ok /\ IsMode(u.event) THEN u.mode ELSE comMode
  BY AnswersAnswer
<1> HIDE DEF event
<1>2. /\ InFlight' \subseteq InFlight \cup {event}
      /\ InFlight \subseteq InFlight' \cup {u.event}
      /\ event \in InFlight' /\ u.event \in InFlight
  BY <1>1, FlightAnswered
<1>3. /\ Elements(eventq') = Elements(eventq) \cup {event}
      /\ Elements(batch') = Elements(batch) /\ upcalls' = upcalls \ {u}
  BY <1>1, ElementsAppended DEF AnsweredBy, TypeOK
<1>4. UNCHANGED <<csiInv, quiescing, comHaState, newComHaState>>
  BY <1>1 DEF amfVars, haVars
<1>5. CASE ~IsMode(u.event)
  <2>1. ~IsMode(event) /\ UNCHANGED comMode
    BY <1>1, <1>5 DEF IsMode
  <2>2. ASSUME NEW e \in InFlight', IsMode(e)
        PROVE  e \in InFlight /\ ModeKnown(e)'
    <3>1. e \in InFlight /\ ModeKnown(e)
      BY <1>2, <2>1, <2>2 DEF ModeSettled
    <3> QED
      BY <1>4, <3>1 DEF ModeKnown
  <2>3. \A e \in InFlight : IsMode(e) => e \in InFlight'
    BY <1>2, <1>5
  <2> QED
    BY <1>3, <1>4, <2>1, <2>2, <2>3, ModesAlone
<1>6. CASE IsMode(u.event)
  <2>1. IsMode(event)
    BY <1>1, <1>6 DEF IsMode
  <2>2. /\ \A e \in InFlight : IsMode(e) => ModeKnown(e) /\ e.inv = u.event.inv
        /\ u.mode = newComHaState /\ comMode = comHaState
    BY <1>2, <1>6 DEF ModeSettled
  <2>3. ModeKnown(event)
    BY <1>1, <1>2, <1>6, <2>2 DEF ModeKnown
  <2>4. \A e \in InFlight' : IsMode(e) => ModeKnown(e) /\ e.inv = u.event.inv
    BY <1>1, <1>2, <2>2, <2>3
  <2>5. \A v \in upcalls' : ~IsMode(v.event)
    BY <1>3, <2>2, FlightTypes DEF AnswersDue, Distinct
  <2>6. \A e \in Elements(eventq) \cup Elements(batch) : ~IsMode(e)
    BY <2>2, FlightTypes DEF AnswersDue, Distinct, NotAsked
  <2>7. comMode' = RecordedMode(event)'
    BY <1>1, <1>4, <1>6, <2>2 DEF RecordedMode
  <2>8. \A e \in InFlight' : IsMode(e) => ModeKnown(e)'
    BY <1>4, <2>4 DEF ModeKnown
  <2>9. \A e \in Elements(eventq') \cup Elements(batch') :
            IsMode(e) => e = event
    BY <1>3, <2>6
  <2> QED
    BY <1>2, <2>1, <2>4, <2>5, <2>7, <2>8, <2>9 DEF ModeSettled
<1> QED
  BY <1>5, <1>6

\* A CSI assignment starts a change of mode only if none is under way.
LEMMA ModeAssigned ==
    ASSUME TypeOK, ModeSettled, ~QuiescingInterrupted, CsiMayChange,
           NEW inv, NEW state, NEW ha, NEW immOk \in BOOLEAN,
           maf_amf_csi_set_callback(inv, state, ha, immOk), ~immFailed'
    PROVE  ModeSettled'
<1>1. /\ AskedFor(CsiCalls(inv, ha, immOk))
      /\ UNCHANGED <<comMode, comHaState>> /\ newComHaState' = ModeOf(ha)
      /\ immFailed' = (immFailed \/ ~immOk)
      /\ IF SameMode(ModeOf(ha)) \/ ha = "QUIESCING"
         THEN UNCHANGED <<pending, csiInv>>
         ELSE pending' = pending \cup {inv} /\ csiInv' = inv
      /\ quiescing' = IF ha = "QUIESCING" /\ ~SameMode(ModeOf(ha))
                      THEN inv ELSE 0
  BY CsiSetAsks
<1>2. (\A e \in InFlight : ~IsMode(e)) /\ comHaState = comMode /\ immOk
  BY <1>1, NoModePending
<1>3. CASE SameMode(ModeOf(ha))
  <2>1. CsiCalls(inv, ha, immOk) = {}
    BY <1>2, <1>3 DEF CsiCalls
  <2>2. InFlight' = InFlight
    BY <1>1, <2>1, FlightAsked
  <2> QED
    BY <1>1, <1>2, <2>2, ModesQuiet
<1>4. CASE ~SameMode(ModeOf(ha))
  <2>1. PICK call : call = ModeCall(inv, ha)
    OBVIOUS
  <2>2. AskedFor({call})
    BY <1>1, <1>2, <1>4, <2>1 DEF CsiCalls
  <2>3. InFlight' = InFlight \cup {call.event}
    BY <2>2, FlightAsked
  <2>4. ModeKnown(call.event)'
    BY <1>1, <1>4, <2>1, CallFields DEF ModeKnown, FlagsOf
  <2>5. \A e \in InFlight' : IsMode(e) => e = call.event
    BY <1>2, <2>3
  <2>6. \A u \in upcalls' : IsMode(u.event) => u = call
    BY <1>2, <2>2, FlightTypes DEF AskedFor
  <2>7. \A e \in Elements(eventq') \cup Elements(batch') : ~IsMode(e)
    BY <1>2, <2>2, FlightTypes DEF AskedFor
  <2>8. call.mode = newComHaState' /\ IsMode(call.event)
    BY <1>1, <2>1, CallFields DEF IsMode
  <2> QED
    BY <1>1, <1>2, <2>3, <2>4, <2>5, <2>6, <2>7, <2>8 DEF ModeSettled
<1> QED
  BY <1>3, <1>4

\* A step keeps the modes settled, if AMF waits for the end of a quiescing.
LEMMA SettledNext ==
    ASSUME TypeOK, AnswersDue, ModeSettled, [Next]_vars, ~immFailed',
           ~QuiescingInterrupted
    PROVE  ModeSettled'
<1>1. CASE Still
  <2>1. /\ InFlight' = InFlight
        /\ UNCHANGED <<upcalls, eventq, batch, csiInv, quiescing, comMode,
                       comHaState, newComHaState>>
    BY <1>1 DEF Still, InFlight, amfVars
  <2> QED
    BY <2>1, ModesAlone DEF ModeSettled, ModeKnown
<1>2. CASE maf_handle_events
  <2>1. Taken /\ UNCHANGED <<amfVars, comMode, haVars>>
    BY <1>2 DEF maf_handle_events, maf_event_getq, Taken, comVars
  <2>2. InFlight' = InFlight /\ UNCHANGED <<csiInv, quiescing>>
    BY <2>1, FlightTaken DEF amfVars
  <2>3. /\ Elements(eventq') \cup Elements(batch')
               \subseteq Elements(eventq) \cup Elements(batch)
        /\ upcalls' = upcalls
    <3>1. Elements(<<>>) = {}
      BY DEF Elements
    <3> QED
      BY <2>1, <3>1 DEF Taken
  <2>4. \A e \in InFlight' : IsMode(e) => e \in InFlight /\ ModeKnown(e)'
    BY <2>2 DEF ModeSettled, ModeKnown
  <2> QED
    BY <2>1, <2>2, <2>3, <2>4, ModesAlone DEF haVars
<1>3. ASSUME NEW event \in Event, ~IsMode(event), maf_event_add(event),
             UNCHANGED <<upcalls, batch, amfVars, comMode, haVars>>
      PROVE  ModeSettled'
  <2>1. Added(event)
    BY <1>3 DEF maf_event_add, Added
  <2>2. /\ InFlight' = InFlight \cup {event}
        /\ UNCHANGED <<csiInv, quiescing, upcalls>>
    BY <1>3, <2>1, FlightAdded DEF amfVars
  <2>3. /\ Elements(eventq') = Elements(eventq) \cup {event}
        /\ Elements(batch') = Elements(batch)
    BY <2>1, ElementsAppended DEF Added, TypeOK
  <2>4. \A e \in InFlight' : IsMode(e) => e \in InFlight /\ ModeKnown(e)'
    BY <1>3, <2>2 DEF ModeSettled, ModeKnown
  <2> QED
    BY <1>3, <2>2, <2>3, <2>4, ModesAlone DEF haVars
<1>4. ASSUME NEW ok \in BOOLEAN, SpontaneousHealthCheckReport(ok)
      PROVE  ModeSettled'
  <2>1. [SpontaneousEvent EXCEPT !.ok = ok].type = "healthCheckReport"
    BY DEF SpontaneousEvent, maf_new_event
  <2> QED
    BY <1>3, <1>4, <2>1, OwnEvents DEF SpontaneousHealthCheckReport, IsMode
<1>5. CASE StopTerminatesAmfThread
  <2>1. maf_new_event("Terminate", 0, 0).type = "Terminate"
    BY DEF maf_new_event
  <2>2. CASE amfRunning
    BY <1>3, <1>5, <2>1, <2>2, OwnEvents
    DEF StopTerminatesAmfThread, comVars, IsMode
  <2>3. CASE ~amfRunning
    BY <1>1, <1>5, <2>3
    DEF StopTerminatesAmfThread, Still, comVars, qVars, haVars, histVars
  <2> QED
    BY <2>2, <2>3
<1>6. CASE AmfCalls
  <2>1. ASSUME CsiMayChange, quiescing' = 0,
               UNCHANGED <<batch, comVars, haVars, qVars>>
        PROVE  ModeSettled'
    <3>1. InFlight' = InFlight
      BY <2>1 DEF InFlight, comVars, qVars
    <3> QED
      BY <2>1, <3>1, NoModePending, ModesQuiet DEF comVars, haVars
  <2>2. ASSUME NEW calls, AskedFor(calls),
               \A u \in calls : ~IsMode(u.event),
               UNCHANGED <<comMode, haVars, csiInv, quiescing>>
        PROVE  ModeSettled'
    <3>1. InFlight' = InFlight \cup {u.event : u \in calls}
      BY <2>2, FlightAsked
    <3>2. \A e \in InFlight' : IsMode(e) => e \in InFlight /\ ModeKnown(e)'
      BY <2>2, <3>1 DEF ModeSettled, ModeKnown
    <3> QED
      BY <2>2, <3>1, <3>2, ModesAlone DEF AskedFor, haVars
  <2>3. CASE maf_amf_healthcheck_callback
    <3> DEFINE call == Call(maf_new_event("healthCheckReport", issued + 1, 0),
                            "Unassigned")
    <3>1. ~IsMode(call.event)
      BY DEF Call, maf_new_event, IsMode
    <3>2. AskedFor({}) \/ AskedFor({call})
      BY <2>3 DEF maf_amf_healthcheck_callback, AskedFor, qVars
    <3> HIDE DEF call
    <3> QED
      BY <2>2, <2>3, <3>1, <3>2 DEF maf_amf_healthcheck_callback
  <2>4. CASE maf_amf_comp_terminate_callback
    <3> DEFINE call == Call(maf_new_event("prepareTerminationResponse",
                                          issued + 1, 0), "Unassigned")
    <3>1. ~IsMode(call.event)
      BY DEF Call, maf_new_event, IsMode
    <3>2. AskedFor({}) \/ AskedFor({call})
      BY <2>4 DEF maf_amf_comp_terminate_callback, AskedFor, qVars
    <3> HIDE DEF call
    <3> QED
      BY <2>2, <2>4, <3>1, <3>2 DEF maf_amf_comp_terminate_callback
  <2> QED
    BY <1>6, <2>1, <2>3, <2>4, CallsAsk, ModeAssigned
<1> QED
  BY <1>1, <1>2, <1>4, <1>5, <1>6, ModeHandled, ModeAnswered, StillSteps
  DEF Next, AmfThreadRuns, ComAnswers, StopRuns

\* Together with the answers that are due, the modes are inductive.
LEMMA ModeNext ==
    ASSUME ~QuiescingInterrupted
    PROVE  TypeOK /\ AnswerInv /\ ModeInv /\ [Next]_vars => ModeInv'
  BY SettledNext, ImmFailedStays DEF AnswerInv, ModeInv

\* No mode is set in the beginning.
LEMMA ModeInit == Init => ModeInv
<1> SUFFICES ASSUME Init PROVE ModeSettled
  BY DEF ModeInv
<1>1. /\ upcalls = {} /\ eventq = <<>> /\ batch = <<>>
      /\ comHaState = comMode
  BY DEF Init
<1>2. Elements(<<>>) = {}
  BY DEF Elements
<1> QED
  BY <1>1, <1>2 DEF ModeSettled, InFlight

(***************************************************************************)
(* If AMF waits for the end of a quiescing, maf_com_ha_state is the mode   *)
(* COM has whenever no setHaMode is under way, although the handler copies *)
(* it from a variable that every CSI assignment overwrites.                *)
(***************************************************************************)
THEOREM HaStateRecorded ==
    ASSUME ~QuiescingInterrupted
    PROVE  Spec => []HaStateAgrees
<1>1. ModeInv => HaStateAgrees
  BY DEF ModeInv, ModeSettled, HaStateAgrees, IsMode
<1> QED
  BY <1>1, AnswerInit, AnswerNext, ModeInit, ModeNext, TypeCorrect, PTL DEF Spec

\* A step that asks COM for a mode asks for another than the recorded one.
LEMMA OtherModeAsked ==
    ASSUME TypeOK, ModeSettled, [Next]_vars, ~QuiescingInterrupted,
           NEW u \in upcalls' \ upcalls, IsMode(u.event)
    PROVE  u.mode # comMode
<1>1. AmfCalls
  <2>1. CASE Still \/ maf_handle_events \/ StopTerminatesAmfThread
               \/ \E ok \in BOOLEAN : SpontaneousHealthCheckReport(ok)
    BY <2>1 DEF Still, maf_handle_events, StopTerminatesAmfThread,
                SpontaneousHealthCheckReport, comVars
  <2>2. CASE HandleEvent
    BY <2>2, HandlersHandle DEF Handled
  <2>3. CASE ComAnswers
    BY <2>3, AnswersAnswer DEF ComAnswers, AnsweredBy
  <2> QED
    BY <2>1, <2>2, <2>3, StillSteps DEF Next, AmfThreadRuns, StopRuns
<1>2. ASSUME NEW inv, NEW state, NEW ha, NEW immOk \in BOOLEAN, CsiMayChange,
             maf_amf_csi_set_callback(inv, state, ha, immOk)
      PROVE  u.mode # comMode
  <2>1. AskedFor(CsiCalls(inv, ha, immOk))
    BY <1>2, CsiSetAsks
  <2>2. u \in CsiCalls(inv, ha, immOk)
    BY <2>1 DEF AskedFor
  <2>3. u # ImmCall(inv)
    BY CallFields DEF IsMode
  <2>4. u = ModeCall(inv, ha) /\ ~SameMode(ModeOf(ha))
    BY <2>2, <2>3 DEF CsiCalls
  <2>5. comHaState = comMode
    BY <1>2, NoModePending
  <2> QED
    BY <2>4, <2>5, CallFields DEF SameMode
<1>3. CASE maf_amf_healthcheck_callback
  BY <1>3 DEF maf_amf_healthcheck_callback, Call, maf_new_event, IsMode
<1>4. CASE maf_amf_comp_terminate_callback
  <2>1. upcalls' \subseteq upcalls \cup {ImmCall(issued + 1)}
    BY <1>4 DEF maf_amf_comp_terminate_callback, ImmCall
  <2> QED
    BY <2>1, CallFields DEF IsMode
<1> QED
  BY <1>1, <1>2, <1>3, <1>4, CallsAsk DEF comVars

(***************************************************************************)
(* If AMF waits for the end of a quiescing, COM is never asked to go to    *)
(* the mode it is in, however its answers interleave with AMF's calls.     *)
(***************************************************************************)
THEOREM SameModeNeverSet ==
    ASSUME ~QuiescingInterrupted
    PROVE  Spec => NeverSetsSameMode
<1> DEFINE Other == \A u \in upcalls' \ upcalls :
                       u.event.type = "haModeAssumed" /\ ~immFailed
                           => u.mode # comMode
<1>1. TypeOK /\ ModeInv /\ [Next]_vars => [Other]_vars
  BY OtherModeAsked DEF ModeInv, IsMode
<1> QED
  BY <1>1, AnswerInit, AnswerNext, ModeInit, ModeNext, TypeCorrect, PTL
  DEF Spec, NeverSetsSameMode
=============================================================================
