------------------------- MODULE AlarmNotification -------------------------
(***************************************************************************)
(* The notification service of COM SA (ntf/ComSANtf.c): how the alarms and *)
(* CM notifications of NTF (the OpenSAF notification service) reach COM.   *)
(*                                                                         *)
(* When COM adds its filter, the service subscribes with NTF and starts a  *)
(* detached reader thread that fetches the alarms logged while COM was     *)
(* away.  Until the reader is done, new alarms, which the ntf thread       *)
(* dispatches, are queued behind the old ones; then the reader sends the   *)
(* queue and later alarms go to COM directly.  The MAF thread opens and    *)
(* closes the service, with alarms and reader threads under way.           *)
(*                                                                         *)
(* The sections under alarm_queue_lock and under notify_lock are one step  *)
(* each.  An alarm is its place in NTF's log, which is also its event      *)
(* time.  Alarms whose header COM does not want (convertHeader4) and the   *)
(* list of values lent to COM are left out.                                *)
(***************************************************************************)
EXTENDS Integers, Sequences, FiniteSets, Functions

CONSTANTS
    MaxAlarms,         \* bound: alarms NTF logs
    MaxOpens,          \* bound: openings of the service
    MaxFilters,        \* bound: filters COM adds in an opening
    MaxReaders,        \* bound: reader threads alive at a time
    MaxCalls,          \* bound: calls to NTF or MAF that fail, alarms NTF
                       \* discards and CM notifications, together
    MaxRetries,        \* OAM_SA_NTF_MAX_RETRIES
    ReaderMaxRetries   \* OAM_SA_NTF_READER_MAX_RETRIES

ASSUME ConstantsAssumption ==
    /\ {MaxAlarms, MaxOpens, MaxFilters, MaxReaders, MaxCalls,
        MaxRetries} \subseteq Nat
    /\ ReaderMaxRetries \in Nat \ {0}

VARIABLES
    sent,          \* NTF: alarms logged
    subscribed,    \* NTF: the alarm subscription
    pending,       \* NTF: notifications that wait for saNtfDispatch
    calls,         \* failed calls, discarded alarms and CM notifications
    handle,        \* ntfHandle is initialised
    polled,        \* the poll table holds NTF's selection object
    nFilter,       \* nFilter_V4: -1 or the event time in the filter
    router,        \* event_router_MAF # NULL
    flags,         \* the flags of the hand-over, see Flags
    alarmQueue,    \* the alarms reachable from alarmQueueFront
    tail,          \* what the pointer alarmQueue points to, see Tails
    cmLock,        \* holder of cm_notification_lock
    stop,          \* ntf_stop_thread
    failOver,      \* is_ntf_stop_component and _reason = MafFailingOver
    main,          \* the MAF thread: where it is in Open and Close
    opens,         \* openings so far
    filters,       \* filters added since the service was opened
    ntf,           \* the ntf thread
    reader,        \* the reader threads
    delivered,     \* COM: the alarms it was given for its present filter
    faults         \* history: what has gone wrong so far, see Faults

ntfService == <<sent, subscribed, pending, calls>>
session    == <<handle, polled, nFilter, router>>
queueVars  == <<alarmQueue, tail>>
mainVars   == <<cmLock, stop, failOver, main, opens, filters>>
vars == <<ntfService, session, flags, queueVars, mainVars, ntf, reader,
          delivered, faults>>

Alarms  == 1 .. MaxAlarms
Readers == 1 .. MaxReaders

(***************************************************************************)
(* The static variables of the hand-over.  callbackLastCmwNotificationID   *)
(* is the alarm whose notification left it (0: none).                      *)
(***************************************************************************)
Flags == [readOldAlarm : BOOLEAN, readOldAlarmDone : BOOLEAN,
          lastNotificationMatched : BOOLEAN,
          sReaderMaxRetries : Nat,
          callbackLast : 0 .. MaxAlarms]

InitialFlags == [readOldAlarm |-> FALSE, readOldAlarmDone |-> FALSE,
                 lastNotificationMatched |-> FALSE, sReaderMaxRetries |-> 0,
                 callbackLast |-> 0]

\* The last object of the queue, nothing, one that sendQueuedAlarms has
\* freed, or one that was linked behind a freed object.
Tails == {"last", "null", "freed", "detached"}

(***************************************************************************)
(* What the properties exclude by name.  "tail": an alarm was queued       *)
(* behind a freed object; "match": two different notifications were taken  *)
(* for the same; "read": NTF refused a call the reader needs; "discard":   *)
(* a discarded alarm was fetched while others were queued; "overlap": a    *)
(* reader thread was still running when the next filter was added or the   *)
(* service opened; "resubscribe": a filter was added after the reader had  *)
(* finished; "router": the close procedure gave up half-way; "finalize":   *)
(* saNtfFinalize failed with alarms of the session still being taken;      *)
(* "late": a CM callback had seen ntf_stop_thread clear when the close     *)
(* procedure began.                                                        *)
(***************************************************************************)
Faults == {"tail", "match", "read", "discard", "overlap", "resubscribe",
           "router", "finalize", "late"}

\* What NTF sends: an alarm, that one was discarded, or a CM notification.
CmNotification == [kind |-> "cm", id |-> 0]
Notifications  == [kind : {"alarm", "discarded"}, id : Alarms]
                  \cup {CmNotification}

NoReader == [pc |-> "none", since |-> 0, pos |-> 0, last |-> 0,
             rc |-> "ok", tries |-> 0, first |-> TRUE, opened |-> 0]
IdleNtf  == [pc |-> "idle", id |-> 0]

\* The ntf thread has an alarm in its hands, or a CM notification, or none.
NtfStates ==
    [pc : {"queue", "send"}, id : Alarms]
    \cup [pc : {"gone", "idle", "cmLock", "cmPush"}, id : {0}]

\* "since": the time in the filter; "pos" and "last": the alarm read and the
\* last one in the log; "first": the reader searches by the filter; "opened":
\* the opening it belongs to.
ReaderStates ==
    [pc : {"none", "begin", "initialize", "next", "drain", "return"},
     since : 0 .. MaxAlarms, pos : 0 .. MaxAlarms, last : 0 .. MaxAlarms,
     rc : {"ok", "again", "error"}, tries : 0 .. MaxRetries,
     first : BOOLEAN, opened : 0 .. MaxOpens]

ReaderAlive == \E r \in Readers : reader[r].pc # "none"

TypeOK ==
    /\ sent \in 0 .. MaxAlarms
    /\ subscribed \in BOOLEAN
    /\ pending \in Seq(Notifications)
    /\ calls \in 0 .. MaxCalls
    /\ handle \in BOOLEAN /\ polled \in BOOLEAN /\ router \in BOOLEAN
    /\ stop \in BOOLEAN /\ failOver \in BOOLEAN
    /\ nFilter \in -1 .. MaxAlarms
    /\ flags \in Flags
    /\ alarmQueue \in Seq(Alarms)
    /\ tail \in Tails
    /\ cmLock \in {"none", "ntf", "main"}
    /\ main \in {"closed", "open", "lock", "unregister", "finalize",
                 "unlock", "failed"}
    /\ opens \in 0 .. MaxOpens /\ filters \in 0 .. MaxFilters
    /\ ntf \in NtfStates
    /\ reader \in [Readers -> ReaderStates]
    /\ delivered \in Seq(Alarms)
    /\ faults \subseteq Faults

Init ==
    /\ sent \in 0 .. MaxAlarms /\ subscribed = FALSE /\ pending = << >>
    /\ calls = 0
    /\ handle = FALSE /\ polled = FALSE /\ nFilter = -1 /\ router = FALSE
    /\ flags = InitialFlags
    /\ alarmQueue = << >> /\ tail = "null"
    /\ cmLock = "none" /\ stop = FALSE /\ failOver = FALSE
    /\ main = "closed" /\ opens = 0 /\ filters = 0
    /\ ntf = IdleNtf
    /\ reader = [r \in Readers |-> NoReader]
    /\ delivered = << >>
    /\ faults = {}

(***************************************************************************)
(* A call to NTF or MAF succeeds, or one of a bounded number fails.        *)
(***************************************************************************)
Succeeds == UNCHANGED calls
Counted  == calls < MaxCalls /\ calls' = calls + 1
Fails    == Counted

Note(fault, happened) == faults' = IF happened THEN faults \cup {fault}
                                               ELSE faults

\* sendSaNtfNotification: COM is notified while the event router is known.
sendSaNtfNotification(id) ==
    delivered' = IF router THEN Append(delivered, id) ELSE delivered

-----------------------------------------------------------------------------
(***************************************************************************)
(* NTF (external).                                                         *)
(***************************************************************************)
\* An alarm is logged and sent to the subscriber, or, when the subscriber
\* is slow, its discarding is.
RaiseAlarm ==
    /\ sent < MaxAlarms
    /\ sent' = sent + 1
    /\ \/ /\ pending' = IF subscribed
                         THEN Append(pending, [kind |-> "alarm",
                                               id |-> sent + 1])
                         ELSE pending
          /\ UNCHANGED calls
       \/ /\ subscribed /\ Counted
          /\ pending' = Append(pending, [kind |-> "discarded",
                                         id |-> sent + 1])
    /\ UNCHANGED <<subscribed, session, flags, queueVars, mainVars, ntf,
                   reader, delivered, faults>>

\* CM notifications are subscribed to by the CM event handler.
ChangeConfiguration ==
    /\ handle /\ Counted
    /\ pending' = Append(pending, CmNotification)
    /\ UNCHANGED <<sent, subscribed, session, flags, queueVars, mainVars,
                   ntf, reader, delivered, faults>>

-----------------------------------------------------------------------------
(***************************************************************************)
(* The ntf thread: saNtfNotificationCallback4 up to its test of            *)
(* readOldAlarmDone, which it makes without a lock.                        *)
(***************************************************************************)
\* Mutant: the callback sends while old alarms are read.
whereToAlwaysSend == "send"
whereTo == IF flags.readOldAlarmDone THEN "send" ELSE "queue"

saNtfNotificationCallback4 ==
    /\ ntf.pc = "idle" /\ polled /\ handle /\ pending # << >>
    /\ Head(pending).kind = "alarm"
    /\ ntf' = IF nFilter = -1 THEN IdleNtf
              ELSE [pc |-> whereTo, id |-> Head(pending).id]
    /\ pending' = Tail(pending)
    /\ UNCHANGED <<sent, subscribed, calls, session, flags, queueVars,
                   mainVars, reader, delivered, faults>>

\* The section under alarm_queue_lock: remember the alarm and send it when
\* the reader has not begun, or has sent the queue; otherwise queue it.
queueAlarm ==
    /\ ntf.pc = "queue"
    /\ IF ~flags.readOldAlarm
       THEN /\ flags' = [flags EXCEPT !.callbackLast = ntf.id]
            /\ ntf' = [ntf EXCEPT !.pc = "send"]
            /\ UNCHANGED <<queueVars, faults>>
       ELSE /\ CASE tail = "null" -> /\ alarmQueue' = <<ntf.id>>
                                     /\ tail' = "last"
                 [] tail = "last" -> /\ alarmQueue' = Append(alarmQueue, ntf.id)
                                     /\ tail' = tail
                 [] OTHER -> alarmQueue' = alarmQueue /\ tail' = "detached"
            /\ Note("tail", tail \in {"freed", "detached"})
            /\ ntf' = IdleNtf
            /\ UNCHANGED flags
    /\ UNCHANGED <<ntfService, session, mainVars, reader, delivered>>

sendAlarm ==
    /\ ntf.pc = "send"
    /\ sendSaNtfNotification(ntf.id)
    /\ ntf' = IdleNtf
    /\ UNCHANGED <<ntfService, session, flags, queueVars, mainVars, reader,
                   faults>>

(***************************************************************************)
(* saNtfNotificationDiscardedCallback: readOldAlarms in the ntf thread,    *)
(* which looks for the discarded alarm and gives it to the callback with   *)
(* subscription id 0, so it is sent whatever the reader is doing.          *)
(***************************************************************************)
saNtfNotificationDiscardedCallback ==
    /\ ntf.pc = "idle" /\ polled /\ handle /\ pending # << >>
    /\ Head(pending).kind = "discarded"
    /\ pending' = Tail(pending)
    /\ \/ /\ failOver \/ stop \/ nFilter = -1
          /\ ntf' = IdleNtf /\ Succeeds /\ UNCHANGED faults
       \/ /\ Fails /\ Note("read", TRUE) /\ ntf' = IdleNtf
       \/ /\ ~failOver /\ ~stop /\ nFilter # -1 /\ Succeeds
          /\ ntf' = [pc |-> "send", id |-> Head(pending).id]
          /\ Note("discard", ~flags.readOldAlarmDone)
    /\ UNCHANGED <<sent, subscribed, session, flags, queueVars, mainVars,
                   reader, delivered>>

\* Mutant: the callback does not look at ntf_stop_thread.
cmNeverSkipped == FALSE
cmSkipped == stop

\* cmNotificationCallback: skipped while the service closes; otherwise the
\* event is built and pushed under cm_notification_lock.
cmNotificationCallback ==
    /\ ntf.pc = "idle" /\ polled /\ handle /\ pending # << >>
    /\ Head(pending).kind = "cm"
    /\ pending' = Tail(pending)
    /\ ntf' = IF cmSkipped THEN IdleNtf ELSE [IdleNtf EXCEPT !.pc = "cmLock"]
    /\ UNCHANGED <<sent, subscribed, calls, session, flags, queueVars,
                   mainVars, reader, delivered, faults>>

cmLocked ==
    /\ ntf.pc = "cmLock" /\ cmLock = "none"
    /\ cmLock' = "ntf"
    /\ ntf' = [ntf EXCEPT !.pc = "cmPush"]
    /\ UNCHANGED <<ntfService, session, flags, queueVars, stop, failOver,
                   main, opens, filters, reader, delivered, faults>>

cmPushed ==
    /\ ntf.pc = "cmPush"
    /\ cmLock' = "none"
    /\ ntf' = IdleNtf
    /\ UNCHANGED <<ntfService, session, flags, queueVars, stop, failOver,
                   main, opens, filters, reader, delivered, faults>>

\* ntf_thread leaves its loop when it finds ntf_stop_thread set.
ntfThreadEnds ==
    /\ ntf.pc = "idle" /\ stop
    /\ ntf' = [IdleNtf EXCEPT !.pc = "gone"]
    /\ UNCHANGED <<ntfService, session, flags, queueVars, mainVars, reader,
                   delivered, faults>>

-----------------------------------------------------------------------------
(***************************************************************************)
(* A reader thread: readOldAlarms.  A call returns rc; readerThread calls  *)
(* again while it is "again", and ends by setting readOldAlarmDone.        *)
(***************************************************************************)
\* The session with NTF in which the reader began still exists.
HandleValid(r) == handle /\ reader[r].opened = opens

At(r, pc, rc) ==
    [reader EXCEPT ![r] = [NoReader EXCEPT !.pc = pc, !.rc = rc,
                                           !.tries = reader[r].tries]]
Return(r, rc) == At(r, "return", rc)

\* Mutant: the calls of itself are not counted.
beginReadingUncounted == [flags EXCEPT !.readOldAlarm = TRUE]
beginReading == [flags EXCEPT !.readOldAlarm = TRUE,
                              !.sReaderMaxRetries = @ + 1]

\* From the start to saNtfNotificationReadInitialize.  A call that finds
\* readOldAlarm set searches for a notification id instead of by the filter.
readOldAlarms(r) ==
    /\ reader[r].pc = "begin"
    /\ \/ /\ failOver
          /\ reader' = Return(r, "ok")
          /\ Succeeds /\ UNCHANGED <<flags, faults>>
       \/ /\ ~failOver /\ handle /\ Succeeds
          /\ reader' = [reader EXCEPT ![r].pc = "initialize",
                             ![r].since = IF nFilter = -1 THEN 0 ELSE nFilter,
                             ![r].first = ~flags.readOldAlarm,
                             ![r].opened = opens]
          /\ flags' = beginReading
          /\ UNCHANGED faults
       \/ /\ ~failOver /\ ~handle
          /\ reader' = Return(r, "error")
          /\ Succeeds /\ UNCHANGED <<flags, faults>>
       \/ /\ ~failOver /\ Fails /\ Note("read", TRUE)
          /\ \E rc \in {"again", "error"} : reader' = Return(r, rc)
          /\ UNCHANGED flags
    /\ UNCHANGED <<sent, subscribed, pending, session, queueVars, mainVars,
                   ntf, delivered>>

\* The search by id is for an address (getNotificationId), which is no
\* notification's id: NTF finds nothing.
readInitialize(r) ==
    /\ reader[r].pc = "initialize"
    /\ \/ /\ HandleValid(r) /\ Succeeds /\ UNCHANGED faults
          /\ reader' = [reader EXCEPT ![r].pc = "next", ![r].rc = "ok",
                             ![r].pos = 0,
                             ![r].last = IF reader[r].first THEN sent ELSE 0]
       \/ /\ ~HandleValid(r) /\ Succeeds /\ UNCHANGED faults
          /\ reader' = Return(r, "error")
       \/ /\ Fails /\ Note("read", TRUE)
          /\ \E rc \in {"again", "error"} : reader' = Return(r, rc)
    /\ UNCHANGED <<sent, subscribed, pending, session, flags, queueVars,
                   mainVars, ntf, delivered>>

\* After the loop: send the queue, or, when alarms came before the reader
\* began and none of those read matches, call again, a few times.
AfterLoop(r, rc) ==
    At(r, IF \/ flags.lastNotificationMatched \/ flags.callbackLast = 0
             \/ flags.sReaderMaxRetries >= ReaderMaxRetries
          THEN "drain" ELSE "begin", rc)

\* The loop ends on NOT_EXIST, on an error, or once an alarm has been read
\* while the service closes.
readEnds(r) ==
    /\ reader[r].pc = "next"
    /\ \/ /\ HandleValid(r) /\ (reader[r].pos = reader[r].last \/ stop)
          /\ reader' = AfterLoop(r, "ok")
          /\ Succeeds /\ UNCHANGED faults
       \/ /\ ~HandleValid(r)
          /\ reader' = AfterLoop(r, "error")
          /\ Succeeds /\ UNCHANGED faults
       \/ /\ Fails /\ Note("read", TRUE)
          /\ \E rc \in {"again", "error"} : reader' = AfterLoop(r, rc)
    /\ UNCHANGED <<sent, subscribed, pending, session, flags, queueVars,
                   mainVars, ntf, delivered>>

\* The ids compared are the addresses of the ids, so any alarm may match the
\* last one that the callback saw, and that one need not.
getNotificationId(id, matches) == matches => flags.callbackLast # 0

\* An alarm younger than the filter's time is sent; the loop ends when its
\* id is that of the last alarm the callback sent before the reader began.
readNext(r) ==
    LET id == reader[r].pos + 1 IN
    /\ reader[r].pc = "next" /\ reader[r].pos < reader[r].last
    /\ HandleValid(r) /\ ~stop
    /\ IF reader[r].since = 0 \/ id > reader[r].since
       THEN \E matches \in BOOLEAN :
               /\ getNotificationId(id, matches)
               /\ IF nFilter # -1 THEN sendSaNtfNotification(id)
                                  ELSE UNCHANGED delivered
               /\ flags' = [flags EXCEPT !.lastNotificationMatched =
                                             @ \/ matches]
               /\ Note("match", matches /\ flags.callbackLast # id)
               /\ reader' = IF matches THEN At(r, "drain", "ok")
                             ELSE [reader EXCEPT ![r].pos = id]
       ELSE /\ reader' = [reader EXCEPT ![r].pos = id]
            /\ UNCHANGED <<flags, delivered, faults>>
    /\ UNCHANGED <<ntfService, session, queueVars, mainVars, ntf>>

\* One turn of sendQueuedAlarms, which holds alarm_queue_lock.  The object
\* sent is freed; the pointer alarmQueue keeps pointing to it.
sendQueuedAlarms(r) ==
    /\ reader[r].pc = "drain"
    /\ IF stop
       THEN /\ reader' = [reader EXCEPT ![r].pc = "return"]
            /\ UNCHANGED <<flags, queueVars, delivered>>
       ELSE IF alarmQueue = << >>
       THEN /\ flags' = [flags EXCEPT !.readOldAlarm = FALSE]
            /\ tail' = "null"
            /\ reader' = [reader EXCEPT ![r].pc = "return"]
            /\ UNCHANGED <<alarmQueue, delivered>>
       ELSE /\ sendSaNtfNotification(Head(alarmQueue))
            /\ alarmQueue' = Tail(alarmQueue)
            /\ tail' = IF Len(alarmQueue) = 1 /\ tail = "last" THEN "freed"
                                                               ELSE tail
            /\ UNCHANGED <<flags, reader>>
    /\ UNCHANGED <<ntfService, session, mainVars, ntf, faults>>

\* Mutant: a reader that may go on tries again without a limit.
retryUnlessError(r) == reader[r].rc # "error"
retryWanted(r) == reader[r].rc = "again" /\ reader[r].tries < MaxRetries

readerThread(r) ==
    /\ reader[r].pc = "return"
    /\ IF retryWanted(r)
       THEN /\ reader' = [reader EXCEPT ![r] =
                 [NoReader EXCEPT !.pc = "begin",
                                  !.tries = reader[r].tries + 1]]
            /\ UNCHANGED flags
       ELSE /\ reader' = [reader EXCEPT ![r] = NoReader]
            /\ flags' = [flags EXCEPT !.readOldAlarmDone = TRUE]
    /\ UNCHANGED <<ntfService, session, queueVars, mainVars, ntf, delivered,
                   faults>>

ReaderStep(r) ==
    \/ readOldAlarms(r) \/ readInitialize(r) \/ readEnds(r) \/ readNext(r)
    \/ sendQueuedAlarms(r) \/ readerThread(r)

-----------------------------------------------------------------------------
(***************************************************************************)
(* The MAF thread.  The availability controller has an ntf thread running  *)
(* when the component starts.                                              *)
(***************************************************************************)
\* Mutant: opening keeps the last alarm of the earlier session.
resetFlagsButCallbackLast ==
    [InitialFlags EXCEPT !.callbackLast = flags.callbackLast]
resetFlags == InitialFlags

\* When saNtfInitialize fails the session is what it was.  A later failure,
\* of a call to MAF, leaves NTF's new session initialised and polled, and
\* the event router known unless it is the call for it that failed.
maf_ComNtfServiceOpen ==
    /\ main \in {"closed", "failed"} /\ opens < MaxOpens
    /\ opens' = opens + 1
    /\ flags' = resetFlags
    /\ alarmQueue' = << >> /\ tail' = "null"
    /\ nFilter' = -1 /\ failOver' = FALSE
    /\ Note("overlap", ReaderAlive)
    /\ \/ /\ Fails /\ UNCHANGED <<handle, polled, pending, subscribed>>
          /\ router' = FALSE /\ main' = "closed"
       \/ /\ handle' = TRUE /\ polled' = TRUE
          /\ pending' = << >> /\ subscribed' = FALSE
          /\ \/ Fails /\ router' \in BOOLEAN /\ main' = "closed"
             \/ Succeeds /\ router' = TRUE /\ main' = "open"
    /\ ntf' = IF ntf.pc = "gone" /\ ~stop THEN IdleNtf ELSE ntf
    /\ delivered' = << >> /\ filters' = 0
    /\ UNCHANGED <<sent, cmLock, stop, reader>>

\* COM adds its filter, with the time of the youngest alarm it has, or none
\* after a cold start.  All of it is under notify_lock.
addFilter_V4 ==
    /\ main = "open" /\ nFilter = -1 /\ filters < MaxFilters
    /\ filters' = filters + 1
    /\ \E time \in 0 .. sent :
           \/ Fails /\ UNCHANGED <<nFilter, subscribed, reader, delivered,
                                   faults>>
           \/ /\ nFilter' = time /\ subscribed' = TRUE
              /\ delivered' = << >>
              /\ \/ /\ Succeeds
                    /\ \E r \in Readers :
                        /\ \A q \in Readers : reader[q].pc = "none" => r <= q
                        /\ reader[r].pc = "none"
                        /\ reader' = [reader EXCEPT ![r].pc = "begin"]
                    /\ faults' = faults
                         \cup (IF ReaderAlive THEN {"overlap"} ELSE {})
                         \cup (IF flags.readOldAlarmDone THEN {"resubscribe"}
                                                         ELSE {})
                 \/ Fails /\ Note("read", TRUE) /\ UNCHANGED reader
    /\ UNCHANGED <<sent, pending, handle, polled, router, flags, queueVars,
                   cmLock, stop, failOver, main, opens, ntf>>

\* NTF (external) drops what waits for the subscription to alarms; the CM
\* notifications stay.
withoutAlarms ==
    LET cms == {i \in DOMAIN pending : pending[i].kind = "cm"}
    IN  [i \in 1 .. Cardinality(cms) |-> CmNotification]

removeFilter_V4 ==
    /\ main = "open" /\ nFilter # -1
    /\ \/ Fails /\ UNCHANGED <<nFilter, subscribed, pending>>
       \/ /\ Succeeds /\ nFilter' = -1 /\ subscribed' = FALSE
          /\ pending' = withoutAlarms
    /\ UNCHANGED <<sent, handle, polled, router, flags, queueVars, mainVars,
                   ntf, reader, delivered, faults>>

\* maf_ComNtfServiceClose begins: the reason is noted, then ntf_stop_thread
\* is set.
maf_ComNtfServiceClose ==
    /\ main = "open"
    /\ main' = "lock"
    /\ stop' = TRUE
    /\ Note("late", ntf.pc = "cmLock")
    /\ UNCHANGED <<ntfService, session, flags, queueVars, cmLock, failOver,
                   opens, filters, ntf, reader, delivered>>

\* Once the lock is had the selection object leaves the poll table, if NTF
\* tells which it is.
closeLocks ==
    /\ main = "lock" /\ cmLock = "none"
    /\ cmLock' = "main"
    /\ \/ Succeeds /\ polled' = FALSE
       \/ Fails /\ UNCHANGED polled
    /\ main' = "unregister"
    /\ UNCHANGED <<sent, subscribed, pending, handle, nFilter, router, flags,
                   queueVars, stop, failOver, opens, filters, ntf, reader,
                   delivered, faults>>

\* Producer and consumer are taken away from the event router; the first of
\* these calls that fails ends the procedure, with the lock held and
\* ntf_stop_thread set.
closeUnregisters ==
    /\ main = "unregister"
    /\ \/ /\ Fails /\ Note("router", TRUE)
          /\ main' = "failed" /\ UNCHANGED router
       \/ /\ Succeeds /\ main' = "finalize" /\ router' = FALSE
          /\ UNCHANGED faults
    /\ UNCHANGED <<sent, subscribed, pending, handle, polled, nFilter, flags,
                   queueVars, cmLock, stop, failOver, opens, filters, ntf,
                   reader, delivered>>

\* saNtfFinalize waits for the dispatch that is using the handle (external);
\* when it fails the session stays, and the procedure goes on.
closeFinalizes ==
    /\ main = "finalize"
    /\ \/ /\ ntf.pc \in {"idle", "gone"} /\ Succeeds
          /\ handle' = FALSE /\ subscribed' = FALSE /\ pending' = << >>
          /\ UNCHANGED faults
       \/ /\ Fails /\ UNCHANGED <<handle, subscribed, pending>>
          /\ Note("finalize", polled \/ ntf.pc \in {"queue", "send"})
    /\ main' = "unlock"
    /\ UNCHANGED <<sent, polled, nFilter, router, flags, queueVars, cmLock,
                   stop, failOver, opens, filters, ntf, reader, delivered>>

closeUnlocks ==
    /\ main = "unlock"
    /\ stop' = FALSE /\ cmLock' = "none"
    /\ failOver' \in BOOLEAN
    /\ main' = "closed"
    /\ UNCHANGED <<ntfService, session, flags, queueVars, opens, filters, ntf,
                   reader, delivered, faults>>

CloseStep == closeLocks \/ closeUnregisters \/ closeFinalizes \/ closeUnlocks
NtfStep == \/ saNtfNotificationCallback4 \/ queueAlarm \/ sendAlarm
           \/ saNtfNotificationDiscardedCallback
           \/ cmNotificationCallback \/ cmLocked \/ cmPushed

Next ==
    \/ RaiseAlarm \/ ChangeConfiguration
    \/ NtfStep \/ ntfThreadEnds
    \/ \E r \in Readers : ReaderStep(r)
    \/ maf_ComNtfServiceOpen \/ addFilter_V4 \/ removeFilter_V4
    \/ maf_ComNtfServiceClose \/ CloseStep

Spec == Init /\ [][Next]_vars

(***************************************************************************)
(* The threads run, and calls to NTF and MAF return.                       *)
(***************************************************************************)
FairSpec == /\ Spec
            /\ WF_vars(NtfStep)
            /\ WF_vars(CloseStep)
            /\ \A r \in Readers : WF_vars(ReaderStep(r))

-----------------------------------------------------------------------------
(***************************************************************************)
(* COM has its filter and nothing is under way: every alarm that COM is to *)
(* have has had its chance.                                                *)
(***************************************************************************)
Quiet == /\ main = "open" /\ nFilter # -1 /\ ~ReaderAlive
         /\ pending = << >> /\ ntf.pc = "idle"

\* The alarms COM asks for with its filter.
Wanted == { id \in 1 .. sent : nFilter = 0 \/ id > nFilter }

(***************************************************************************)
(* Once nothing is under way COM has every alarm it asked for, whatever    *)
(* the ntf thread, the reader and openings and closings do, unless NTF     *)
(* refused the reader a call or one of the hazards in Faults has struck    *)
(* (readOldAlarms, sendQueuedAlarms, saNtfNotificationCallback4).          *)
(***************************************************************************)
NoAlarmMissed ==
    Quiet /\ faults \subseteq {"late", "discard"}
        => Wanted \subseteq Range(delivered)

(***************************************************************************)
(* Once nothing is under way the alarms last given to COM are in the order *)
(* in which NTF logged them: if COM was given an alarm behind a newer one, *)
(* it was given the newer one again, so an old alarm read late never hides *)
(* one (readOldAlarms, sendQueuedAlarms, saNtfNotificationCallback4).      *)
(***************************************************************************)
NewestAlarmLast ==
    Quiet /\ faults \subseteq {"late"}
        => \A i, j \in DOMAIN delivered :
              i < j /\ delivered[j] < delivered[i] =>
                 \E k \in DOMAIN delivered :
                    k > j /\ delivered[k] = delivered[i]

(***************************************************************************)
(* The comment in saNtfNotificationCallback4 about the queue: it is to     *)
(* "avoid notifications getting discarded/missed" while the reader fetches *)
(* the old alarms.  As NoAlarmMissed, with the queue itself in the scope.  *)
(***************************************************************************)
QueueMissesNone ==
    Quiet /\ faults \subseteq {"late", "discard", "tail"}
        => Wanted \subseteq Range(delivered)

(***************************************************************************)
(* A reader thread ends whatever NTF answers: its retries and its calls of *)
(* itself are bounded, and the queue it sends is not filled for ever.      *)
(***************************************************************************)
ReaderEnds ==
    \A r \in Readers : reader[r].pc = "begin" ~> reader[r].pc = "none"

(***************************************************************************)
(* Closing the service returns: the lock it takes from the CM callbacks    *)
(* and the wait for the dispatch in saNtfFinalize do not block each other, *)
(* unless a callback was between its test of ntf_stop_thread and the lock. *)
(***************************************************************************)
CloseReturns ==
    main = "lock" /\ faults \cap {"late", "router"} = {}
        ~> main \in {"closed", "failed"}

=============================================================================
