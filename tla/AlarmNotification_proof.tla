----------------------- MODULE AlarmNotification_proof -----------------------
(***************************************************************************)
(* Proofs about the notification service, for any number of alarms,        *)
(* openings, filters, reader threads and failed calls.                     *)
(***************************************************************************)
EXTENDS AlarmNotification, FiniteSetTheorems, SequenceTheorems, TLAPS

\* What NoAlarmMissed and NewestAlarmLast allow to have gone wrong.
Fine == faults \subseteq {"late", "discard"}
Calm == faults \subseteq {"late"}

Alive(r) == reader[r].pc # "none"

(***************************************************************************)
(* The MAF thread: what the service has when it is open, and that the ntf  *)
(* thread has no alarm and can take none when it is closed.                *)
(***************************************************************************)
SessionInv ==
    /\ main \in {"closed", "unlock"} /\ Fine =>
          ntf.pc \notin {"queue", "send"} /\ (polled => ~subscribed)
    /\ main \in {"closed", "open"} /\ Fine => ~stop
    /\ main = "failed" => ~Fine
    /\ main = "open" => handle /\ polled /\ router /\ ~failOver
    /\ main = "open" /\ Fine => ntf.pc # "gone"
    /\ main = "open" => (subscribed <=> nFilter # -1)
    /\ ~subscribed => \A i \in DOMAIN pending : pending[i].kind = "cm"

(***************************************************************************)
(* The readers: there is one at most, it belongs to this session and the   *)
(* present filter, and its place tells the flags.                          *)
(***************************************************************************)
ReaderOK(r) ==
    LET me == reader[r] IN
    /\ ~flags.readOldAlarmDone /\ me.rc = "ok"
    /\ me.pc \in {"initialize", "next", "drain"} => flags.readOldAlarm
    /\ me.pc = "return" => ~flags.readOldAlarm
    /\ me.pc \in {"initialize", "next"} => me.opened = opens
    /\ me.pc \in {"initialize", "next"} /\ nFilter # -1 /\ me.first =>
          me.since = nFilter
    /\ me.pc = "next" => IF me.first
                         THEN nFilter # -1 => flags.callbackLast <= me.last
                         ELSE me.last = 0

\* The session has no filter yet.
Fresh ==
    /\ nFilter = -1 /\ delivered = <<>> /\ ntf.pc \notin {"queue", "send"}
    /\ flags = InitialFlags /\ alarmQueue = <<>>

ReadersInv ==
    /\ \A r \in Readers : ~Alive(r) => reader[r] = NoReader
    /\ Fine => \A q, r \in Readers : Alive(q) /\ Alive(r) => q = r
    /\ Fine /\ main = "open" =>
          /\ \A r \in Readers : Alive(r) => ReaderOK(r)
          /\ ~ReaderAlive => IF flags.readOldAlarmDone
                             THEN ~flags.readOldAlarm ELSE Fresh

\* The pointer to the end of the queue is right, and no alarm waits in it
\* when no reader will send it.
QueueInv ==
    Fine /\ main = "open" =>
        /\ alarmQueue = <<>> \/ tail = "last"
        /\ ~flags.readOldAlarm => alarmQueue = <<>> /\ tail = "null"

(***************************************************************************)
(* The alarms on their way: those that wait for the dispatch, the one in   *)
(* the hands of the ntf thread, those in the queue, and those that the     *)
(* reader will read.                                                       *)
(***************************************************************************)
NoCm(p) == {i \in DOMAIN p : p[i].kind # "cm"}
Ids(p) == {p[i].id : i \in NoCm(p)}
Ordered(p) == \A i, j \in NoCm(p) : i < j => p[i].id < p[j].id

Pending == Ids(pending)
InNtf == IF ntf.pc \in {"queue", "send"} THEN {ntf.id} ELSE {}
Stream == Pending \cup InNtf \cup Range(alarmQueue)

Todo(r, y) ==
    LET me == reader[r] IN
    \/ me.pc = "begin" /\ ~flags.readOldAlarm
    \/ me.pc = "initialize" /\ me.first
    \/ me.pc = "next" /\ me.pos < y /\ y <= me.last
ToRead == {y \in 1 .. sent : \E r \in Readers : Todo(r, y)}
Due == Stream \cup ToRead

UpClosed(S) == \A x \in S : \A y \in x .. sent : y \in S
Below(S, T) == \A x \in S : \A y \in T : x < y

Live == main = "open" /\ nFilter # -1 /\ Fine

\* No alarm is lost: every alarm behind one that is on its way is so too.
NoneLost ==
    /\ nFilter <= sent
    /\ Pending \subseteq nFilter + 1 .. sent /\ UpClosed(Pending)
    /\ Ordered(pending)
    /\ InNtf \subseteq nFilter + 1 .. sent /\ UpClosed(Pending \cup InNtf)
    /\ Below(InNtf, Pending)
    /\ \A y \in Pending \cup InNtf : flags.callbackLast <= y
    /\ flags.callbackLast # 0 =>
          /\ flags.callbackLast \in nFilter + 1 .. sent
          /\ flags.callbackLast .. sent \subseteq Range(delivered) \cup Stream
    /\ nFilter + 1 .. sent \subseteq Range(delivered) \cup Due

StreamInv == Live => NoneLost

\* An alarm that was given before an older one has been or will be given again.
Settled(d, D) ==
    \A i, j \in DOMAIN d :
        i < j /\ d[j] < d[i] =>
           d[i] \in D \/ \E k \in DOMAIN d : k > j /\ d[k] = d[i]

Increasing(q) == \A i, j \in DOMAIN q : i < j => q[i] < q[j]

\* The reader reads for the first time: what was given so far is not newer
\* than what it will read.
FirstRead(r) == \/ reader[r].pc = "begin" /\ ~flags.readOldAlarm
                \/ reader[r].pc \in {"initialize", "next"} /\ reader[r].first
ReadSoFar(r) ==
    FirstRead(r) =>
        \A y \in Range(delivered) :
            \/ y <= flags.callbackLast
            \/ reader[r].pc = "next" /\ y <= reader[r].pos

InOrder ==
    /\ Range(alarmQueue) \subseteq nFilter + 1 .. sent /\ UpClosed(Stream)
    /\ Increasing(alarmQueue) /\ Below(Range(alarmQueue), Pending \cup InNtf)
    /\ ntf.pc = "send" =>
          /\ alarmQueue = <<>>
          /\ ~flags.readOldAlarmDone => ntf.id = flags.callbackLast
    /\ Range(delivered) \subseteq nFilter + 1 .. sent
    /\ \A r \in Readers : ReadSoFar(r)
    /\ Settled(delivered, Due)

OrderInv == Live /\ Calm => InOrder

\* A reader reads what NTF has logged.
LogInv == \A r \in Readers : reader[r].last <= sent

AlarmInv ==
    /\ TypeOK /\ SessionInv /\ ReadersInv /\ QueueInv /\ LogInv
    /\ StreamInv /\ OrderInv

-----------------------------------------------------------------------------
(***************************************************************************)
(* Types.                                                                  *)
(***************************************************************************)
\* The bounds are numbers.
LEMMA Bounds ==
    /\ MaxAlarms \in Nat /\ MaxOpens \in Nat /\ MaxFilters \in Nat
    /\ MaxReaders \in Nat /\ MaxCalls \in Nat /\ MaxRetries \in Nat
    /\ ReaderMaxRetries \in Nat
  BY ConstantsAssumption

\* The records have their fields.
LEMMA RecordTypes ==
    /\ \A n \in Notifications :
          n.kind \in {"alarm", "discarded", "cm"} /\ (n.kind # "cm" => n.id \in Alarms)
    /\ \A s \in NtfStates :
          /\ s.pc \in {"queue", "send", "gone", "idle", "cmLock", "cmPush"}
          /\ s.pc \in {"queue", "send"} => s.id \in Alarms
          /\ s.pc \notin {"queue", "send"} => s.id = 0
    /\ IdleNtf \in NtfStates
    /\ \A me \in ReaderStates :
          /\ me.pc \in {"none", "begin", "initialize", "next", "drain", "return"}
          /\ me.since \in 0 .. MaxAlarms /\ me.pos \in 0 .. MaxAlarms
          /\ me.last \in 0 .. MaxAlarms /\ me.rc \in {"ok", "again", "error"}
          /\ me.tries \in 0 .. MaxRetries /\ me.first \in BOOLEAN
          /\ me.opened \in 0 .. MaxOpens
    /\ NoReader \in ReaderStates
  BY Bounds
     DEF Notifications, CmNotification, NtfStates, IdleNtf, ReaderStates, NoReader, Alarms

\* A sequence of notifications without those for alarms.
LEMMA WithoutAlarms ==
    ASSUME pending \in Seq(Notifications)
    PROVE  /\ withoutAlarms \in Seq(Notifications)
           /\ \A i \in DOMAIN withoutAlarms : withoutAlarms[i].kind = "cm"
<1> DEFINE cms == {i \in DOMAIN pending : pending[i].kind = "cm"}
<1>1. DOMAIN pending = 1 .. Len(pending) /\ Len(pending) \in Nat
  BY LenProperties
<1>2. IsFiniteSet(cms)
  <2>1. IsFiniteSet(1 .. Len(pending))
    BY <1>1, FS_Interval
  <2>2. cms \subseteq 1 .. Len(pending)
    BY <1>1
  <2> HIDE DEF cms
  <2> QED
    BY <2>1, <2>2, FS_Subset
<1>3. Cardinality(cms) \in Nat
  BY <1>2, FS_CardinalityType
<1>4. CmNotification \in Notifications /\ CmNotification.kind = "cm"
  BY DEF Notifications, CmNotification
<1>5. withoutAlarms = [i \in 1 .. Cardinality(cms) |-> CmNotification]
  BY DEF withoutAlarms
<1> HIDE DEF cms
<1> QED
  BY <1>3, <1>4, <1>5, IsASeq

\* One reader is replaced.
LEMMA ReaderSet ==
    ASSUME reader \in [Readers -> ReaderStates], NEW r \in Readers,
           NEW me \in ReaderStates
    PROVE  [reader EXCEPT ![r] = me] \in [Readers -> ReaderStates]
  OBVIOUS

\* The states of a reader that a step leaves.
LEMMA AtType ==
    ASSUME TypeOK, NEW r \in Readers,
           NEW pc \in {"begin", "drain", "return"}, NEW rc \in {"ok", "again", "error"}
    PROVE  At(r, pc, rc) \in [Readers -> ReaderStates]
<1>1. reader[r] \in ReaderStates
  BY DEF TypeOK
<1>2. [NoReader EXCEPT !.pc = pc, !.rc = rc, !.tries = reader[r].tries] \in ReaderStates
  BY <1>1, RecordTypes, Bounds DEF NoReader, ReaderStates
<1> QED
  BY <1>2, ReaderSet DEF At, TypeOK

\* The initial state is well typed.
LEMMA TypeInit == Init => TypeOK
<1> SUFFICES ASSUME Init PROVE TypeOK
  OBVIOUS
<1>1. flags \in Flags
  BY Bounds DEF Init, InitialFlags, Flags
<1>2. ntf \in NtfStates /\ reader \in [Readers -> ReaderStates]
  BY RecordTypes DEF Init
<1> QED
  <2>1. /\ sent \in 0 .. MaxAlarms /\ calls \in 0 .. MaxCalls
        /\ nFilter \in -1 .. MaxAlarms
        /\ opens \in 0 .. MaxOpens /\ filters \in 0 .. MaxFilters
    BY Bounds DEF Init
  <2>2. /\ pending \in Seq(Notifications) /\ alarmQueue \in Seq(Alarms)
        /\ delivered \in Seq(Alarms)
    BY DEF Init
  <2>3. /\ tail \in Tails /\ faults \subseteq Faults
        /\ cmLock \in {"none", "ntf", "main"}
        /\ main \in {"closed", "open", "lock", "unregister", "finalize", "unlock", "failed"}
        /\ subscribed \in BOOLEAN /\ handle \in BOOLEAN /\ polled \in BOOLEAN
        /\ router \in BOOLEAN /\ stop \in BOOLEAN /\ failOver \in BOOLEAN
    BY DEF Init, Tails
  <2> QED
    BY <1>1, <1>2, <2>1, <2>2, <2>3 DEF TypeOK

\* Every step of every thread keeps the types.
LEMMA TypeStep == TypeOK /\ [Next]_vars => TypeOK'
<1> SUFFICES ASSUME TypeOK, [Next]_vars
             PROVE  TypeOK'
  OBVIOUS
<1> USE DEF Note, Counted, Fails, Succeeds
<1>n. /\ sent \in 0 .. MaxAlarms /\ calls \in 0 .. MaxCalls
      /\ nFilter \in -1 .. MaxAlarms
      /\ opens \in 0 .. MaxOpens /\ filters \in 0 .. MaxFilters
  BY DEF TypeOK
<1>s. /\ pending \in Seq(Notifications) /\ alarmQueue \in Seq(Alarms)
      /\ delivered \in Seq(Alarms)
  BY DEF TypeOK
<1>f. flags \in Flags /\ tail \in Tails /\ faults \subseteq Faults
  BY DEF TypeOK
<1>g. ntf \in NtfStates /\ reader \in [Readers -> ReaderStates]
  BY DEF TypeOK
<1>h. \A f \in {"tail", "read", "discard", "match", "overlap", "late", "router", "resubscribe",
             "finalize"} :
         f \in Faults
  BY DEF Faults
<1>0. CASE UNCHANGED vars
  BY <1>0 DEF TypeOK, vars, ntfService, session, queueVars, mainVars
<1>1. CASE RaiseAlarm
  <2>1. sent + 1 \in Alarms /\ sent' \in 0 .. MaxAlarms /\ calls' \in 0 .. MaxCalls
    BY <1>1, <1>n, Bounds DEF RaiseAlarm, Alarms
  <2>2. \A k \in {"alarm", "discarded"} : [kind |-> k, id |-> sent + 1] \in Notifications
    BY <2>1 DEF Notifications
  <2>3. pending' \in Seq(Notifications)
    <3>1. \E n \in Notifications : pending' = Append(pending, n) \/ pending' = pending
      BY <1>1, <2>2 DEF RaiseAlarm
    <3> QED
      BY <1>s, <3>1
  <2> QED
    BY <1>1, <2>1, <2>3 DEF RaiseAlarm, TypeOK, session, queueVars, mainVars
<1>2. CASE ChangeConfiguration
  <2>1. CmNotification \in Notifications
    BY DEF Notifications
  <2>2. pending' \in Seq(Notifications) /\ calls' \in 0 .. MaxCalls
    BY <1>2, <1>n, <1>s, <2>1, Bounds DEF ChangeConfiguration
  <2> QED
    BY <1>2, <2>2 DEF ChangeConfiguration, TypeOK, session, queueVars, mainVars
<1>3. CASE NtfStep \/ ntfThreadEnds
  <2>0. /\ pending # <<>> => /\ Head(pending) \in Notifications
                             /\ Tail(pending) \in Seq(Notifications)
        /\ IdleNtf \in NtfStates
        /\ \A pc \in {"cmLock", "gone"} : [IdleNtf EXCEPT !.pc = pc] \in NtfStates
        /\ \A pc \in {"queue", "send"} : \A id \in Alarms : [pc |-> pc, id |-> id] \in NtfStates
    <3>1. pending # <<>> => /\ Head(pending) \in Notifications
                            /\ Tail(pending) \in Seq(Notifications)
      BY HeadTailProperties DEF TypeOK
    <3> QED
      BY <3>1 DEF NtfStates, IdleNtf
  <2>1. CASE saNtfNotificationCallback4
    <3>1. Head(pending).id \in Alarms
      BY <2>0, <2>1, RecordTypes DEF saNtfNotificationCallback4
    <3>2. ntf' \in NtfStates /\ pending' \in Seq(Notifications)
      BY <2>0, <2>1, <3>1 DEF saNtfNotificationCallback4, whereTo
    <3> QED
      BY <2>1, <3>2 DEF saNtfNotificationCallback4, TypeOK, session, queueVars, mainVars
  <2>2. CASE queueAlarm
    <3>1. ntf.pc = "queue" /\ ntf.id \in Alarms /\ [ntf EXCEPT !.pc = "send"] \in NtfStates
      BY <2>2, RecordTypes DEF queueAlarm, TypeOK, NtfStates
    <3>2. ntf' \in NtfStates /\ flags' \in Flags
      BY <2>0, <2>2, <3>1, <1>f DEF queueAlarm, Flags, Alarms
    <3>3. alarmQueue' \in Seq(Alarms) /\ tail' \in Tails /\ faults' \subseteq Faults
      <4>1. \/ alarmQueue' = alarmQueue \/ alarmQueue' = <<ntf.id>>
            \/ alarmQueue' = Append(alarmQueue, ntf.id)
        BY <2>2, <1>f DEF queueAlarm, Tails, queueVars
      <4>2. tail' \in Tails
        BY <2>2, <1>f DEF queueAlarm, Tails, queueVars
      <4>3. faults' \subseteq Faults
        BY <2>2, <1>f, <1>h DEF queueAlarm
      <4> QED
        <5>1. <<ntf.id>> \in Seq(Alarms) /\ Append(alarmQueue, ntf.id) \in Seq(Alarms)
          BY <1>s, <3>1
        <5> QED
          BY <1>s, <4>1, <4>2, <4>3, <5>1, Zenon
    <3> QED
      BY <2>2, <3>2, <3>3 DEF queueAlarm, TypeOK, session, ntfService, mainVars
  <2>3. CASE sendAlarm
    <3>1. ntf.id \in Alarms
      BY <2>3, RecordTypes DEF sendAlarm, TypeOK
    <3>2. delivered' \in Seq(Alarms)
      BY <2>3, <3>1, <1>s DEF sendAlarm, sendSaNtfNotification
    <3> QED
      BY <2>0, <2>3, <3>2
         DEF sendAlarm, TypeOK, session, ntfService, mainVars, queueVars
  <2>4. CASE saNtfNotificationDiscardedCallback
    <3>1. Head(pending).id \in Alarms
      BY <2>0, <2>4, RecordTypes DEF saNtfNotificationDiscardedCallback
    <3>2. ntf' \in NtfStates /\ pending' \in Seq(Notifications)
      BY <2>0, <2>4, <3>1 DEF saNtfNotificationDiscardedCallback
    <3>3. faults' \subseteq Faults /\ calls' \in 0 .. MaxCalls
      BY <2>4, <1>n, <1>f, <1>h, Bounds DEF saNtfNotificationDiscardedCallback
    <3> QED
      BY <2>4, <3>2, <3>3
         DEF saNtfNotificationDiscardedCallback, TypeOK, session, queueVars, mainVars
  <2>5. CASE cmNotificationCallback
    BY <2>0, <2>5 DEF cmNotificationCallback, TypeOK, session, queueVars, mainVars
  <2>6. CASE cmLocked
    <3>1. [ntf EXCEPT !.pc = "cmPush"] \in NtfStates
      BY <2>6, RecordTypes DEF cmLocked, TypeOK, NtfStates
    <3> QED
      BY <2>6, <3>1 DEF cmLocked, TypeOK, session, queueVars, ntfService
  <2>7. CASE cmPushed
    BY <2>0, <2>7 DEF cmPushed, TypeOK, session, queueVars, ntfService
  <2>8. CASE ntfThreadEnds
    BY <2>0, <2>8 DEF ntfThreadEnds, TypeOK, session, queueVars, mainVars, ntfService
  <2> QED
    BY <1>3, <2>1, <2>2, <2>3, <2>4, <2>5, <2>6, <2>7, <2>8 DEF NtfStep
<1>4. ASSUME NEW r \in Readers, ReaderStep(r)
      PROVE  TypeOK'
  <2>0. reader[r] \in ReaderStates
    BY DEF TypeOK
  <2>1. CASE readOldAlarms(r)
    <3>1. reader' \in [Readers -> ReaderStates]
      <4>1. ASSUME reader' = [reader EXCEPT ![r].pc = "initialize",
                             ![r].since = IF nFilter = -1 THEN 0 ELSE nFilter,
                             ![r].first = ~flags.readOldAlarm,
                             ![r].opened = opens]
            PROVE  reader' \in [Readers -> ReaderStates]
        <5>1. flags.readOldAlarm \in BOOLEAN
          BY DEF TypeOK, Flags
        <5>2. (IF nFilter = -1 THEN 0 ELSE nFilter) \in 0 .. MaxAlarms
          BY <1>n, Bounds
        <5>3. (~flags.readOldAlarm) \in BOOLEAN /\ opens \in 0 .. MaxOpens
          BY DEF TypeOK
        <5> QED
          BY <4>1, <5>2, <5>3, <2>0 DEF TypeOK, ReaderStates
      <4> QED
        BY <2>1, <4>1, AtType DEF readOldAlarms, Return
    <3>2. flags' \in Flags
      <4>1. flags' = flags \/ flags' = beginReading
        BY <2>1 DEF readOldAlarms
      <4>2. beginReading \in Flags
        <5>1. flags.sReaderMaxRetries + 1 \in Nat
          BY <1>f DEF Flags
        <5> QED
          BY <5>1, <1>f DEF Flags, beginReading
      <4> QED
        BY <1>f, <4>1, <4>2
    <3>3. faults' \subseteq Faults /\ calls' \in 0 .. MaxCalls
      BY <2>1, <1>n, <1>f, <1>h, Bounds DEF readOldAlarms
    <3> QED
      BY <2>1, <3>1, <3>2, <3>3 DEF readOldAlarms, TypeOK, session, queueVars, mainVars
  <2>2. CASE readInitialize(r)
    <3>1. reader' \in [Readers -> ReaderStates]
      <4>1. ASSUME reader' = [reader EXCEPT ![r].pc = "next", ![r].rc = "ok", ![r].pos = 0,
                                ![r].last = IF reader[r].first THEN sent ELSE 0]
            PROVE  reader' \in [Readers -> ReaderStates]
        <5>1. (IF reader[r].first THEN sent ELSE 0) \in 0 .. MaxAlarms /\ 0 \in 0 .. MaxAlarms
          BY <1>n, Bounds
        <5> QED
          BY <4>1, <5>1, <1>g, <2>0 DEF ReaderStates
      <4> QED
        BY <2>2, <4>1, AtType DEF readInitialize, Return
    <3>3. faults' \subseteq Faults /\ calls' \in 0 .. MaxCalls
      BY <2>2, <1>n, <1>f, <1>h, Bounds DEF readInitialize
    <3> QED
      BY <2>2, <3>1, <3>3 DEF readInitialize, TypeOK, session, queueVars, mainVars
  <2>3. CASE readEnds(r)
    <3>1. reader' \in [Readers -> ReaderStates]
      BY <2>3, AtType DEF readEnds, AfterLoop
    <3>3. faults' \subseteq Faults /\ calls' \in 0 .. MaxCalls
      BY <2>3, <1>n, <1>f, <1>h, Bounds DEF readEnds
    <3> QED
      BY <2>3, <3>1, <3>3 DEF readEnds, TypeOK, session, queueVars, mainVars
  <2>4. CASE readNext(r)
    <3>0. reader[r].pos + 1 \in Alarms
      BY <2>0, <2>4, RecordTypes, Bounds DEF readNext, Alarms
    <3>1. reader' \in [Readers -> ReaderStates]
      <4>1. [reader EXCEPT ![r].pos = reader[r].pos + 1] \in [Readers -> ReaderStates]
        BY <2>0, <3>0, <1>g DEF ReaderStates, Alarms
      <4> QED
        BY <2>4, <4>1, AtType DEF readNext
    <3>2. flags' \in Flags /\ faults' \subseteq Faults
      BY <2>4, <1>f, <1>h DEF readNext, Flags
    <3>3. delivered' \in Seq(Alarms)
      <4>1. delivered' = delivered \/ delivered' = Append(delivered, reader[r].pos + 1)
        BY <2>4 DEF readNext, sendSaNtfNotification
      <4>2. \A x \in Alarms : Append(delivered, x) \in Seq(Alarms)
        BY <1>s
      <4> QED
        BY <3>0, <4>1, <4>2, <1>s
    <3> QED
      BY <2>4, <3>1, <3>2, <3>3
         DEF readNext, TypeOK, session, queueVars, mainVars, ntfService
  <2>5. CASE sendQueuedAlarms(r)
    <3>1. reader' \in [Readers -> ReaderStates] /\ flags' \in Flags /\ tail' \in Tails
      <4>1. tail' \in Tails
        BY <2>5, <1>f DEF sendQueuedAlarms, Tails, queueVars
      <4>2. flags' \in Flags
        BY <2>5, <1>f DEF sendQueuedAlarms, Flags
      <4>3. reader' = reader \/ reader' = [reader EXCEPT ![r].pc = "return"]
        BY <2>5 DEF sendQueuedAlarms
      <4>4. [reader EXCEPT ![r].pc = "return"] \in [Readers -> ReaderStates]
        BY <1>g, <2>0 DEF ReaderStates
      <4> QED
        BY <1>g, <4>1, <4>2, <4>3, <4>4
    <3>2. delivered' \in Seq(Alarms) /\ alarmQueue' \in Seq(Alarms)
      <4>1. alarmQueue # <<>> => /\ Head(alarmQueue) \in Alarms
                                 /\ Tail(alarmQueue) \in Seq(Alarms)
        BY <1>s, HeadTailProperties
      <4>2. \/ delivered' = delivered /\ alarmQueue' = alarmQueue
            \/ /\ alarmQueue # <<>> /\ alarmQueue' = Tail(alarmQueue)
               /\ \/ delivered' = delivered
                  \/ delivered' = Append(delivered, Head(alarmQueue))
        BY <2>5 DEF sendQueuedAlarms, sendSaNtfNotification, queueVars
      <4> QED
        <5>1. alarmQueue # <<>> => Append(delivered, Head(alarmQueue)) \in Seq(Alarms)
          BY <1>s, <4>1
        <5> QED
          BY <1>s, <4>1, <4>2, <5>1, Zenon
    <3> QED
      BY <2>5, <3>1, <3>2 DEF sendQueuedAlarms, TypeOK, session, mainVars, ntfService
  <2>6. CASE readerThread(r)
    <3>1. reader' \in [Readers -> ReaderStates]
      <4>1. retryWanted(r) =>
              [NoReader EXCEPT !.pc = "begin", !.tries = reader[r].tries + 1] \in ReaderStates
        <5>1. retryWanted(r) => reader[r].tries + 1 \in 0 .. MaxRetries
          BY <2>0, RecordTypes, Bounds DEF retryWanted
        <5> QED
          BY <5>1, RecordTypes DEF NoReader, ReaderStates
      <4> QED
        BY <2>6, <1>g, <4>1, RecordTypes, ReaderSet DEF readerThread
    <3>2. flags' \in Flags
      BY <2>6, <1>f DEF readerThread, Flags
    <3> QED
      BY <2>6, <3>1, <3>2
         DEF readerThread, TypeOK, session, mainVars, ntfService, queueVars
  <2> QED
    BY <1>4, <2>1, <2>2, <2>3, <2>4, <2>5, <2>6 DEF ReaderStep
<1>5. CASE maf_ComNtfServiceOpen
  <2>1. flags' \in Flags
    BY <1>5, Bounds DEF maf_ComNtfServiceOpen, resetFlags, InitialFlags, Flags
  <2>2. ntf' \in NtfStates /\ tail' \in Tails /\ faults' \subseteq Faults
    BY <1>5, <1>f, <1>g, <1>h, RecordTypes DEF maf_ComNtfServiceOpen, Tails
  <2>3. calls' \in 0 .. MaxCalls /\ opens' \in 0 .. MaxOpens
    BY <1>5, <1>n, Bounds DEF maf_ComNtfServiceOpen
  <2> QED
    <3>1. /\ pending' \in Seq(Notifications) /\ alarmQueue' \in Seq(Alarms)
          /\ delivered' \in Seq(Alarms)
      <4>1. pending' = pending \/ pending' = <<>>
        BY <1>5 DEF maf_ComNtfServiceOpen
      <4>2. <<>> \in Seq(Notifications) /\ <<>> \in Seq(Alarms)
        OBVIOUS
      <4>3. alarmQueue' = <<>> /\ delivered' = <<>>
        BY <1>5 DEF maf_ComNtfServiceOpen
      <4> QED
        BY <1>s, <4>1, <4>2, <4>3, Zenon
    <3>2. nFilter' \in -1 .. MaxAlarms /\ filters' \in 0 .. MaxFilters
      BY <1>5, Bounds DEF maf_ComNtfServiceOpen
    <3>3. /\ subscribed' \in BOOLEAN /\ handle' \in BOOLEAN /\ polled' \in BOOLEAN
          /\ router' \in BOOLEAN /\ failOver' \in BOOLEAN
          /\ main' \in {"closed", "open", "lock", "unregister", "finalize", "unlock", "failed"}
      BY <1>5 DEF maf_ComNtfServiceOpen, TypeOK
    <3> QED
      BY <1>5, <2>1, <2>2, <2>3, <3>1, <3>2, <3>3 DEF maf_ComNtfServiceOpen, TypeOK
<1>6. CASE addFilter_V4
  <2>1. reader' \in [Readers -> ReaderStates]
    <3>1. reader' = reader \/ \E r \in Readers : reader' = [reader EXCEPT ![r].pc = "begin"]
      BY <1>6 DEF addFilter_V4
    <3>2. \A r \in Readers : [reader EXCEPT ![r].pc = "begin"] \in [Readers -> ReaderStates]
      BY <1>g DEF ReaderStates
    <3> QED
      BY <1>g, <3>1, <3>2
  <2>2. faults' \subseteq Faults
    BY <1>6, <1>f, <1>h DEF addFilter_V4
  <2>3. calls' \in 0 .. MaxCalls /\ filters' \in 0 .. MaxFilters
    <3>1. /\ filters < MaxFilters /\ filters' = filters + 1
          /\ calls' = calls \/ (calls < MaxCalls /\ calls' = calls + 1)
      BY <1>6 DEF addFilter_V4
    <3> QED
      BY <1>n, <3>1, Bounds
  <2>4. nFilter' \in -1 .. MaxAlarms
    <3>1. nFilter' = nFilter \/ nFilter' \in 0 .. sent
      BY <1>6 DEF addFilter_V4
    <3> QED
      BY <1>n, <3>1, Bounds
  <2>5. subscribed' \in BOOLEAN /\ delivered' \in Seq(Alarms)
    <3>1. /\ subscribed' = subscribed \/ subscribed' = TRUE
          /\ delivered' = delivered \/ delivered' = <<>>
      BY <1>6 DEF addFilter_V4
    <3>2. subscribed' \in BOOLEAN
      BY <3>1 DEF TypeOK
    <3> QED
      <4>1. <<>> \in Seq(Alarms)
        OBVIOUS
      <4> QED
        BY <1>s, <3>1, <3>2, <4>1, Zenon
  <2> QED
    BY <1>6, <2>1, <2>2, <2>3, <2>4, <2>5 DEF addFilter_V4, TypeOK, queueVars
<1>7. CASE removeFilter_V4
  <2>1. pending' \in Seq(Notifications)
    BY <1>7, WithoutAlarms DEF removeFilter_V4, TypeOK
  <2>2. calls' \in 0 .. MaxCalls /\ nFilter' \in -1 .. MaxAlarms
    BY <1>7, <1>n, Bounds DEF removeFilter_V4
  <2>3. subscribed' \in BOOLEAN
    BY <1>7 DEF removeFilter_V4, TypeOK
  <2> QED
    BY <1>7, <2>1, <2>2, <2>3 DEF removeFilter_V4, TypeOK, queueVars, mainVars
<1>8. CASE maf_ComNtfServiceClose
  BY <1>8 DEF maf_ComNtfServiceClose, TypeOK, queueVars, session, ntfService, Faults
<1>9. CASE CloseStep
  <2>1. CASE closeLocks
    <3>1. calls' \in 0 .. MaxCalls
      BY <2>1, <1>n, Bounds DEF closeLocks
    <3>2. polled' \in BOOLEAN
      BY <2>1 DEF closeLocks, TypeOK
    <3> QED
      BY <2>1, <3>1, <3>2 DEF closeLocks, TypeOK, queueVars
  <2>2. CASE closeUnregisters
    <3>1. calls' \in 0 .. MaxCalls /\ faults' \subseteq Faults
      BY <2>2, <1>n, <1>f, <1>h, Bounds DEF closeUnregisters
    <3>2. /\ router' \in BOOLEAN
          /\ main' \in {"closed", "open", "lock", "unregister", "finalize", "unlock", "failed"}
      BY <2>2 DEF closeUnregisters, TypeOK
    <3> QED
      BY <2>2, <3>1, <3>2 DEF closeUnregisters, TypeOK, queueVars
  <2>3. CASE closeFinalizes
    <3>1. pending' \in Seq(Notifications) /\ handle' \in BOOLEAN /\ subscribed' \in BOOLEAN
      <4>1. <<>> \in Seq(Notifications)
        OBVIOUS
      <4>2. \/ UNCHANGED <<pending, handle, subscribed>>
            \/ pending' = <<>> /\ handle' = FALSE /\ subscribed' = FALSE
        BY <2>3 DEF closeFinalizes
      <4> QED
        BY <4>1, <4>2, Zenon DEF TypeOK
    <3>2. calls' \in 0 .. MaxCalls /\ faults' \subseteq Faults
      BY <2>3, <1>n, <1>f, <1>h, Bounds DEF closeFinalizes
    <3> QED
      BY <2>3, <3>1, <3>2 DEF closeFinalizes, TypeOK, queueVars
  <2>4. CASE closeUnlocks
    BY <2>4 DEF closeUnlocks, TypeOK, queueVars, session, ntfService
  <2> QED
    BY <1>9, <2>1, <2>2, <2>3, <2>4 DEF CloseStep
<1> QED
  BY <1>0, <1>1, <1>2, <1>3, <1>4, <1>5, <1>6, <1>7, <1>8, <1>9 DEF Next

-----------------------------------------------------------------------------
(***************************************************************************)
(* The session.                                                            *)
(***************************************************************************)
\* What has gone wrong stays on record.
LEMMA FaultsGrow == [Next]_vars => faults \subseteq faults'
<1> SUFFICES ASSUME [Next]_vars PROVE faults \subseteq faults'
  OBVIOUS
<1> USE DEF Note
<1>0. CASE UNCHANGED vars
  BY <1>0 DEF vars
<1>1. CASE RaiseAlarm \/ ChangeConfiguration
  BY <1>1 DEF RaiseAlarm, ChangeConfiguration
<1>2. CASE NtfStep \/ ntfThreadEnds
  BY <1>2 DEF NtfStep, ntfThreadEnds, saNtfNotificationCallback4, queueAlarm, sendAlarm,
              saNtfNotificationDiscardedCallback, cmNotificationCallback, cmLocked, cmPushed
<1>3. ASSUME NEW r \in Readers, ReaderStep(r) PROVE faults \subseteq faults'
  BY <1>3 DEF ReaderStep, readOldAlarms, readInitialize, readEnds, readNext,
              sendQueuedAlarms, readerThread
<1>4. CASE maf_ComNtfServiceOpen \/ addFilter_V4 \/ removeFilter_V4
  BY <1>4 DEF maf_ComNtfServiceOpen, addFilter_V4, removeFilter_V4
<1>5. CASE maf_ComNtfServiceClose \/ CloseStep
  BY <1>5 DEF maf_ComNtfServiceClose, CloseStep, closeLocks, closeUnregisters,
              closeFinalizes, closeUnlocks
<1> QED
  BY <1>0, <1>1, <1>2, <1>3, <1>4, <1>5 DEF Next

\* What the service has when it is open, and does not when it is closed, is kept.
LEMMA SessionStep == TypeOK /\ SessionInv /\ [Next]_vars => SessionInv'
<1> SUFFICES ASSUME TypeOK, SessionInv, [Next]_vars
             PROVE  SessionInv'
  OBVIOUS
<1>a. Fine' => Fine
  BY FaultsGrow DEF Fine
<1>b. ntf.pc \in {"queue", "send", "gone", "idle", "cmLock", "cmPush"}
  BY RecordTypes DEF TypeOK
<1> DEFINE NoAlarms(p) == \A i \in DOMAIN p : p[i].kind = "cm"
<1>c. ASSUME NEW n, n.kind = "cm", NoAlarms(pending)
      PROVE  NoAlarms(Append(pending, n))
  BY <1>c DEF TypeOK
<1>d. ASSUME pending # <<>>, NoAlarms(pending)
      PROVE  NoAlarms(Tail(pending)) /\ Head(pending).kind = "cm"
  BY <1>d DEF TypeOK
<1> HIDE DEF NoAlarms
<1>e. SessionInv <=>
        /\ main \in {"closed", "unlock"} /\ Fine =>
              ntf.pc \notin {"queue", "send"} /\ (polled => ~subscribed)
        /\ main \in {"closed", "open"} /\ Fine => ~stop
        /\ main = "failed" => ~Fine
        /\ main = "open" => handle /\ polled /\ router /\ ~failOver
        /\ main = "open" /\ Fine => ntf.pc # "gone"
        /\ main = "open" => (subscribed <=> nFilter # -1)
        /\ ~subscribed => NoAlarms(pending)
  BY DEF SessionInv, NoAlarms
<1>f. SessionInv' <=>
        /\ main' \in {"closed", "unlock"} /\ Fine' =>
              ntf'.pc \notin {"queue", "send"} /\ (polled' => ~subscribed')
        /\ main' \in {"closed", "open"} /\ Fine' => ~stop'
        /\ main' = "failed" => ~Fine'
        /\ main' = "open" => handle' /\ polled' /\ router' /\ ~failOver'
        /\ main' = "open" /\ Fine' => ntf'.pc # "gone"
        /\ main' = "open" => (subscribed' <=> nFilter' # -1)
        /\ ~subscribed' => NoAlarms(pending')
  BY DEF SessionInv, NoAlarms
<1>0. CASE UNCHANGED vars
  BY <1>0, <1>a, <1>e, <1>f DEF vars, ntfService, session, mainVars
<1>1. CASE RaiseAlarm
  <2>1. /\ UNCHANGED <<subscribed, session, mainVars, ntf>>
        /\ ~subscribed => pending' = pending
    BY <1>1 DEF RaiseAlarm
  <2> QED
    BY <1>a, <1>e, <1>f, <2>1 DEF session, mainVars
<1>2. CASE ChangeConfiguration
  <2>1. UNCHANGED <<subscribed, session, mainVars, ntf>>
    BY <1>2 DEF ChangeConfiguration
  <2>2. NoAlarms(pending) => NoAlarms(pending')
    BY <1>2, <1>c DEF ChangeConfiguration, CmNotification
  <2> QED
    BY <1>a, <1>e, <1>f, <2>1, <2>2 DEF session, mainVars
<1>3. CASE NtfStep
  <2>1. CASE \/ saNtfNotificationCallback4 \/ saNtfNotificationDiscardedCallback
             \/ cmNotificationCallback
    <3>1. /\ UNCHANGED <<subscribed, session, mainVars>> /\ polled
          /\ pending # <<>> /\ pending' = Tail(pending)
      BY <2>1 DEF saNtfNotificationCallback4, saNtfNotificationDiscardedCallback,
                  cmNotificationCallback, ntfService, session, mainVars
    <3>2. ntf'.pc # "gone"
      <4>1. CASE saNtfNotificationCallback4
        BY <4>1 DEF saNtfNotificationCallback4, IdleNtf, whereTo
      <4>2. CASE saNtfNotificationDiscardedCallback
        <5>1. ntf' = IdleNtf \/ ntf' = [pc |-> "send", id |-> Head(pending).id]
          BY <4>2 DEF saNtfNotificationDiscardedCallback
        <5> QED
          BY <5>1 DEF IdleNtf
      <4>3. CASE cmNotificationCallback
        BY <4>3 DEF cmNotificationCallback, IdleNtf
      <4> QED
        BY <2>1, <4>1, <4>2, <4>3
    <3>3. NoAlarms(pending) => NoAlarms(pending')
      BY <3>1, <1>d
    <3>4. NoAlarms(pending) => ntf'.pc \notin {"queue", "send"}
      <4>1. NoAlarms(pending) => cmNotificationCallback
        BY <2>1, <3>1, <1>d DEF saNtfNotificationCallback4, saNtfNotificationDiscardedCallback
      <4> QED
        BY <4>1 DEF cmNotificationCallback, IdleNtf
    <3> QED
      BY <1>a, <1>e, <1>f, <3>1, <3>2, <3>3, <3>4 DEF session, mainVars
  <2>2. CASE queueAlarm \/ sendAlarm
    <3>1. UNCHANGED <<subscribed, pending, session, mainVars>> /\ ntf.pc \in {"queue", "send"}
      BY <2>2 DEF queueAlarm, sendAlarm, ntfService
    <3>2. ntf'.pc # "gone"
      BY <2>2 DEF queueAlarm, sendAlarm, IdleNtf, TypeOK, NtfStates
    <3> QED
      BY <1>a, <1>e, <1>f, <3>1, <3>2 DEF session, mainVars
  <2>3. CASE cmLocked \/ cmPushed
    <3>1. /\ UNCHANGED <<subscribed, pending, session, stop, failOver, main>>
          /\ ntf.pc \in {"cmLock", "cmPush"}
      BY <2>3 DEF cmLocked, cmPushed, ntfService
    <3>2. ntf'.pc \notin {"gone", "queue", "send"}
      BY <2>3 DEF cmLocked, cmPushed, IdleNtf, TypeOK, NtfStates
    <3> QED
      BY <1>a, <1>e, <1>f, <3>1, <3>2 DEF session
  <2> QED
    BY <1>3, <2>1, <2>2, <2>3 DEF NtfStep
<1>4. CASE ntfThreadEnds
  <2>1. /\ UNCHANGED <<subscribed, pending, session, mainVars>> /\ stop
        /\ ntf'.pc = "gone"
    BY <1>4 DEF ntfThreadEnds, ntfService, IdleNtf
  <2> QED
    BY <1>a, <1>e, <1>f, <2>1 DEF session, mainVars
<1>5. ASSUME NEW r \in Readers, ReaderStep(r)
      PROVE  SessionInv'
  <2>1. UNCHANGED <<subscribed, pending, session, mainVars, ntf>>
    BY <1>5 DEF ReaderStep, readOldAlarms, readInitialize, readEnds, readNext,
                sendQueuedAlarms, readerThread, ntfService
  <2> QED
    BY <1>a, <1>e, <1>f, <2>1 DEF session, mainVars
<1>6. CASE maf_ComNtfServiceOpen
  <2>1. /\ main \in {"closed", "failed"} /\ ~failOver'
        /\ nFilter' = -1 /\ stop' = stop
        /\ \/ UNCHANGED <<polled, subscribed, pending>> /\ main' = "closed"
           \/ /\ pending' = <<>> /\ ~subscribed'
              /\ main' = "open" => handle' /\ polled' /\ router'
              /\ main' \in {"closed", "open"}
        /\ ntf' = IF ntf.pc = "gone" /\ ~stop THEN IdleNtf ELSE ntf
    BY <1>6 DEF maf_ComNtfServiceOpen
  <2>2. Fine' => main = "closed" /\ ~stop
    BY <2>1, <1>a, <1>e
  <2>3. ~subscribed' => NoAlarms(pending')
    BY <2>1, <1>e DEF NoAlarms
  <2>4. Fine' => ntf.pc \notin {"queue", "send"} /\ (polled => ~subscribed)
    BY <2>2, <1>a, <1>e
  <2>5. Fine' => ntf'.pc \notin {"queue", "send", "gone"}
    BY <2>1, <2>2, <2>4 DEF IdleNtf
  <2> QED
    BY <1>f, <2>1, <2>2, <2>3, <2>4, <2>5
<1>7. CASE addFilter_V4
  <2>1. /\ UNCHANGED <<pending, handle, polled, router, stop, failOver, main, ntf>>
        /\ main = "open"
        /\ \/ UNCHANGED <<nFilter, subscribed>>
           \/ nFilter' \in 0 .. sent /\ subscribed'
    BY <1>7 DEF addFilter_V4
  <2>2. nFilter' # nFilter => nFilter' # -1
    BY <2>1 DEF TypeOK
  <2> QED
    BY <1>a, <1>e, <1>f, <2>1, <2>2
<1>8. CASE removeFilter_V4
  <2>1. /\ UNCHANGED <<handle, polled, router, stop, failOver, main, ntf>>
        /\ \/ UNCHANGED <<nFilter, subscribed, pending>>
           \/ nFilter' = -1 /\ ~subscribed' /\ pending' = withoutAlarms
    BY <1>8 DEF removeFilter_V4, mainVars
  <2>2. NoAlarms(withoutAlarms)
    BY WithoutAlarms DEF NoAlarms, TypeOK
  <2> QED
    BY <1>a, <1>e, <1>f, <2>1, <2>2
<1>9. CASE maf_ComNtfServiceClose \/ closeLocks
  <2>1. UNCHANGED <<subscribed, pending, nFilter>> /\ main' \in {"lock", "unregister"}
    BY <1>9 DEF maf_ComNtfServiceClose, closeLocks, ntfService, session
  <2> QED
    BY <1>a, <1>e, <1>f, <2>1
<1>10. CASE closeUnregisters
  BY <1>10, <1>a, <1>e, <1>f DEF closeUnregisters, Note, Fine
<1>11. CASE closeFinalizes
  <2>1. NoAlarms(<<>>)
    BY DEF NoAlarms
  <2>2. main' = "unlock"
    BY <1>11 DEF closeFinalizes
  <2>3. CASE /\ ntf.pc \in {"idle", "gone"} /\ ntf' = ntf
             /\ ~subscribed' /\ pending' = <<>>
    BY <2>1, <2>2, <2>3, <1>f
  <2>4. CASE /\ UNCHANGED <<subscribed, pending, ntf, polled>>
             /\ Note("finalize", polled \/ ntf.pc \in {"queue", "send"})
    <3>1. Fine' => ~polled /\ ntf.pc \notin {"queue", "send"}
      BY <2>4 DEF Note, Fine
    <3> QED
      BY <2>2, <2>4, <3>1, <1>e, <1>f
  <2> QED
    BY <1>11, <2>3, <2>4 DEF closeFinalizes
<1>12. CASE closeUnlocks
  BY <1>12, <1>a, <1>e, <1>f DEF closeUnlocks, ntfService, session
<1> QED
  BY <1>0, <1>1, <1>2, <1>3, <1>4, <1>5, <1>6, <1>7, <1>8, <1>9, <1>10, <1>11, <1>12
     DEF Next, CloseStep

-----------------------------------------------------------------------------
(***************************************************************************)
(* The readers.                                                            *)
(***************************************************************************)
\* A step of one reader.
LEMMA ReaderMoves ==
    ASSUME ReadersInv, Fine' => Fine, main' = main, NEW r \in Readers, Alive(r),
           \A q \in Readers : q # r => reader'[q] = reader[q],
           ~Alive(r)' => reader'[r] = NoReader,
           Fine' /\ main = "open" =>
              IF Alive(r)' THEN ReaderOK(r)'
                           ELSE flags'.readOldAlarmDone /\ ~flags'.readOldAlarm
    PROVE  ReadersInv'
<1>1. \A q \in Readers : q # r => (Alive(q)' <=> Alive(q))
  BY DEF Alive
<1>2. \A q \in Readers : ~Alive(q)' => reader'[q] = NoReader
  BY <1>1 DEF ReadersInv
<1>3. Fine' => \A q \in Readers : Alive(q)' => q = r
  BY <1>1 DEF ReadersInv
<1>4. ReaderAlive' <=> \E q \in Readers : Alive(q)'
  BY DEF ReaderAlive, Alive
<1> QED
  BY <1>2, <1>3, <1>4 DEF ReadersInv

\* A step of somebody else.
LEMMA ReadersStay ==
    ASSUME ReadersInv, Fine' => Fine, main' = main, reader' = reader,
           Fine' /\ main = "open" =>
              /\ \A r \in Readers : Alive(r) /\ ReaderOK(r) => ReaderOK(r)'
              /\ flags'.readOldAlarmDone = flags.readOldAlarmDone
              /\ flags'.readOldAlarm = flags.readOldAlarm
              /\ ~ReaderAlive /\ Fresh => Fresh'
    PROVE  ReadersInv'
<1>1. (ReaderAlive' <=> ReaderAlive) /\ \A q \in Readers : Alive(q)' <=> Alive(q)
  BY DEF ReaderAlive, Alive
<1>2. \A q \in Readers : reader'[q] = reader[q]
  OBVIOUS
<1> QED
  BY <1>1, <1>2 DEF ReadersInv

\* At most one reader belongs to the session, and its place tells the flags.
LEMMA ReadersStep ==
    TypeOK /\ SessionInv /\ ReadersInv /\ StreamInv /\ [Next]_vars => ReadersInv'
<1> SUFFICES ASSUME TypeOK, SessionInv, ReadersInv, StreamInv, [Next]_vars
             PROVE  ReadersInv'
  OBVIOUS
<1>a. Fine' => Fine
  BY FaultsGrow DEF Fine
<1>b. \A r \in Readers : reader[r] \in ReaderStates
  BY DEF TypeOK
<1>c. /\ flags \in Flags /\ flags.callbackLast \in 0 .. MaxAlarms /\ sent \in 0 .. MaxAlarms
      /\ MaxAlarms \in Nat
  BY Bounds DEF TypeOK, Flags
<1>d. Fine /\ main = "open" => handle /\ ~stop /\ ~failOver
  BY DEF SessionInv
<1>0. CASE UNCHANGED <<session, flags, alarmQueue, main, opens, ntf, reader, delivered>>
  <2>1. \A r \in Readers : ReaderOK(r) => ReaderOK(r)'
    BY <1>0 DEF ReaderOK, session
  <2>2. Fresh => Fresh'
    BY <1>0 DEF Fresh, session
  <2> QED
    BY <1>0, <1>a, <2>1, <2>2, ReadersStay
<1>1. CASE RaiseAlarm \/ ChangeConfiguration
  BY <1>0, <1>1 DEF RaiseAlarm, ChangeConfiguration, queueVars, mainVars
<1>2. CASE NtfStep \/ ntfThreadEnds
  <2>1. CASE queueAlarm /\ ~flags.readOldAlarm
    <3>1. /\ flags' = [flags EXCEPT !.callbackLast = ntf.id] /\ ntf.pc = "queue"
          /\ UNCHANGED <<session, main, opens, reader>>
      BY <2>1 DEF queueAlarm, mainVars
    <3>2. flags'.readOldAlarm = flags.readOldAlarm /\ flags'.readOldAlarmDone = flags.readOldAlarmDone
      BY <3>1, <1>c DEF Flags
    <3>3. \A r \in Readers : ReaderOK(r) => ReaderOK(r)'
      BY <2>1, <3>1, <3>2 DEF ReaderOK, session
    <3>4. ~Fresh
      BY <3>1 DEF Fresh
    <3> QED
      BY <1>a, <3>1, <3>2, <3>3, <3>4, ReadersStay
  <2>2. CASE \/ sendAlarm \/ saNtfNotificationCallback4 \/ saNtfNotificationDiscardedCallback
             \/ cmNotificationCallback \/ cmLocked \/ cmPushed \/ ntfThreadEnds
             \/ (queueAlarm /\ flags.readOldAlarm)
    <3>1. UNCHANGED <<session, flags, main, opens, reader>>
      BY <2>2 DEF queueAlarm, sendAlarm, saNtfNotificationCallback4,
                  saNtfNotificationDiscardedCallback, cmNotificationCallback, cmLocked,
                  cmPushed, ntfThreadEnds, mainVars
    <3>2. \A r \in Readers : ReaderOK(r) => ReaderOK(r)'
      BY <3>1 DEF ReaderOK, session
    <3>3. ASSUME Fresh PROVE Fresh'
      <4>1. CASE sendAlarm \/ (queueAlarm /\ flags.readOldAlarm)
        BY <3>3, <4>1 DEF Fresh, sendAlarm, queueAlarm
      <4>2. CASE saNtfNotificationCallback4 \/ saNtfNotificationDiscardedCallback
        <5>1. ntf' = IdleNtf /\ UNCHANGED <<alarmQueue, delivered>>
          BY <3>3, <4>2 DEF Fresh, saNtfNotificationCallback4,
                            saNtfNotificationDiscardedCallback, queueVars
        <5> QED
          BY <3>1, <3>3, <5>1 DEF Fresh, IdleNtf, session
      <4>3. CASE cmNotificationCallback \/ cmLocked \/ cmPushed \/ ntfThreadEnds
        <5>1. ntf'.pc \notin {"queue", "send"} /\ UNCHANGED <<alarmQueue, delivered>>
          BY <4>3 DEF cmNotificationCallback, cmLocked, cmPushed, ntfThreadEnds, IdleNtf,
                      queueVars, TypeOK, NtfStates
        <5> QED
          BY <3>1, <3>3, <5>1 DEF Fresh, session
      <4> QED
        BY <2>2, <4>1, <4>2, <4>3
    <3> QED
      BY <1>a, <3>1, <3>2, <3>3, ReadersStay
  <2> QED
    BY <1>2, <2>1, <2>2 DEF NtfStep
<1>3. ASSUME NEW r \in Readers, ReaderStep(r)
      PROVE  ReadersInv'
  <2> DEFINE me == reader[r]
  <2>0. /\ main' = main /\ opens' = opens /\ nFilter' = nFilter
        /\ me \in ReaderStates /\ me.pc # "none"
        /\ Fine /\ main = "open" => ReaderOK(r)
    <3>1. /\ me.pc # "none" /\ main' = main /\ opens' = opens /\ nFilter' = nFilter
      BY <1>3 DEF ReaderStep, readOldAlarms, readInitialize, readEnds, readNext,
                  sendQueuedAlarms, readerThread, session, mainVars
    <3> QED
      BY <3>1, <1>b DEF ReadersInv, Alive
  <2>r. \A pc, rc : At(r, pc, rc) = [reader EXCEPT ![r] =
            [NoReader EXCEPT !.pc = pc, !.rc = rc, !.tries = me.tries]]
    BY DEF At
  <2>1. CASE readOldAlarms(r)
    <3>1. CASE /\ reader' = [reader EXCEPT ![r].pc = "initialize",
                             ![r].since = IF nFilter = -1 THEN 0 ELSE nFilter,
                             ![r].first = ~flags.readOldAlarm,
                             ![r].opened = opens]
               /\ flags' = beginReading
      <4>1. /\ flags'.readOldAlarm = TRUE /\ flags'.readOldAlarmDone = flags.readOldAlarmDone
        BY <3>1, <1>c DEF beginReading, Flags
      <4>2. /\ \A q \in Readers : q # r => reader'[q] = reader[q]
            /\ reader'[r].pc = "initialize" /\ reader'[r].opened = opens
            /\ reader'[r].since = IF nFilter = -1 THEN 0 ELSE nFilter
            /\ reader'[r].rc = me.rc
        BY <3>1, <2>0, <1>b DEF TypeOK, ReaderStates
      <4>3. Fine' /\ main = "open" => ReaderOK(r)'
        BY <2>0, <1>a, <4>1, <4>2 DEF ReaderOK
      <4> QED
        BY <1>a, <2>0, <4>2, <4>3, ReaderMoves DEF Alive
    <3>2. CASE /\ \E rc \in {"ok", "again", "error"} : reader' = Return(r, rc)
               /\ ~(Fine' /\ main = "open") /\ flags' = flags
      <4>1. /\ \A q \in Readers : q # r => reader'[q] = reader[q]
            /\ reader'[r].pc = "return"
        BY <3>2 DEF Return, At, TypeOK, NoReader
      <4> QED
        BY <1>a, <2>0, <3>2, <4>1, ReaderMoves DEF Alive
    <3> QED
      BY <2>1, <3>1, <3>2, <1>a, <1>d DEF readOldAlarms, Note, Fine
  <2>2. CASE readInitialize(r)
    <3>1. CASE /\ reader' = [reader EXCEPT ![r].pc = "next", ![r].rc = "ok", ![r].pos = 0,
                                ![r].last = IF me.first THEN sent ELSE 0]
               /\ me.pc = "initialize" /\ flags' = flags
      <4>1. /\ \A q \in Readers : q # r => reader'[q] = reader[q]
            /\ reader'[r].pc = "next" /\ reader'[r].opened = me.opened
            /\ reader'[r].since = me.since /\ reader'[r].first = me.first
            /\ reader'[r].last = IF me.first THEN sent ELSE 0
            /\ reader'[r].rc = "ok"
        BY <3>1, <2>0, <1>b DEF TypeOK, ReaderStates
      <4>2. Fine /\ main = "open" /\ nFilter # -1 => flags.callbackLast <= sent
        <5>1. Fine /\ main = "open" /\ nFilter # -1 =>
                 flags.callbackLast = 0 \/ flags.callbackLast \in nFilter + 1 .. sent
          BY DEF StreamInv, NoneLost, Live
        <5> QED
          BY <5>1, <1>c
      <4>3. Fine' /\ main = "open" => ReaderOK(r)'
        BY <2>0, <1>a, <3>1, <4>1, <4>2 DEF ReaderOK
      <4> QED
        BY <1>a, <2>0, <4>1, <4>3, ReaderMoves DEF Alive
    <3>2. CASE /\ \E rc \in {"ok", "again", "error"} : reader' = Return(r, rc)
               /\ ~(Fine' /\ main = "open") /\ flags' = flags
      <4>1. /\ \A q \in Readers : q # r => reader'[q] = reader[q]
            /\ reader'[r].pc = "return"
        BY <3>2 DEF Return, At, TypeOK, NoReader
      <4> QED
        BY <1>a, <2>0, <3>2, <4>1, ReaderMoves DEF Alive
    <3>3. Fine /\ main = "open" /\ me.pc = "initialize" => HandleValid(r)
      BY <1>d, <2>0 DEF ReaderOK, HandleValid
    <3> QED
      BY <2>2, <3>1, <3>2, <3>3, <1>a DEF readInitialize, Note, Fine
  <2>3. CASE readEnds(r)
    <3>1. PICK pc \in {"drain", "begin"}, rc \in {"ok", "again", "error"} :
             /\ reader' = At(r, pc, rc) /\ me.pc = "next" /\ flags' = flags
             /\ Fine' /\ main = "open" => rc = "ok"
      <4>1. Fine /\ main = "open" /\ me.pc = "next" => HandleValid(r)
        BY <1>d, <2>0 DEF ReaderOK, HandleValid
      <4> QED
        BY <2>3, <4>1, <1>a DEF readEnds, AfterLoop, Note, Fine
    <3>2. /\ \A q \in Readers : q # r => reader'[q] = reader[q]
          /\ reader'[r].pc = pc /\ reader'[r].rc = rc
      BY <3>1 DEF At, TypeOK, NoReader
    <3>3. Fine' /\ main = "open" => ReaderOK(r)'
      BY <2>0, <1>a, <3>1, <3>2 DEF ReaderOK
    <3> QED
      BY <1>a, <2>0, <3>2, <3>3, ReaderMoves DEF Alive
  <2>4. CASE readNext(r)
    <3>1. /\ me.pc = "next"
          /\ \/ reader' = At(r, "drain", "ok")
             \/ reader' = [reader EXCEPT ![r].pos = me.pos + 1]
          /\ \/ flags' = flags
             \/ \E b : flags' = [flags EXCEPT !.lastNotificationMatched = b]
      BY <2>4 DEF readNext
    <3>2. /\ flags'.readOldAlarm = flags.readOldAlarm
          /\ flags'.readOldAlarmDone = flags.readOldAlarmDone
          /\ flags'.callbackLast = flags.callbackLast
      BY <3>1, <1>c DEF Flags
    <3>3. CASE reader' = At(r, "drain", "ok")
      <4>1. /\ \A q \in Readers : q # r => reader'[q] = reader[q]
            /\ reader'[r].pc = "drain" /\ reader'[r].rc = "ok"
        BY <3>3 DEF At, TypeOK, NoReader
      <4>2. Fine' /\ main = "open" => ReaderOK(r)'
        BY <2>0, <1>a, <3>1, <3>2, <4>1 DEF ReaderOK
      <4> QED
        BY <1>a, <2>0, <4>1, <4>2, ReaderMoves DEF Alive
    <3>4. CASE reader' = [reader EXCEPT ![r].pos = me.pos + 1]
      <4>1. /\ \A q \in Readers : q # r => reader'[q] = reader[q]
            /\ reader'[r].pc = me.pc /\ reader'[r].opened = me.opened
            /\ reader'[r].since = me.since /\ reader'[r].first = me.first
            /\ reader'[r].last = me.last /\ reader'[r].rc = me.rc
        BY <3>4, <2>0, <1>b DEF TypeOK, ReaderStates
      <4>2. Fine' /\ main = "open" => ReaderOK(r)'
        BY <2>0, <1>a, <3>1, <3>2, <4>1 DEF ReaderOK
      <4> QED
        BY <1>a, <2>0, <3>1, <4>1, <4>2, ReaderMoves DEF Alive
    <3> QED
      BY <3>1, <3>3, <3>4
  <2>5. CASE sendQueuedAlarms(r)
    <3>1. CASE /\ reader' = [reader EXCEPT ![r].pc = "return"] /\ me.pc = "drain"
               /\ IF stop THEN flags' = flags
                          ELSE flags' = [flags EXCEPT !.readOldAlarm = FALSE]
      <4>1. /\ \A q \in Readers : q # r => reader'[q] = reader[q]
            /\ reader'[r].pc = "return" /\ reader'[r].rc = me.rc
        BY <3>1, <2>0, <1>b DEF TypeOK, ReaderStates
      <4>2. /\ ~stop => flags'.readOldAlarm = FALSE
            /\ flags'.readOldAlarmDone = flags.readOldAlarmDone
        BY <3>1, <1>c DEF Flags
      <4>3. Fine' /\ main = "open" => ReaderOK(r)'
        BY <2>0, <1>a, <1>d, <4>1, <4>2 DEF ReaderOK
      <4> QED
        BY <1>a, <2>0, <4>1, <4>3, ReaderMoves DEF Alive
    <3>2. CASE reader' = reader /\ flags' = flags
      <4>1. Fine' /\ main = "open" => ReaderOK(r)'
        BY <2>0, <1>a, <3>2 DEF ReaderOK
      <4> QED
        BY <1>a, <2>0, <3>2, <4>1, ReaderMoves DEF Alive
    <3> QED
      BY <2>5, <3>1, <3>2 DEF sendQueuedAlarms
  <2>6. CASE readerThread(r)
    <3>1. CASE retryWanted(r)
      <4>1. /\ \A q \in Readers : q # r => reader'[q] = reader[q]
            /\ reader'[r].pc = "begin" /\ me.pc = "return"
        BY <2>6, <3>1 DEF readerThread, TypeOK, NoReader
      <4>2. ~(Fine /\ main = "open")
        BY <2>0, <3>1 DEF ReaderOK, retryWanted
      <4> QED
        BY <1>a, <2>0, <4>1, <4>2, ReaderMoves DEF Alive
    <3>2. CASE ~retryWanted(r)
      <4>1. /\ \A q \in Readers : q # r => reader'[q] = reader[q]
            /\ reader'[r] = NoReader /\ me.pc = "return"
        BY <2>6, <3>2 DEF readerThread, TypeOK
      <4>2. flags'.readOldAlarmDone = TRUE /\ flags'.readOldAlarm = flags.readOldAlarm
        BY <2>6, <3>2, <1>c DEF readerThread, Flags
      <4>3. Fine' /\ main = "open" => ~flags.readOldAlarm
        BY <1>a, <2>0, <4>1 DEF ReaderOK
      <4>4. ~Alive(r)'
        BY <4>1 DEF Alive, NoReader
      <4> QED
        BY <1>a, <2>0, <4>1, <4>2, <4>3, <4>4, ReaderMoves DEF Alive
    <3> QED
      BY <3>1, <3>2
  <2> QED
    BY <1>3, <2>1, <2>2, <2>3, <2>4, <2>5, <2>6 DEF ReaderStep
<1>4. CASE maf_ComNtfServiceOpen
  <2>1. /\ reader' = reader /\ (Fine' => ~ReaderAlive) /\ main \in {"closed", "failed"}
        /\ flags' = InitialFlags /\ nFilter' = -1 /\ delivered' = <<>> /\ alarmQueue' = <<>>
        /\ ntf' = IF ntf.pc = "gone" /\ ~stop THEN IdleNtf ELSE ntf
    BY <1>4 DEF maf_ComNtfServiceOpen, resetFlags, Note, Fine
  <2>2. Fine' => ntf.pc \notin {"queue", "send"}
    BY <2>1, <1>a DEF SessionInv
  <2>3. Fine' => Fresh'
    BY <2>1, <2>2 DEF Fresh, IdleNtf
  <2>4. flags'.readOldAlarmDone = FALSE
    BY <2>1 DEF InitialFlags
  <2>5. (ReaderAlive' <=> ReaderAlive) /\ \A q \in Readers : Alive(q)' <=> Alive(q)
    BY <2>1 DEF ReaderAlive, Alive
  <2>6. ReaderAlive <=> \E q \in Readers : Alive(q)
    BY DEF ReaderAlive, Alive
  <2> QED
    BY <1>a, <2>1, <2>3, <2>4, <2>5, <2>6 DEF ReadersInv
<1>5. CASE addFilter_V4
  <2>1. CASE /\ reader' = reader
             /\ Fine' => UNCHANGED <<nFilter, delivered>>
    <3>1. UNCHANGED <<flags, main, opens, alarmQueue, ntf>> /\ main = "open"
      BY <1>5 DEF addFilter_V4, queueVars
    <3>2. Fine' => \A r \in Readers : ReaderOK(r) => ReaderOK(r)'
      BY <2>1, <3>1 DEF ReaderOK
    <3>3. Fine' /\ Fresh => Fresh'
      BY <2>1, <3>1 DEF Fresh
    <3> QED
      BY <1>a, <2>1, <3>1, <3>2, <3>3, ReadersStay
  <2>2. ASSUME NEW r \in Readers, reader[r].pc = "none",
               reader' = [reader EXCEPT ![r].pc = "begin"],
               Fine' => ~ReaderAlive /\ ~flags.readOldAlarmDone
        PROVE  ReadersInv'
    <3>1. /\ \A q \in Readers : q # r => reader'[q] = reader[q]
          /\ reader'[r].pc = "begin" /\ reader'[r].rc = reader[r].rc
      BY <2>2, <1>b DEF TypeOK, ReaderStates
    <3>2. reader[r].rc = "ok"
      BY <2>2 DEF ReadersInv, Alive, NoReader
    <3>3. \A q \in Readers : ~Alive(q)' => reader'[q] = NoReader
      BY <3>1 DEF Alive, ReadersInv
    <3>4. Fine' => \A q \in Readers : Alive(q)' => q = r
      BY <2>2, <3>1 DEF Alive, ReaderAlive
    <3>5. flags' = flags
      BY <1>5 DEF addFilter_V4
    <3>6. Fine' => ReaderOK(r)'
      BY <2>2, <3>1, <3>2, <3>5 DEF ReaderOK
    <3>7. ReaderAlive'
      BY <3>1 DEF ReaderAlive
    <3> QED
      BY <3>3, <3>4, <3>6, <3>7 DEF ReadersInv
  <2>3. \/ reader' = reader /\ UNCHANGED <<nFilter, delivered>>
        \/ reader' = reader /\ faults' = faults \cup {"read"}
        \/ \E r \in Readers :
              /\ reader[r].pc = "none" /\ reader' = [reader EXCEPT ![r].pc = "begin"]
              /\ faults' = faults
                    \cup (IF ReaderAlive THEN {"overlap"} ELSE {})
                    \cup (IF flags.readOldAlarmDone THEN {"resubscribe"} ELSE {})
    BY <1>5 DEF addFilter_V4, Note
  <2>4. /\ "read" \in faults' => ~Fine'
        /\ "overlap" \in faults' => ~Fine'
        /\ "resubscribe" \in faults' => ~Fine'
    BY DEF Fine
  <2> QED
    BY <2>1, <2>2, <2>3, <2>4
<1>6. CASE removeFilter_V4
  <2>1. /\ UNCHANGED <<flags, main, opens, reader>> /\ (nFilter' = nFilter \/ nFilter' = -1)
        /\ nFilter # -1
    BY <1>6 DEF removeFilter_V4, mainVars
  <2>2. \A r \in Readers : ReaderOK(r) => ReaderOK(r)'
    BY <2>1 DEF ReaderOK
  <2>3. ~Fresh
    BY <2>1 DEF Fresh
  <2> QED
    BY <1>a, <2>1, <2>2, <2>3, ReadersStay
<1>7. CASE maf_ComNtfServiceClose \/ CloseStep
  <2>1. reader' = reader /\ main' # "open"
    BY <1>7 DEF maf_ComNtfServiceClose, CloseStep, closeLocks, closeUnregisters,
                closeFinalizes, closeUnlocks
  <2>2. \A q \in Readers : Alive(q)' <=> Alive(q)
    BY <2>1 DEF Alive
  <2> QED
    BY <1>a, <2>1, <2>2 DEF ReadersInv
<1>8. CASE UNCHANGED vars
  BY <1>0, <1>8 DEF vars, queueVars, mainVars
<1> QED
  BY <1>1, <1>2, <1>3, <1>4, <1>5, <1>6, <1>7, <1>8 DEF Next

-----------------------------------------------------------------------------
(***************************************************************************)
(* The queue.                                                              *)
(***************************************************************************)
\* The pointer to the end of the queue stays right unless a freed object is linked to.
LEMMA QueueStep ==
    TypeOK /\ SessionInv /\ ReadersInv /\ QueueInv /\ [Next]_vars => QueueInv'
<1> SUFFICES ASSUME TypeOK, SessionInv, ReadersInv, QueueInv, [Next]_vars
             PROVE  QueueInv'
  OBVIOUS
<1>a. Fine' => Fine
  BY FaultsGrow DEF Fine
<1>b. flags \in Flags /\ alarmQueue \in Seq(Alarms)
  BY DEF TypeOK
<1>0. CASE /\ UNCHANGED <<alarmQueue, tail>> /\ (main' = "open" => main = "open")
           /\ flags'.readOldAlarm = flags.readOldAlarm \/ flags'.readOldAlarm = TRUE
  BY <1>0, <1>a DEF QueueInv
<1>1. CASE queueAlarm
  <2>1. CASE ~flags.readOldAlarm
    <3>1. UNCHANGED <<alarmQueue, tail, main>> /\ flags'.readOldAlarm = flags.readOldAlarm
      BY <1>1, <1>b, <2>1 DEF queueAlarm, queueVars, mainVars, Flags
    <3> QED
      BY <1>0, <3>1
  <2>2. CASE flags.readOldAlarm
    <3>1. main' = main /\ flags' = flags
      BY <1>1, <2>2 DEF queueAlarm, mainVars
    <3>2. Fine' => tail' = "last"
      <4>1. tail \in {"last", "null", "freed", "detached"}
        BY DEF TypeOK, Tails
      <4>2. tail \in {"freed", "detached"} => ~Fine'
        BY <1>1, <2>2 DEF queueAlarm, Note, Fine
      <4>3. tail \in {"last", "null"} => tail' = "last"
        BY <1>1, <2>2 DEF queueAlarm
      <4> QED
        BY <4>1, <4>2, <4>3
    <3> QED
      BY <2>2, <3>1, <3>2 DEF QueueInv
  <2> QED
    BY <2>1, <2>2
<1>2. ASSUME NEW r \in Readers, sendQueuedAlarms(r)
      PROVE  QueueInv'
  <2>1. CASE stop
    <3>1. UNCHANGED <<alarmQueue, tail, flags, main>>
      BY <1>2, <2>1 DEF sendQueuedAlarms, queueVars, mainVars
    <3> QED
      BY <1>0, <3>1
  <2>2. CASE ~stop /\ alarmQueue = <<>>
    BY <1>2, <2>2 DEF sendQueuedAlarms, QueueInv
  <2>3. CASE ~stop /\ alarmQueue # <<>>
    <3>1. /\ alarmQueue' = Tail(alarmQueue) /\ flags' = flags /\ main' = main
          /\ tail' = IF Len(alarmQueue) = 1 /\ tail = "last" THEN "freed" ELSE tail
      BY <1>2, <2>3 DEF sendQueuedAlarms, mainVars
    <3>2. Len(alarmQueue) = 1 => Tail(alarmQueue) = <<>>
      <4>1. alarmQueue # <<>> => /\ Tail(alarmQueue) \in Seq(Alarms)
                                 /\ Len(Tail(alarmQueue)) = Len(alarmQueue) - 1
        BY <1>b, HeadTailProperties
      <4>2. \A s \in Seq(Alarms) : Len(s) = 0 => s = <<>>
        <5>1. \A s \in Seq(Alarms) : s # <<>> => Len(s) \in Nat \ {0}
          BY EmptySeq
        <5> QED
          BY <5>1
      <4>3. Len(alarmQueue) = 1 => Len(Tail(alarmQueue)) = 0
        BY <2>3, <4>1
      <4> QED
        BY <2>3, <4>1, <4>2, <4>3
    <3> QED
      BY <1>a, <2>3, <3>1, <3>2 DEF QueueInv
  <2> QED
    BY <2>1, <2>2, <2>3
<1>3. CASE RaiseAlarm \/ ChangeConfiguration \/ addFilter_V4 \/ removeFilter_V4
  BY <1>0, <1>3 DEF RaiseAlarm, ChangeConfiguration, addFilter_V4, removeFilter_V4,
                    queueVars, mainVars
<1>4. CASE \/ saNtfNotificationCallback4 \/ sendAlarm \/ saNtfNotificationDiscardedCallback
           \/ cmNotificationCallback \/ cmLocked \/ cmPushed \/ ntfThreadEnds
  BY <1>0, <1>4 DEF saNtfNotificationCallback4, sendAlarm, saNtfNotificationDiscardedCallback,
                    cmNotificationCallback, cmLocked, cmPushed, ntfThreadEnds,
                    queueVars, mainVars
<1>5. ASSUME NEW r \in Readers,
             \/ readOldAlarms(r) \/ readInitialize(r) \/ readEnds(r) \/ readNext(r)
             \/ readerThread(r)
      PROVE  QueueInv'
  <2>1. /\ UNCHANGED <<alarmQueue, tail, main>>
        /\ \/ flags' = flags \/ flags' = beginReading
           \/ \E b : flags' = [flags EXCEPT !.lastNotificationMatched = b]
           \/ flags' = [flags EXCEPT !.readOldAlarmDone = TRUE]
    BY <1>5 DEF readOldAlarms, readInitialize, readEnds, readNext, readerThread,
                queueVars, mainVars
  <2>2. flags'.readOldAlarm = flags.readOldAlarm \/ flags'.readOldAlarm = TRUE
    BY <1>b, <2>1 DEF Flags, beginReading
  <2> QED
    BY <1>0, <2>1, <2>2
<1>6. CASE maf_ComNtfServiceOpen
  BY <1>6 DEF maf_ComNtfServiceOpen, QueueInv
<1>7. CASE maf_ComNtfServiceClose \/ CloseStep
  BY <1>7 DEF maf_ComNtfServiceClose, CloseStep, closeLocks, closeUnregisters,
              closeFinalizes, closeUnlocks, QueueInv
<1>8. CASE UNCHANGED vars
  BY <1>0, <1>8 DEF vars, queueVars, mainVars
<1> QED
  BY <1>1, <1>2, <1>3, <1>4, <1>5, <1>6, <1>7, <1>8 DEF Next, NtfStep, ReaderStep

-----------------------------------------------------------------------------
(***************************************************************************)
(* Sequences of notifications and of alarms.                               *)
(***************************************************************************)
\* One notification more.
LEMMA IdsAppend ==
    ASSUME NEW p \in Seq(Notifications), NEW n \in Notifications
    PROVE  /\ Ids(Append(p, n)) = Ids(p) \cup (IF n.kind = "cm" THEN {} ELSE {n.id})
           /\ Ordered(p) /\ (n.kind # "cm" => \A x \in Ids(p) : x < n.id) =>
                 Ordered(Append(p, n))
<1> DEFINE q == Append(p, n)
           l == Len(p)
<1>1. /\ l \in Nat /\ DOMAIN p = 1 .. l /\ DOMAIN q = 1 .. l + 1 /\ q[l + 1] = n
      /\ \A i \in 1 .. l : q[i] = p[i]
  OBVIOUS
<1> HIDE DEF q, l
<1>2. NoCm(q) = NoCm(p) \cup (IF n.kind = "cm" THEN {} ELSE {l + 1})
  BY <1>1 DEF NoCm
<1>3. \A i \in NoCm(p) : i \in 1 .. l /\ q[i] = p[i]
  BY <1>1 DEF NoCm
<1>4. Ids(q) = Ids(p) \cup (IF n.kind = "cm" THEN {} ELSE {n.id})
  BY <1>1, <1>2, <1>3 DEF Ids
<1>5. Ordered(p) /\ (n.kind # "cm" => \A x \in Ids(p) : x < n.id) => Ordered(q)
  BY <1>1, <1>2, <1>3 DEF Ordered, Ids
<1> QED
  BY <1>4, <1>5 DEF q

\* The first notification is taken.
LEMMA IdsTail ==
    ASSUME NEW p \in Seq(Notifications), p # <<>>
    PROVE  /\ Ids(p) = Ids(Tail(p)) \cup (IF Head(p).kind = "cm" THEN {} ELSE {Head(p).id})
           /\ Ordered(p) => /\ Ordered(Tail(p))
                            /\ Head(p).kind # "cm" => \A x \in Ids(Tail(p)) : Head(p).id < x
<1> DEFINE q == Tail(p)
           l == Len(p)
           n == Head(p)
<1>1. /\ l \in Nat /\ l > 0 /\ DOMAIN p = 1 .. l /\ DOMAIN q = 1 .. l - 1 /\ p[1] = n
      /\ \A i \in 1 .. l - 1 : q[i] = p[i + 1]
  OBVIOUS
<1> HIDE DEF q, l, n
<1>2. \A i \in NoCm(q) : i \in 1 .. l - 1 /\ i + 1 \in NoCm(p) /\ q[i] = p[i + 1]
  BY <1>1 DEF NoCm
<1>3. \A i \in NoCm(p) : i # 1 => i - 1 \in NoCm(q) /\ q[i - 1] = p[i]
  BY <1>1 DEF NoCm
<1>4. (1 \in NoCm(p) <=> n.kind # "cm") /\ NoCm(p) \subseteq 1 .. l
  BY <1>1 DEF NoCm
<1>5. Ids(p) = Ids(q) \cup (IF n.kind = "cm" THEN {} ELSE {n.id})
  BY <1>1, <1>2, <1>3, <1>4 DEF Ids
<1>6. ASSUME Ordered(p)
      PROVE  Ordered(q) /\ (n.kind # "cm" => \A x \in Ids(q) : n.id < x)
  <2>1. ASSUME NEW i \in NoCm(q), NEW j \in NoCm(q), i < j
        PROVE  q[i].id < q[j].id
    <3>1. /\ i + 1 \in NoCm(p) /\ j + 1 \in NoCm(p) /\ q[i] = p[i + 1] /\ q[j] = p[j + 1]
          /\ i + 1 < j + 1
      BY <1>2, <2>1
    <3> QED
      BY <1>6, <3>1 DEF Ordered
  <2>2. ASSUME n.kind # "cm", NEW i \in NoCm(q) PROVE n.id < q[i].id
    <3>1. 1 \in NoCm(p) /\ i + 1 \in NoCm(p) /\ 1 < i + 1 /\ q[i] = p[i + 1]
      BY <1>2, <1>4, <2>2
    <3> QED
      BY <1>1, <1>6, <3>1 DEF Ordered
  <2> QED
    BY <2>1, <2>2 DEF Ordered, Ids
<1> QED
  BY <1>5, <1>6 DEF q, n

\* An alarm is put behind a sequence.
LEMMA RangeAppend ==
    ASSUME NEW q \in Seq(Alarms), NEW x \in Alarms
    PROVE  /\ Range(Append(q, x)) = Range(q) \cup {x}
           /\ Increasing(q) /\ (\A y \in Range(q) : y < x) => Increasing(Append(q, x))
<1> DEFINE p == Append(q, x)
           l == Len(q)
<1>1. /\ l \in Nat /\ DOMAIN q = 1 .. l /\ DOMAIN p = 1 .. l + 1 /\ p[l + 1] = x
      /\ \A i \in 1 .. l : p[i] = q[i]
  OBVIOUS
<1> HIDE DEF p, l
<1>2. Range(p) = Range(q) \cup {x}
  BY <1>1 DEF Range
<1>3. Increasing(q) /\ (\A y \in Range(q) : y < x) => Increasing(p)
  BY <1>1 DEF Increasing, Range
<1> QED
  BY <1>2, <1>3 DEF p

\* The first alarm of a sequence is taken.
LEMMA RangeTail ==
    ASSUME NEW q \in Seq(Alarms), q # <<>>
    PROVE  /\ Range(q) = Range(Tail(q)) \cup {Head(q)} /\ Head(q) \in Alarms
           /\ Increasing(q) => /\ Increasing(Tail(q))
                               /\ \A y \in Range(Tail(q)) : Head(q) < y
<1> DEFINE p == Tail(q)
           l == Len(q)
           h == Head(q)
<1>1. /\ l \in Nat /\ l > 0 /\ DOMAIN q = 1 .. l /\ DOMAIN p = 1 .. l - 1 /\ q[1] = h
      /\ \A i \in 1 .. l - 1 : p[i] = q[i + 1]
      /\ h \in Alarms
  OBVIOUS
<1> HIDE DEF p, l, h
<1>2. \A i \in 1 .. l : i # 1 => i - 1 \in 1 .. l - 1 /\ p[i - 1] = q[i]
  BY <1>1
<1>3. Range(q) = Range(p) \cup {h}
  <2>1. \A y \in Range(q) : y \in Range(p) \/ y = h
    BY <1>1, <1>2 DEF Range
  <2>2. \A i \in 1 .. l - 1 : i + 1 \in 1 .. l /\ p[i] = q[i + 1]
    BY <1>1
  <2>3. Range(p) \subseteq Range(q)
    BY <1>1, <2>2 DEF Range
  <2>4. h \in Range(q)
    BY <1>1 DEF Range
  <2> QED
    BY <2>1, <2>3, <2>4
<1>4. ASSUME Increasing(q)
      PROVE  Increasing(p) /\ \A y \in Range(p) : h < y
  <2>1. ASSUME NEW i \in 1 .. l - 1, NEW j \in 1 .. l - 1, i < j
        PROVE  p[i] < p[j]
    <3>1. /\ i + 1 \in 1 .. l /\ j + 1 \in 1 .. l /\ i + 1 < j + 1
          /\ p[i] = q[i + 1] /\ p[j] = q[j + 1]
      BY <1>1, <2>1
    <3> QED
      BY <1>1, <1>4, <3>1 DEF Increasing
  <2>2. ASSUME NEW i \in 1 .. l - 1 PROVE h < p[i]
    <3>1. 1 \in 1 .. l /\ i + 1 \in 1 .. l /\ 1 < i + 1 /\ p[i] = q[i + 1]
      BY <1>1
    <3> QED
      BY <1>1, <1>4, <3>1 DEF Increasing
  <2> QED
    BY <1>1, <2>1, <2>2 DEF Increasing, Range
<1> QED
  BY <1>1, <1>3, <1>4 DEF p, h

\* An alarm is given, and the newer ones given before it are still due.
LEMMA SettledMore ==
    ASSUME NEW d \in Seq(Alarms), NEW x \in Alarms, NEW D, NEW E, Settled(d, D),
           \A y \in Range(d) : (y > x => y \in E) /\ (y \in D => y = x \/ y \in E)
    PROVE  Settled(Append(d, x), E)
<1> DEFINE p == Append(d, x)
           l == Len(d)
<1>1. /\ l \in Nat /\ DOMAIN d = 1 .. l /\ DOMAIN p = 1 .. l + 1 /\ p[l + 1] = x
      /\ \A i \in 1 .. l : p[i] = d[i] /\ d[i] \in Range(d) /\ d[i] \in Nat
      /\ x \in Nat
  <2>1. /\ l \in Nat /\ DOMAIN d = 1 .. l /\ DOMAIN p = 1 .. l + 1 /\ p[l + 1] = x
        /\ \A i \in 1 .. l : p[i] = d[i] /\ d[i] \in Alarms
    OBVIOUS
  <2>2. \A y \in Alarms : y \in Nat
    BY Bounds DEF Alarms
  <2> HIDE DEF p, l
  <2> QED
    BY <2>1, <2>2 DEF Range
<1> HIDE DEF p, l
<1>2. ASSUME NEW i \in 1 .. l + 1, NEW j \in 1 .. l + 1, i < j, p[j] < p[i]
      PROVE  p[i] \in E \/ \E k \in 1 .. l + 1 : k > j /\ p[k] = p[i]
  <2>1. i \in 1 .. l /\ p[i] = d[i]
    BY <1>1, <1>2
  <2>2. CASE j = l + 1
    BY <1>1, <1>2, <2>1, <2>2
  <2>3. CASE j \in 1 .. l
    <3>1. d[i] \in D \/ \E k \in 1 .. l : k > j /\ d[k] = d[i]
      BY <1>1, <1>2, <2>1, <2>3 DEF Settled
    <3>2. CASE \E k \in 1 .. l : k > j /\ d[k] = d[i]
      BY <1>1, <2>1, <3>2
    <3>3. CASE d[i] \in D
      BY <1>1, <2>1, <2>3, <3>3
    <3> QED
      BY <3>1, <3>2, <3>3
  <2> QED
    BY <1>1, <2>2, <2>3
<1>3. Settled(p, E)
  BY <1>1, <1>2 DEF Settled
<1> QED
  BY <1>3 DEF p

\* Nothing is given and nothing that was due is dropped.
LEMMA SettledKept ==
    ASSUME NEW d \in Seq(Alarms), NEW D, NEW E, Settled(d, D),
           \A y \in Range(d) : y \in D => y \in E
    PROVE  Settled(d, E)
  BY DEF Settled, Range

-----------------------------------------------------------------------------
(***************************************************************************)
(* The alarms on their way.                                                *)
(***************************************************************************)
\* The log grows, and a reader that begins to read reads to its end.
LEMMA LogStep == TypeOK /\ LogInv /\ [Next]_vars => LogInv'
<1> SUFFICES ASSUME TypeOK, LogInv, [Next]_vars, NEW q \in Readers
             PROVE  reader'[q].last <= sent'
  BY DEF LogInv
<1>a. /\ sent \in Nat /\ reader[q] \in ReaderStates /\ reader[q].last \in Nat
      /\ reader[q].last <= sent
  <2>1. sent \in 0 .. MaxAlarms /\ reader[q] \in ReaderStates
    BY DEF TypeOK
  <2>2. reader[q].last \in 0 .. MaxAlarms
    BY <2>1, RecordTypes
  <2> QED
    BY <2>1, <2>2, Bounds DEF LogInv
<1>b. reader \in [Readers -> ReaderStates]
  BY DEF TypeOK
<1>0. CASE reader' = reader /\ (sent' = sent \/ sent' = sent + 1)
  BY <1>0, <1>a
<1>1. CASE RaiseAlarm \/ ChangeConfiguration
  BY <1>0, <1>1 DEF RaiseAlarm, ChangeConfiguration
<1>2. CASE NtfStep \/ ntfThreadEnds
  BY <1>0, <1>2 DEF NtfStep, ntfThreadEnds, saNtfNotificationCallback4, queueAlarm, sendAlarm,
                    saNtfNotificationDiscardedCallback, cmNotificationCallback, cmLocked,
                    cmPushed, ntfService
<1>3. ASSUME NEW r \in Readers, ReaderStep(r) PROVE reader'[q].last <= sent'
  <2>1. CASE readInitialize(r)
    <3>1. /\ sent' = sent
          /\ \/ \E rc : reader' = At(r, "return", rc)
             \/ reader' = [reader EXCEPT ![r].pc = "next", ![r].rc = "ok", ![r].pos = 0,
                              ![r].last = IF reader[r].first THEN sent ELSE 0]
      BY <2>1 DEF readInitialize, Return
    <3>2. reader'[q].last \in {reader[q].last, 0, sent}
      <4>1. CASE \E rc : reader' = At(r, "return", rc)
        BY <1>a, <1>b, <4>1 DEF At, NoReader
      <4>2. CASE reader' = [reader EXCEPT ![r].pc = "next", ![r].rc = "ok", ![r].pos = 0,
                              ![r].last = IF reader[r].first THEN sent ELSE 0]
        <5>1. CASE q = r
          BY <1>a, <1>b, <4>2, <5>1 DEF ReaderStates
        <5>2. CASE q # r
          BY <1>b, <4>2, <5>2
        <5> QED
          BY <5>1, <5>2
      <4> QED
        BY <3>1, <4>1, <4>2
    <3> QED
      BY <1>a, <3>1, <3>2
  <2>2. CASE \/ readOldAlarms(r) \/ readEnds(r) \/ readNext(r) \/ sendQueuedAlarms(r)
             \/ readerThread(r)
    <3>1. sent' = sent
      BY <2>2 DEF readOldAlarms, readEnds, readNext, sendQueuedAlarms, readerThread, ntfService
    <3>2. \/ reader' = reader
          \/ \E pc, rc : reader' = At(r, pc, rc)
          \/ \E pc, since, first, opened :
                reader' = [reader EXCEPT ![r].pc = pc, ![r].since = since,
                               ![r].first = first, ![r].opened = opened]
          \/ \E pos : reader' = [reader EXCEPT ![r].pos = pos]
          \/ reader' = [reader EXCEPT ![r].pc = "return"]
          \/ \E tries : reader' = [reader EXCEPT ![r] =
                           [NoReader EXCEPT !.pc = "begin", !.tries = tries]]
          \/ reader' = [reader EXCEPT ![r] = NoReader]
      <4>1. CASE readOldAlarms(r)
        <5>1. CASE reader' = [reader EXCEPT ![r].pc = "initialize",
                                  ![r].since = IF nFilter = -1 THEN 0 ELSE nFilter,
                                  ![r].first = ~flags.readOldAlarm,
                                  ![r].opened = opens]
          BY <5>1
        <5>2. CASE \E rc : reader' = At(r, "return", rc)
          BY <5>2
        <5> QED
          BY <4>1, <5>1, <5>2 DEF readOldAlarms, Return
      <4>2. CASE readEnds(r)
        BY <4>2 DEF readEnds, AfterLoop
      <4>3. CASE readNext(r)
        BY <4>3 DEF readNext
      <4>4. CASE sendQueuedAlarms(r)
        BY <4>4 DEF sendQueuedAlarms
      <4>5. CASE readerThread(r)
        BY <4>5 DEF readerThread
      <4> QED
        BY <2>2, <4>1, <4>2, <4>3, <4>4, <4>5
    <3>3. reader'[q].last \in {reader[q].last, 0}
      <4>1. CASE \E pc, rc : reader' = At(r, pc, rc)
        BY <1>b, <4>1 DEF At, NoReader
      <4>2. CASE \E pc, since, first, opened :
                reader' = [reader EXCEPT ![r].pc = pc, ![r].since = since,
                               ![r].first = first, ![r].opened = opened]
        BY <1>a, <1>b, <4>2 DEF ReaderStates
      <4>3. CASE \E pos : reader' = [reader EXCEPT ![r].pos = pos]
        BY <1>a, <1>b, <4>3 DEF ReaderStates
      <4>4. CASE reader' = [reader EXCEPT ![r].pc = "return"]
        BY <1>a, <1>b, <4>4 DEF ReaderStates
      <4>5. CASE \E tries : reader' = [reader EXCEPT ![r] =
                           [NoReader EXCEPT !.pc = "begin", !.tries = tries]]
        BY <1>b, <4>5 DEF NoReader
      <4>6. CASE reader' = [reader EXCEPT ![r] = NoReader]
        BY <1>b, <4>6 DEF NoReader
      <4> QED
        BY <3>2, <4>1, <4>2, <4>3, <4>4, <4>5, <4>6
    <3> QED
      BY <1>a, <3>1, <3>3
  <2> QED
    BY <1>3, <2>1, <2>2 DEF ReaderStep
<1>4. CASE maf_ComNtfServiceOpen \/ removeFilter_V4
  BY <1>0, <1>4 DEF maf_ComNtfServiceOpen, removeFilter_V4
<1>5. CASE addFilter_V4
  <2>1. /\ sent' = sent
        /\ reader' = reader \/ \E r \in Readers : reader' = [reader EXCEPT ![r].pc = "begin"]
    BY <1>5 DEF addFilter_V4
  <2>2. reader'[q].last = reader[q].last
    <3>1. CASE \E r \in Readers : reader' = [reader EXCEPT ![r].pc = "begin"]
      BY <1>a, <1>b, <3>1 DEF ReaderStates
    <3> QED
      BY <2>1, <3>1
  <2> QED
    BY <1>a, <2>1, <2>2
<1>6. CASE maf_ComNtfServiceClose \/ CloseStep
  BY <1>0, <1>6 DEF maf_ComNtfServiceClose, CloseStep, closeLocks, closeUnregisters,
                    closeFinalizes, closeUnlocks, ntfService
<1>7. CASE UNCHANGED vars
  BY <1>0, <1>7 DEF vars, ntfService
<1> QED
  BY <1>1, <1>2, <1>3, <1>4, <1>5, <1>6, <1>7 DEF Next

\* What the types say of a live session.
LEMMA LiveTypes ==
    ASSUME TypeOK, Live
    PROVE  /\ sent \in Nat /\ nFilter \in Nat /\ sent \in 0 .. MaxAlarms
           /\ flags \in Flags /\ flags.callbackLast \in Nat
           /\ pending \in Seq(Notifications) /\ alarmQueue \in Seq(Alarms)
           /\ delivered \in Seq(Alarms) /\ ntf \in NtfStates
           /\ Pending \subseteq Nat /\ InNtf \subseteq Nat /\ Range(alarmQueue) \subseteq Nat
           /\ Range(delivered) \subseteq Nat /\ ToRead \subseteq 1 .. sent
<1>1. /\ sent \in 0 .. MaxAlarms /\ nFilter \in -1 .. MaxAlarms /\ flags \in Flags
      /\ pending \in Seq(Notifications) /\ alarmQueue \in Seq(Alarms)
      /\ delivered \in Seq(Alarms) /\ ntf \in NtfStates
  BY DEF TypeOK
<1>2. sent \in Nat /\ nFilter \in Nat
  BY <1>1, Bounds DEF Live
<1>3. flags.callbackLast \in Nat
  BY <1>1, Bounds DEF Flags
<1>4. \A x \in Alarms : x \in Nat
  BY Bounds DEF Alarms
<1>5. \A i \in DOMAIN pending : pending[i] \in Notifications
  BY <1>1
<1>6. Pending \subseteq Nat
  BY <1>4, <1>5, RecordTypes DEF Pending, Ids, NoCm
<1>7. InNtf \subseteq Nat
  BY <1>1, <1>4, RecordTypes DEF InNtf
<1>8. \A s \in Seq(Alarms) : Range(s) \subseteq Nat
  BY <1>4 DEF Range
<1>9. ToRead \subseteq 1 .. sent
  BY DEF ToRead
<1> QED
  BY <1>1, <1>2, <1>3, <1>6, <1>7, <1>8, <1>9

\* A step that moves no alarm.
LEMMA NothingMoves ==
    ASSUME TypeOK, StreamInv, OrderInv, Live' => Live, Calm' => Calm,
           Live => /\ UNCHANGED <<sent, nFilter, delivered, alarmQueue>>
                   /\ Pending' = Pending /\ Ordered(pending)' = Ordered(pending)
                   /\ InNtf' = InNtf /\ flags'.callbackLast = flags.callbackLast
                   /\ ToRead' = ToRead
                   /\ ntf'.pc = "send" =>
                         /\ ntf.pc = "send" /\ ntf'.id = ntf.id
                         /\ flags.readOldAlarmDone => flags'.readOldAlarmDone
                   /\ \A r \in Readers : ReadSoFar(r) => ReadSoFar(r)'
    PROVE  StreamInv' /\ OrderInv'
<1> SUFFICES ASSUME Live'
             PROVE  NoneLost' /\ (Calm' => InOrder')
  BY DEF StreamInv, OrderInv
<1>1. NoneLost /\ (Calm' => InOrder)
  BY DEF StreamInv, OrderInv
<1>2. Stream' = Stream /\ Due' = Due
  BY DEF Stream, Due
<1>3. NoneLost'
  BY <1>1, <1>2 DEF NoneLost, UpClosed, Below
<1>4. ASSUME Calm' PROVE InOrder'
  BY <1>1, <1>2, <1>4 DEF InOrder, UpClosed, Below, Settled, Increasing
<1> QED
  BY <1>3, <1>4

\* NTF logs an alarm: it is on its way behind all others.
LEMMA RaiseStep ==
    ASSUME AlarmInv, RaiseAlarm
    PROVE  StreamInv' /\ OrderInv'
<1>1. /\ UNCHANGED <<nFilter, main, faults, flags, alarmQueue, delivered, ntf, reader>>
      /\ sent' = sent + 1 /\ sent + 1 \in Alarms
      /\ \/ pending' = Append(pending, [kind |-> "alarm", id |-> sent + 1])
         \/ pending' = Append(pending, [kind |-> "discarded", id |-> sent + 1])
         \/ ~subscribed
  BY Bounds DEF AlarmInv, TypeOK, Alarms, RaiseAlarm, session, queueVars, mainVars
<1> SUFFICES ASSUME Live'
             PROVE  NoneLost' /\ (Calm' => InOrder')
  BY DEF StreamInv, OrderInv
<1>2. Live /\ (Calm' => Calm) /\ subscribed
  BY <1>1 DEF Live, Fine, Calm, AlarmInv, SessionInv
<1>3. NoneLost /\ (Calm' => InOrder)
  BY <1>2 DEF AlarmInv, StreamInv, OrderInv
<1>t. /\ sent \in Nat /\ nFilter \in Nat /\ flags.callbackLast \in Nat
      /\ pending \in Seq(Notifications) /\ delivered \in Seq(Alarms)
      /\ Pending \subseteq Nat /\ InNtf \subseteq Nat /\ Range(alarmQueue) \subseteq Nat
      /\ Range(delivered) \subseteq Nat
  BY <1>2, LiveTypes DEF AlarmInv
<1>4. Pending' = Pending \cup {sent + 1} /\ Ordered(pending)'
  <2>1. PICK n \in Notifications :
           n.kind # "cm" /\ n.id = sent + 1 /\ pending' = Append(pending, n)
    BY <1>1, <1>2 DEF Notifications
  <2>2. /\ Ids(Append(pending, n)) = Ids(pending) \cup {n.id}
        /\ Ordered(pending) /\ (\A x \in Ids(pending) : x < n.id) => Ordered(Append(pending, n))
    BY <2>1, <1>t, IdsAppend
  <2>3. Ids(pending)' = Ids(pending') /\ Ordered(pending)' = Ordered(pending')
    OBVIOUS
  <2>4. \A x \in Ids(pending) : x < n.id
    BY <2>1, <1>t, <1>3 DEF NoneLost, Pending
  <2>5. Ordered(pending)
    BY <1>3 DEF NoneLost
  <2> QED
    BY <2>1, <2>2, <2>3, <2>4, <2>5 DEF Pending
<1>5. InNtf' = InNtf
  BY <1>1 DEF InNtf
<1>6. Stream' = Stream \cup {sent + 1}
  BY <1>1, <1>4, <1>5 DEF Stream
<1>7. ToRead \subseteq ToRead' /\ Due \subseteq Due'
  <2>1. \A r \in Readers : \A y : Todo(r, y) <=> Todo(r, y)'
    BY <1>1 DEF Todo
  <2>2. 1 .. sent \subseteq 1 .. sent'
    BY <1>1, <1>t
  <2>3. ToRead \subseteq ToRead'
    BY <2>1, <2>2 DEF ToRead
  <2> QED
    BY <1>6, <2>3 DEF Due
<1>8. NoneLost'
  <2>1. nFilter + 1 .. sent' \subseteq Range(delivered) \cup Due'
    <3>1. sent + 1 \in Due'
      BY <1>6 DEF Due
    <3> QED
      BY <1>1, <1>3, <1>7, <1>t, <3>1 DEF NoneLost
  <2>2. Pending' \subseteq nFilter + 1 .. sent' /\ UpClosed(Pending)'
    <3>1. /\ Pending \subseteq nFilter + 1 .. sent
          /\ \A z \in Pending : \A y \in z .. sent : y \in Pending
      BY <1>3 DEF NoneLost, UpClosed
    <3>2. nFilter <= sent
      BY <1>3 DEF NoneLost
    <3>3. Pending' \subseteq nFilter + 1 .. sent'
      BY <1>1, <1>4, <1>t, <3>1, <3>2
    <3>4. \A z \in Pending' : \A y \in z .. sent' : y \in Pending'
      BY <1>1, <1>4, <1>t, <3>1
    <3> QED
      BY <3>3, <3>4 DEF UpClosed
  <2>3. InNtf' \subseteq nFilter + 1 .. sent' /\ UpClosed(Pending \cup InNtf)' /\ Below(InNtf, Pending)'
    BY <1>1, <1>3, <1>4, <1>5, <1>t DEF NoneLost, UpClosed, Below
  <2>4. \A y \in Pending' \cup InNtf' : flags.callbackLast <= y
    BY <1>1, <1>3, <1>4, <1>5, <1>t DEF NoneLost
  <2>5. flags.callbackLast # 0 =>
          /\ flags.callbackLast \in nFilter + 1 .. sent'
          /\ flags.callbackLast .. sent' \subseteq Range(delivered) \cup Stream'
    BY <1>1, <1>3, <1>6, <1>t DEF NoneLost
  <2>6. nFilter <= sent'
    BY <1>1, <1>3, <1>t DEF NoneLost
  <2> QED
    BY <1>1, <1>4, <2>1, <2>2, <2>3, <2>4, <2>5, <2>6 DEF NoneLost
<1>9. ASSUME Calm' PROVE InOrder'
  <2>0. InOrder
    BY <1>3, <1>9
  <2>1. Range(alarmQueue) \subseteq nFilter + 1 .. sent' /\ UpClosed(Stream)'
    <3>1. Stream \subseteq Nat
      BY <1>t DEF Stream
    <3> QED
      BY <2>0, <1>1, <1>6, <1>t, <3>1 DEF InOrder, UpClosed
  <2>2. Below(Range(alarmQueue), Pending' \cup InNtf')
    BY <2>0, <1>1, <1>4, <1>5, <1>t DEF InOrder, Below
  <2>3. \A r \in Readers : ReadSoFar(r)'
    BY <2>0, <1>1 DEF InOrder, ReadSoFar, FirstRead
  <2>4. Settled(delivered, Due')
    BY <2>0, <1>7, <1>t, SettledKept DEF InOrder
  <2>5. Range(delivered) \subseteq nFilter + 1 .. sent'
    BY <2>0, <1>1, <1>t DEF InOrder
  <2>6. Increasing(alarmQueue)
    BY <2>0 DEF InOrder
  <2>7. ntf.pc = "send" => /\ alarmQueue = <<>>
                           /\ ~flags.readOldAlarmDone => ntf.id = flags.callbackLast
    BY <2>0 DEF InOrder
  <2> QED
    BY <1>1, <2>1, <2>2, <2>3, <2>4, <2>5, <2>6, <2>7 DEF InOrder, Below, Settled
<1> QED
  BY <1>8, <1>9

\* The ntf thread takes an alarm, or hears that one was discarded.
LEMMA TakeStep ==
    ASSUME AlarmInv, saNtfNotificationCallback4 \/ saNtfNotificationDiscardedCallback
    PROVE  StreamInv' /\ OrderInv'
<1> DEFINE x == Head(pending).id
<1>1. /\ UNCHANGED <<sent, nFilter, main, flags, alarmQueue, delivered, reader>>
      /\ ntf.pc = "idle" /\ pending # <<>> /\ Head(pending).kind \in {"alarm", "discarded"}
      /\ pending' = Tail(pending)
  BY DEF saNtfNotificationCallback4, saNtfNotificationDiscardedCallback, session, queueVars,
         mainVars
<1> SUFFICES ASSUME Live'
             PROVE  NoneLost' /\ (Calm' => InOrder')
  BY DEF StreamInv, OrderInv
<1>2. Live /\ (Calm' => Calm)
  <2>1. faults \subseteq faults'
    BY DEF saNtfNotificationCallback4, saNtfNotificationDiscardedCallback, Note
  <2> QED
    BY <1>1, <2>1 DEF Live, Fine, Calm
<1>3. NoneLost /\ (Calm' => InOrder)
  BY <1>2 DEF AlarmInv, StreamInv, OrderInv
<1>t. /\ sent \in Nat /\ nFilter \in Nat /\ flags.callbackLast \in Nat
      /\ pending \in Seq(Notifications)
      /\ Pending \subseteq Nat /\ InNtf \subseteq Nat /\ Range(alarmQueue) \subseteq Nat
      /\ Range(delivered) \subseteq Nat
  BY <1>2, LiveTypes DEF AlarmInv
<1>4. /\ ntf'.pc \in {"queue", "send"} /\ ntf'.id = x
      /\ ntf'.pc = "send" /\ Calm' => flags.readOldAlarmDone
  <2>1. nFilter # -1 /\ ~failOver /\ ~stop /\ Fine'
    BY <1>1, <1>2 DEF Live, AlarmInv, SessionInv
  <2>2. CASE saNtfNotificationCallback4
    BY <2>1, <2>2 DEF saNtfNotificationCallback4, whereTo
  <2>3. CASE saNtfNotificationDiscardedCallback
    <3>1. ~Note("read", TRUE)
      BY <2>1 DEF Note, Fine
    <3>2. ntf' = [pc |-> "send", id |-> x] /\ Note("discard", ~flags.readOldAlarmDone)
      BY <2>1, <2>3, <3>1 DEF saNtfNotificationDiscardedCallback
    <3> QED
      BY <3>2 DEF Note, Calm
  <2> QED
    BY <2>2, <2>3
<1> HIDE DEF x
<1>5. /\ Pending = Pending' \cup {x} /\ Ordered(pending)' /\ \A y \in Pending' : x < y
  <2>1. /\ Ids(pending) = Ids(Tail(pending)) \cup {x}
        /\ Ordered(pending) => /\ Ordered(Tail(pending))
                               /\ \A y \in Ids(Tail(pending)) : x < y
    BY <1>1, <1>t, IdsTail DEF x
  <2>2. Ordered(pending)
    BY <1>3 DEF NoneLost
  <2> QED
    BY <1>1, <2>1, <2>2 DEF Pending
<1>6. InNtf = {} /\ InNtf' = {x} /\ Stream' = Stream
  BY <1>1, <1>4, <1>5 DEF InNtf, Stream
<1>7. ToRead' = ToRead /\ Due' = Due
  BY <1>1, <1>6 DEF ToRead, Todo, Due
<1>8. NoneLost'
  BY <1>1, <1>3, <1>5, <1>6, <1>7, <1>t DEF NoneLost, UpClosed, Below
<1>9. ASSUME Calm' PROVE InOrder'
  <2>0. InOrder
    BY <1>3, <1>9
  <2>1. ntf'.pc = "send" => flags.readOldAlarmDone /\ alarmQueue = <<>>
    <3>1. ASSUME flags.readOldAlarmDone PROVE alarmQueue = <<>>
      <4>1. ~ReaderAlive
        BY <1>2, <3>1 DEF Live, AlarmInv, ReadersInv, ReaderOK, Alive, ReaderAlive
      <4> QED
        BY <1>2, <3>1, <4>1 DEF Live, AlarmInv, ReadersInv, QueueInv
    <3> QED
      BY <1>4, <1>9, <3>1
  <2>2. \A r \in Readers : ReadSoFar(r)'
    BY <2>0, <1>1 DEF InOrder, ReadSoFar, FirstRead
  <2>3. Below(Range(alarmQueue), Pending' \cup InNtf')
    BY <2>0, <1>5, <1>6 DEF InOrder, Below
  <2> QED
    BY <2>0, <1>1, <1>6, <1>7, <2>1, <2>2, <2>3 DEF InOrder, UpClosed, Below, Settled, Increasing
<1> QED
  BY <1>8, <1>9

\* The ntf thread sends the alarm itself, or puts it behind the queue.
LEMMA QueueAlarmStep ==
    ASSUME AlarmInv, queueAlarm
    PROVE  StreamInv' /\ OrderInv'
<1>1. /\ UNCHANGED <<sent, pending, nFilter, main, delivered, reader>> /\ ntf.pc = "queue"
  BY DEF queueAlarm, ntfService, session, mainVars
<1> SUFFICES ASSUME Live'
             PROVE  NoneLost' /\ (Calm' => InOrder')
  BY DEF StreamInv, OrderInv
<1>2. Live /\ (Calm' => Calm)
  <2>1. faults \subseteq faults'
    BY DEF queueAlarm, Note
  <2> QED
    BY <1>1, <2>1 DEF Live, Fine, Calm
<1>3. NoneLost /\ (Calm' => InOrder)
  BY <1>2 DEF AlarmInv, StreamInv, OrderInv
<1>t. /\ sent \in Nat /\ nFilter \in Nat /\ flags \in Flags /\ flags.callbackLast \in Nat
      /\ alarmQueue \in Seq(Alarms) /\ ntf \in NtfStates
      /\ Pending \subseteq Nat /\ InNtf \subseteq Nat /\ Range(alarmQueue) \subseteq Nat
      /\ Range(delivered) \subseteq Nat
  BY <1>2, LiveTypes DEF AlarmInv
<1>4. InNtf = {ntf.id} /\ Pending' = Pending /\ ntf.id \in Alarms /\ ntf.id \in Nat
      /\ ntf.id # 0
  <2>1. InNtf = {ntf.id} /\ Pending' = Pending
    BY <1>1 DEF InNtf, Pending
  <2>2. ntf.id \in Alarms
    BY <1>1, <1>t, RecordTypes
  <2> QED
    BY <2>1, <2>2, Bounds DEF Alarms
<1>q. QueueInv /\ main = "open" /\ Fine
  BY <1>2 DEF AlarmInv, Live
<1>5. CASE ~flags.readOldAlarm
  <2>1. /\ flags' = [flags EXCEPT !.callbackLast = ntf.id]
        /\ ntf' = [ntf EXCEPT !.pc = "send"] /\ alarmQueue' = alarmQueue
    BY <1>5 DEF queueAlarm, queueVars
  <2>2. /\ flags'.callbackLast = ntf.id /\ flags'.readOldAlarm = flags.readOldAlarm
        /\ flags'.readOldAlarmDone = flags.readOldAlarmDone
    BY <1>t, <2>1 DEF Flags
  <2>3. ntf'.pc = "send" /\ ntf'.id = ntf.id
    BY <1>1, <1>t, <2>1 DEF NtfStates
  <2>4. InNtf' = InNtf /\ Stream' = Stream
    BY <1>4, <2>1, <2>3 DEF InNtf, Stream
  <2>5. ToRead' = ToRead /\ Due' = Due
    BY <1>1, <2>2, <2>4 DEF ToRead, Todo, Due
  <2>6. NoneLost'
    <3>1. /\ ntf.id \in nFilter + 1 .. sent
          /\ \A y \in ntf.id .. sent : y \in Pending \cup InNtf
          /\ \A y \in Pending \cup InNtf : ntf.id <= y
      BY <1>3, <1>4, <1>t DEF NoneLost, UpClosed, Below
    <3>2. ntf.id .. sent \subseteq Range(delivered) \cup Stream
      BY <3>1 DEF Stream
    <3> QED
      BY <1>1, <1>3, <1>4, <2>2, <2>4, <2>5, <3>1, <3>2 DEF NoneLost, UpClosed, Below
  <2>7. ASSUME Calm' PROVE InOrder'
    <3>0. InOrder
      BY <1>3, <2>7
    <3>1. alarmQueue' = <<>>
      BY <1>5, <1>q, <2>1 DEF QueueInv
    <3>2. \A r \in Readers : ReadSoFar(r)'
      <4>1. flags.callbackLast <= ntf.id
        BY <1>3, <1>4 DEF NoneLost
      <4>2. \A r \in Readers : FirstRead(r)' = FirstRead(r)
        BY <1>1, <2>2 DEF FirstRead
      <4> QED
        BY <3>0, <1>1, <1>4, <1>t, <2>2, <4>1, <4>2 DEF InOrder, ReadSoFar
    <3> QED
      BY <3>0, <1>1, <1>4, <2>1, <2>2, <2>3, <2>4, <2>5, <3>1, <3>2
         DEF InOrder, UpClosed, Below, Settled, Increasing
  <2> QED
    BY <2>6, <2>7
<1>6. CASE flags.readOldAlarm
  <2>1. /\ ntf' = IdleNtf /\ flags' = flags
        /\ tail \in {"last", "null"}
    <3>1. tail \in {"last", "null", "freed", "detached"}
      BY DEF AlarmInv, TypeOK, Tails
    <3>2. /\ ntf' = IdleNtf /\ flags' = flags
          /\ tail \in {"freed", "detached"} => "tail" \in faults'
      BY <1>6 DEF queueAlarm, Note
    <3> QED
      BY <3>1, <3>2 DEF Live, Fine
  <2>2. alarmQueue' = Append(alarmQueue, ntf.id)
    <3>1. CASE tail = "last"
      BY <1>6, <3>1 DEF queueAlarm
    <3>2. CASE tail = "null"
      <4>1. alarmQueue' = <<ntf.id>>
        BY <1>6, <3>2 DEF queueAlarm
      <4>2. alarmQueue = <<>>
        BY <1>q, <3>2 DEF QueueInv
      <4>3. <<ntf.id>> = Append(<<>>, ntf.id)
        OBVIOUS
      <4> QED
        BY <4>1, <4>2, <4>3
    <3> QED
      BY <2>1, <3>1, <3>2
  <2>3. InNtf' = {}
    BY <2>1 DEF InNtf, IdleNtf
  <2>4. /\ Range(alarmQueue)' = Range(alarmQueue) \cup {ntf.id}
        /\ Increasing(alarmQueue) /\ (\A y \in Range(alarmQueue) : y < ntf.id) =>
              Increasing(alarmQueue)'
    <3>1. /\ Range(Append(alarmQueue, ntf.id)) = Range(alarmQueue) \cup {ntf.id}
          /\ Increasing(alarmQueue) /\ (\A y \in Range(alarmQueue) : y < ntf.id) =>
                Increasing(Append(alarmQueue, ntf.id))
      BY <1>4, <1>t, RangeAppend
    <3> QED
      BY <2>2, <3>1
  <2>5. Stream' = Stream
    BY <1>4, <2>3, <2>4 DEF Stream
  <2>6. ToRead' = ToRead /\ Due' = Due
    BY <1>1, <2>1, <2>5 DEF ToRead, Todo, Due
  <2>7. NoneLost'
    BY <1>1, <1>3, <1>4, <2>1, <2>3, <2>5, <2>6 DEF NoneLost, UpClosed, Below
  <2>8. ASSUME Calm' PROVE InOrder'
    <3>0. InOrder
      BY <1>3, <2>8
    <3>1. ntf.id \in nFilter + 1 .. sent
      BY <1>3, <1>4 DEF NoneLost
    <3>2. Increasing(alarmQueue)'
      BY <3>0, <1>4, <2>4 DEF InOrder, Below
    <3>3. Below(Range(alarmQueue)', Pending' \cup InNtf')
      BY <3>0, <1>3, <1>4, <2>3, <2>4 DEF InOrder, Below, NoneLost
    <3>4. \A r \in Readers : ReadSoFar(r)'
      BY <3>0, <1>1, <2>1 DEF InOrder, ReadSoFar, FirstRead
    <3>5. ntf'.pc # "send"
      BY <2>1 DEF IdleNtf
    <3>6. Range(alarmQueue)' \subseteq nFilter + 1 .. sent
      BY <3>0, <2>4, <3>1 DEF InOrder
    <3>7. UpClosed(Stream)' /\ Settled(delivered, Due)'
      BY <3>0, <1>1, <2>5, <2>6 DEF InOrder, UpClosed, Settled
    <3> QED
      BY <3>0, <1>1, <3>2, <3>3, <3>4, <3>5, <3>6, <3>7 DEF InOrder, Below
  <2> QED
    BY <2>7, <2>8
<1> QED
  BY <1>5, <1>6

\* The ntf thread gives its alarm to COM.
LEMMA SendStep ==
    ASSUME AlarmInv, sendAlarm
    PROVE  StreamInv' /\ OrderInv'
<1> DEFINE x == ntf.id
<1>1. /\ UNCHANGED <<sent, pending, nFilter, main, flags, alarmQueue, reader, faults>>
      /\ ntf.pc = "send" /\ ntf' = IdleNtf
      /\ router => delivered' = Append(delivered, x)
  BY DEF sendAlarm, sendSaNtfNotification, ntfService, session, mainVars, queueVars
<1> SUFFICES ASSUME Live'
             PROVE  NoneLost' /\ (Calm' => InOrder')
  BY DEF StreamInv, OrderInv
<1>2. Live /\ (Calm' => Calm) /\ router
  BY <1>1 DEF Live, Fine, Calm, AlarmInv, SessionInv
<1>3. NoneLost /\ (Calm' => InOrder)
  BY <1>2 DEF AlarmInv, StreamInv, OrderInv
<1>t. /\ sent \in Nat /\ nFilter \in Nat /\ flags.callbackLast \in Nat
      /\ delivered \in Seq(Alarms) /\ ntf \in NtfStates
      /\ Pending \subseteq Nat /\ Range(alarmQueue) \subseteq Nat
      /\ Range(delivered) \subseteq Nat
  BY <1>2, LiveTypes DEF AlarmInv
<1>4. /\ InNtf = {x} /\ InNtf' = {} /\ Pending' = Pending /\ x \in Alarms
  BY <1>1, <1>t, RecordTypes DEF InNtf, IdleNtf, Pending
<1>n. x \in Nat
  BY <1>4, Bounds DEF Alarms
<1> HIDE DEF x
<1>5. Range(delivered)' = Range(delivered) \cup {x} /\ delivered' = Append(delivered, x)
  BY <1>1, <1>2, <1>4, <1>t, RangeAppend
<1>6. Stream = Stream' \cup {x} /\ ToRead' = ToRead /\ Due = Due' \cup {x}
  BY <1>1, <1>4 DEF Stream, ToRead, Todo, Due
<1>7. NoneLost'
  BY <1>1, <1>3, <1>4, <1>5, <1>6 DEF NoneLost, UpClosed, Below
<1>8. ASSUME Calm' PROVE InOrder'
  <2>0. InOrder
    BY <1>3, <1>8
  <2>1. x \in nFilter + 1 .. sent
    BY <1>3, <1>4 DEF NoneLost
  <2>2. UpClosed(Stream)'
    <3>1. alarmQueue = <<>>
      BY <2>0, <1>1 DEF InOrder
    <3>2. Range(<<>>) = {}
      BY DEF Range
    <3>3. Stream' = Pending
      BY <1>1, <1>4, <3>1, <3>2 DEF Stream
    <3> QED
      BY <1>1, <1>3, <3>3 DEF NoneLost, UpClosed
  <2>3. \A r \in Readers : ReadSoFar(r)'
    <3>1. ASSUME NEW r \in Readers, FirstRead(r) PROVE x = flags.callbackLast
      <4>1. ~flags.readOldAlarmDone
        <5>1. Alive(r)
          BY <3>1 DEF FirstRead, Alive
        <5> QED
          BY <1>2, <5>1 DEF Live, AlarmInv, ReadersInv, ReaderOK
      <4> QED
        BY <2>0, <1>1, <4>1 DEF InOrder, x
    <3>2. \A r \in Readers : FirstRead(r)' = FirstRead(r)
      BY <1>1 DEF FirstRead
    <3> QED
      BY <2>0, <1>1, <1>5, <1>n, <1>t, <3>1, <3>2 DEF InOrder, ReadSoFar
  <2>4. Settled(delivered', Due')
    <3>1. \A y \in Range(delivered) : y > x => y \in Pending
      <4>1. \A y \in x .. sent : y \in Pending \cup InNtf
        BY <1>3, <1>4 DEF NoneLost, UpClosed
      <4> QED
        BY <2>0, <1>4, <1>n, <1>t, <4>1 DEF InOrder
    <3>2. Pending \subseteq Due'
      BY <1>4 DEF Due, Stream
    <3>3. Settled(delivered, Due)
      BY <2>0 DEF InOrder
    <3> QED
      BY <1>4, <1>5, <1>6, <1>t, <3>1, <3>2, <3>3, SettledMore
  <2>5. ntf'.pc # "send"
    BY <1>1 DEF IdleNtf
  <2>6. Range(delivered)' \subseteq nFilter + 1 .. sent
    BY <2>0, <1>5, <2>1 DEF InOrder
  <2>7. Below(Range(alarmQueue), Pending' \cup InNtf')
    BY <2>0, <1>4 DEF InOrder, Below
  <2>8. Range(alarmQueue) \subseteq nFilter + 1 .. sent /\ Increasing(alarmQueue)
    BY <2>0 DEF InOrder
  <2> QED
    BY <1>1, <2>2, <2>3, <2>4, <2>5, <2>6, <2>7, <2>8 DEF InOrder, Below, Settled
<1> QED
  BY <1>7, <1>8

\* The only reader of a live session: nobody else has anything to read.
LEMMA OneReader ==
    ASSUME AlarmInv, Live, NEW r \in Readers, Alive(r)
    PROVE  /\ ReaderOK(r) /\ reader[r] \in ReaderStates /\ reader[r].last <= sent
           /\ ToRead = {y \in 1 .. sent : Todo(r, y)}
           /\ \A q \in Readers : q # r => reader[q].pc = "none"
           /\ handle /\ router /\ ~stop /\ ~failOver
<1>1. \A q \in Readers : q # r => reader[q].pc = "none"
  BY DEF AlarmInv, Live, ReadersInv, Alive
<1>2. ReaderOK(r) /\ handle /\ router /\ ~stop /\ ~failOver
  BY DEF AlarmInv, Live, ReadersInv, SessionInv
<1>3. reader[r] \in ReaderStates /\ reader[r].last <= sent
  BY DEF AlarmInv, TypeOK, LogInv
<1>4. \A q \in Readers : \A y : Todo(q, y) => q = r
  BY <1>1 DEF Todo
<1>5. ToRead = {y \in 1 .. sent : Todo(r, y)}
  BY <1>4 DEF ToRead
<1> QED
  BY <1>1, <1>2, <1>3, <1>5

\* After a step of it, its new state tells what is to be read and whether
\* it reads for the first time.
LEMMA OneReaderMoves ==
    ASSUME AlarmInv, Live, NEW r \in Readers, Alive(r),
           \A q \in Readers : q # r => reader'[q] = reader[q]
    PROVE  /\ ToRead' = {y \in 1 .. sent' : Todo(r, y)'}
           /\ \A q \in Readers : FirstRead(q)' => q = r
<1>1. \A q \in Readers : q # r => reader'[q].pc = "none"
  BY OneReader
<1>2. \A q \in Readers : \A y : Todo(q, y)' => q = r
  BY <1>1 DEF Todo
<1>3. ToRead' = {y \in 1 .. sent' : Todo(r, y)'}
  BY <1>2 DEF ToRead
<1>4. \A q \in Readers : FirstRead(q)' => q = r
  BY <1>1 DEF FirstRead
<1> QED
  BY <1>3, <1>4

\* The steps of a reader that give COM nothing.
LEMMA ReaderStill ==
    ASSUME AlarmInv, NEW r \in Readers, Alive(r),
           \A q \in Readers : q # r => reader'[q] = reader[q],
           UNCHANGED <<sent, pending, nFilter, main, ntf, delivered, alarmQueue>>,
           Fine' => Fine, Calm' => Calm,
           Live' => /\ flags'.callbackLast = flags.callbackLast
                    /\ flags.readOldAlarmDone => flags'.readOldAlarmDone
                    /\ \A y \in 1 .. sent : Todo(r, y)' <=> Todo(r, y)
                    /\ ReadSoFar(r) => ReadSoFar(r)'
    PROVE  StreamInv' /\ OrderInv'
<1>1. Live' => Live
  BY DEF Live
<1>2. CASE Live'
  <2>1. ToRead' = ToRead
    <3>1. ToRead = {y \in 1 .. sent : Todo(r, y)}
      BY <1>1, <1>2, OneReader
    <3>2. ToRead' = {y \in 1 .. sent' : Todo(r, y)'}
      BY <1>1, <1>2, OneReaderMoves
    <3> QED
      BY <1>2, <3>1, <3>2
  <2>2. \A q \in Readers : ReadSoFar(q) => ReadSoFar(q)'
    <3>1. \A q \in Readers : FirstRead(q)' => q = r
      BY <1>1, <1>2, OneReaderMoves
    <3> QED
      BY <1>2, <3>1 DEF ReadSoFar
  <2>3. /\ Pending' = Pending /\ Ordered(pending)' = Ordered(pending) /\ InNtf' = InNtf
    BY DEF Pending, InNtf, Ordered, Ids, NoCm
  <2>4. TypeOK /\ StreamInv /\ OrderInv
    BY DEF AlarmInv
  <2> QED
    BY <1>1, <1>2, <2>1, <2>2, <2>3, <2>4, NothingMoves
<1>3. CASE ~Live'
  BY <1>3 DEF StreamInv, OrderInv
<1> QED
  BY <1>2, <1>3

\* A reader begins a call, or NTF refuses it.
LEMMA BeginStep ==
    ASSUME AlarmInv, [Next]_vars, NEW r \in Readers, readOldAlarms(r)
    PROVE  StreamInv' /\ OrderInv'
<1>1. /\ UNCHANGED <<sent, pending, nFilter, main, ntf, delivered, alarmQueue>>
      /\ reader[r].pc = "begin"
  BY DEF readOldAlarms, session, mainVars, queueVars
<1>2. (Fine' => Fine) /\ (Calm' => Calm)
  BY FaultsGrow DEF Fine, Calm
<1>3. /\ Alive(r) /\ reader \in [Readers -> ReaderStates] /\ flags \in Flags
  BY <1>1 DEF Alive, AlarmInv, TypeOK
<1>4. CASE ~Live'
  BY <1>4 DEF StreamInv, OrderInv
<1>5. CASE Live'
  <2>1. Live
    BY <1>1, <1>2, <1>5 DEF Live
  <2>2. handle /\ ~failOver /\ "read" \notin faults'
    BY <1>3, <1>5, <2>1, OneReader DEF Live, Fine
  <2>3. /\ reader' = [reader EXCEPT ![r].pc = "initialize",
                             ![r].since = IF nFilter = -1 THEN 0 ELSE nFilter,
                             ![r].first = ~flags.readOldAlarm,
                             ![r].opened = opens]
        /\ flags' = beginReading
    BY <2>2 DEF readOldAlarms, Note
  <2>4. /\ flags'.callbackLast = flags.callbackLast
        /\ flags'.readOldAlarmDone = flags.readOldAlarmDone
    BY <1>3, <2>3 DEF beginReading, Flags
  <2>5. /\ \A q \in Readers : q # r => reader'[q] = reader[q]
        /\ reader'[r].pc = "initialize" /\ reader'[r].first = ~flags.readOldAlarm
    BY <1>3, <2>3 DEF ReaderStates
  <2>6. \A y \in 1 .. sent : Todo(r, y)' <=> Todo(r, y)
    BY <1>1, <2>5 DEF Todo
  <2>7. ReadSoFar(r) => ReadSoFar(r)'
    BY <1>1, <2>4, <2>5 DEF ReadSoFar, FirstRead
  <2> QED
    BY <1>1, <1>2, <1>3, <2>4, <2>5, <2>6, <2>7, ReaderStill
<1> QED
  BY <1>4, <1>5

\* It begins to read, to the end of the log or nothing.
LEMMA InitializeStep ==
    ASSUME AlarmInv, [Next]_vars, NEW r \in Readers, readInitialize(r)
    PROVE  StreamInv' /\ OrderInv'
<1>1. /\ UNCHANGED <<sent, pending, nFilter, main, ntf, delivered, alarmQueue, flags>>
      /\ reader[r].pc = "initialize"
  BY DEF readInitialize, session, mainVars, queueVars
<1>2. (Fine' => Fine) /\ (Calm' => Calm)
  BY FaultsGrow DEF Fine, Calm
<1>3. /\ Alive(r) /\ reader \in [Readers -> ReaderStates]
  BY <1>1 DEF Alive, AlarmInv, TypeOK
<1>4. CASE ~Live'
  BY <1>4 DEF StreamInv, OrderInv
<1>5. CASE Live'
  <2>1. Live
    BY <1>1, <1>2, <1>5 DEF Live
  <2>2. HandleValid(r) /\ "read" \notin faults'
    BY <1>1, <1>3, <1>5, <2>1, OneReader DEF Live, Fine, ReaderOK, HandleValid
  <2>3. reader' = [reader EXCEPT ![r].pc = "next", ![r].rc = "ok", ![r].pos = 0,
                             ![r].last = IF reader[r].first THEN sent ELSE 0]
    BY <2>2 DEF readInitialize, Note
  <2>4. /\ \A q \in Readers : q # r => reader'[q] = reader[q]
        /\ reader'[r].pc = "next" /\ reader'[r].first = reader[r].first
        /\ reader'[r].pos = 0 /\ reader'[r].last = IF reader[r].first THEN sent ELSE 0
    BY <1>3, <2>3 DEF ReaderStates
  <2>5. sent \in Nat
    BY <2>1, LiveTypes DEF AlarmInv
  <2>6. \A y \in 1 .. sent : Todo(r, y)' <=> Todo(r, y)
    BY <1>1, <2>4, <2>5 DEF Todo
  <2>7. ReadSoFar(r) => ReadSoFar(r)'
    BY <1>1, <2>4 DEF ReadSoFar, FirstRead
  <2> QED
    BY <1>1, <1>2, <1>3, <2>4, <2>6, <2>7, ReaderStill
<1> QED
  BY <1>4, <1>5

\* It has read all; it calls itself or goes on to the queue.
LEMMA EndsStep ==
    ASSUME AlarmInv, [Next]_vars, NEW r \in Readers, readEnds(r)
    PROVE  StreamInv' /\ OrderInv'
<1>1. /\ UNCHANGED <<sent, pending, nFilter, main, ntf, delivered, alarmQueue, flags>>
      /\ reader[r].pc = "next"
  BY DEF readEnds, session, mainVars, queueVars
<1>2. (Fine' => Fine) /\ (Calm' => Calm)
  BY FaultsGrow DEF Fine, Calm
<1>3. /\ Alive(r) /\ reader \in [Readers -> ReaderStates]
  BY <1>1 DEF Alive, AlarmInv, TypeOK
<1>4. CASE ~Live'
  BY <1>4 DEF StreamInv, OrderInv
<1>5. CASE Live'
  <2>1. Live
    BY <1>1, <1>2, <1>5 DEF Live
  <2>2. HandleValid(r) /\ "read" \notin faults' /\ ~stop
    BY <1>1, <1>3, <1>5, <2>1, OneReader DEF Live, Fine, ReaderOK, HandleValid
  <2>3. /\ reader[r].pos = reader[r].last
        /\ reader' = AfterLoop(r, "ok")
    BY <2>2 DEF readEnds, Note
  <2>4. PICK pc \in {"drain", "begin"} : reader' = At(r, pc, "ok")
    BY <2>3 DEF AfterLoop
  <2>5. /\ \A q \in Readers : q # r => reader'[q] = reader[q]
        /\ reader'[r].pc = pc
    BY <1>3, <2>4 DEF At, NoReader
  <2>6. flags.readOldAlarm
    BY <1>1, <1>3, <2>1, OneReader DEF ReaderOK
  <2>7. reader[r].pos \in Nat
    BY <1>3, Bounds DEF ReaderStates
  <2>8. \A y \in 1 .. sent : Todo(r, y)' <=> Todo(r, y)
    BY <1>1, <2>3, <2>5, <2>6, <2>7 DEF Todo
  <2>9. ReadSoFar(r)'
    BY <1>1, <2>5, <2>6 DEF ReadSoFar, FirstRead
  <2> QED
    BY <1>1, <1>2, <1>3, <2>5, <2>8, <2>9, ReaderStill
<1> QED
  BY <1>4, <1>5

\* The thread returns.
LEMMA ReturnStep ==
    ASSUME AlarmInv, [Next]_vars, NEW r \in Readers, readerThread(r)
    PROVE  StreamInv' /\ OrderInv'
<1>1. /\ UNCHANGED <<sent, pending, nFilter, main, ntf, delivered, alarmQueue>>
      /\ reader[r].pc = "return"
  BY DEF readerThread, ntfService, session, mainVars, queueVars
<1>2. (Fine' => Fine) /\ (Calm' => Calm)
  BY FaultsGrow DEF Fine, Calm
<1>3. /\ Alive(r) /\ reader \in [Readers -> ReaderStates] /\ flags \in Flags
  BY <1>1 DEF Alive, AlarmInv, TypeOK
<1>4. CASE ~Live'
  BY <1>4 DEF StreamInv, OrderInv
<1>5. CASE Live'
  <2>1. Live
    BY <1>1, <1>2, <1>5 DEF Live
  <2>2. ~retryWanted(r)
    BY <1>3, <2>1, OneReader DEF ReaderOK, retryWanted
  <2>3. /\ reader' = [reader EXCEPT ![r] = NoReader]
        /\ flags' = [flags EXCEPT !.readOldAlarmDone = TRUE]
    BY <2>2 DEF readerThread
  <2>4. /\ \A q \in Readers : q # r => reader'[q] = reader[q]
        /\ reader'[r].pc = "none"
    BY <1>3, <2>3 DEF NoReader
  <2>5. flags'.callbackLast = flags.callbackLast /\ flags'.readOldAlarmDone = TRUE
    BY <1>3, <2>3 DEF Flags
  <2>6. \A y \in 1 .. sent : Todo(r, y)' <=> Todo(r, y)
    BY <1>1, <2>4 DEF Todo
  <2>7. ReadSoFar(r)'
    BY <2>4 DEF ReadSoFar, FirstRead
  <2> QED
    BY <1>1, <1>2, <1>3, <2>4, <2>5, <2>6, <2>7, ReaderStill
<1> QED
  BY <1>4, <1>5

\* The reader reads an alarm: COM has it already, or gets it, and when it is
\* the one the callback sent last the rest is on its way or given.
LEMMA NextStep ==
    ASSUME AlarmInv, [Next]_vars, NEW r \in Readers, readNext(r)
    PROVE  StreamInv' /\ OrderInv'
<1> DEFINE me == reader[r]
           x == me.pos + 1
<1>1. /\ UNCHANGED <<sent, pending, nFilter, main, ntf, alarmQueue>>
      /\ me.pc = "next" /\ me.pos < me.last
  BY DEF readNext, ntfService, session, mainVars, queueVars
<1>2. (Fine' => Fine) /\ (Calm' => Calm)
  BY FaultsGrow DEF Fine, Calm
<1> SUFFICES ASSUME Live'
             PROVE  NoneLost' /\ (Calm' => InOrder')
  BY DEF StreamInv, OrderInv
<1>3. /\ Live /\ Alive(r) /\ reader \in [Readers -> ReaderStates] /\ flags \in Flags
  BY <1>1, <1>2 DEF Alive, AlarmInv, TypeOK, Live
<1>4. NoneLost /\ (Calm' => InOrder)
  BY <1>2, <1>3 DEF AlarmInv, StreamInv, OrderInv
<1>t. /\ sent \in Nat /\ nFilter \in Nat /\ sent \in 0 .. MaxAlarms
      /\ flags.callbackLast \in Nat /\ delivered \in Seq(Alarms)
      /\ Range(delivered) \subseteq Nat
  BY <1>3, LiveTypes DEF AlarmInv
<1>5. /\ ReaderOK(r) /\ router /\ me.last <= sent
      /\ ToRead = {y \in 1 .. sent : Todo(r, y)}
  BY <1>3, OneReader
<1>6. /\ me.pos \in Nat /\ me.last \in Nat /\ me.since \in Nat
  BY <1>3, Bounds DEF ReaderStates
<1>7. me.first /\ me.since = nFilter /\ flags.callbackLast <= me.last
  <2>1. me.first
    BY <1>1, <1>5, <1>6 DEF ReaderOK
  <2> QED
    BY <1>1, <1>3, <1>5, <2>1 DEF ReaderOK, Live
<1>8. ToRead = x .. me.last
  <2>1. \A y : Todo(r, y) <=> me.pos < y /\ y <= me.last
    BY <1>1 DEF Todo
  <2> QED
    BY <1>5, <1>6, <1>t, <2>1
<1>9. x \in Nat /\ x \in 1 .. sent /\ x \in Alarms
  <2>1. x \in Nat /\ x \in 1 .. sent
    BY <1>1, <1>5, <1>6, <1>t
  <2> QED
    BY <2>1, <1>t, Bounds DEF Alarms
<1>10. Stream' = Stream /\ Pending' = Pending /\ InNtf' = InNtf
  BY <1>1 DEF Stream, Pending, InNtf
<1>11. ASSUME InOrder, NEW y \in Range(delivered)
       PROVE  y <= flags.callbackLast \/ y <= me.pos
  <2>1. FirstRead(r) /\ ReadSoFar(r)
    BY <1>1, <1>7, <1>11 DEF FirstRead, InOrder
  <2> QED
    BY <1>11, <2>1 DEF ReadSoFar
<1>12. ASSUME reader' = [reader EXCEPT ![r].pos = x]
       PROVE  /\ ToRead' = x + 1 .. me.last
              /\ \A q \in Readers : FirstRead(q)' => q = r
              /\ reader'[r].pc = "next" /\ reader'[r].pos = x
  <2>1. /\ \A q \in Readers : q # r => reader'[q] = reader[q]
        /\ reader'[r].pc = "next" /\ reader'[r].pos = x /\ reader'[r].last = me.last
    BY <1>1, <1>3, <1>12 DEF ReaderStates
  <2>2. /\ ToRead' = {y \in 1 .. sent' : Todo(r, y)'}
        /\ \A q \in Readers : FirstRead(q)' => q = r
    BY <1>3, <2>1, OneReaderMoves
  <2>3. \A y : Todo(r, y)' <=> x < y /\ y <= me.last
    BY <2>1 DEF Todo
  <2>4. ToRead' = x + 1 .. me.last
    BY <1>1, <1>5, <1>6, <1>t, <2>2, <2>3
  <2> QED
    BY <2>1, <2>2, <2>4
<1> DEFINE sends == delivered' = Append(delivered, x)
<1>13. \/ /\ x <= nFilter /\ reader' = [reader EXCEPT ![r].pos = x]
          /\ flags' = flags /\ delivered' = delivered
       \/ /\ x > nFilter /\ sends
          /\ \/ reader' = [reader EXCEPT ![r].pos = x]
             \/ reader' = At(r, "drain", "ok") /\ flags.callbackLast = x
          /\ \E b : flags' = [flags EXCEPT !.lastNotificationMatched = b]
  <2>1. CASE me.since = 0 \/ x > me.since
    <3>1. x > nFilter
      BY <1>7, <1>9, <2>1
    <3>2. PICK matches \in BOOLEAN :
             /\ delivered' = Append(delivered, x)
             /\ flags' = [flags EXCEPT !.lastNotificationMatched = @ \/ matches]
             /\ Note("match", matches /\ flags.callbackLast # x)
             /\ reader' = IF matches THEN At(r, "drain", "ok")
                          ELSE [reader EXCEPT ![r].pos = x]
      BY <1>3, <1>5, <2>1 DEF readNext, sendSaNtfNotification, Live
    <3>3. matches => flags.callbackLast = x
      BY <3>2 DEF Note, Live, Fine
    <3> QED
      BY <3>1, <3>2, <3>3
  <2>2. CASE ~(me.since = 0 \/ x > me.since)
    <3>1. /\ reader' = [reader EXCEPT ![r].pos = x]
          /\ flags' = flags /\ delivered' = delivered
      BY <2>2 DEF readNext
    <3> QED
      BY <3>1, <2>2, <1>6, <1>7, <1>9
  <2> QED
    BY <2>1, <2>2
<1>14. /\ flags'.callbackLast = flags.callbackLast
       /\ flags'.readOldAlarmDone = flags.readOldAlarmDone
  BY <1>3, <1>13 DEF Flags
<1> HIDE DEF x, me, sends
\* What does not depend on the case.
<1>15. ASSUME nFilter + 1 .. sent \subseteq Range(delivered)' \cup Due',
              Range(delivered) \subseteq Range(delivered)'
       PROVE  NoneLost'
  BY <1>1, <1>4, <1>10, <1>14, <1>15 DEF NoneLost, UpClosed, Below
<1>16. ASSUME InOrder, Settled(delivered', Due'), \A q \in Readers : ReadSoFar(q)',
              Range(delivered)' \subseteq nFilter + 1 .. sent
       PROVE  InOrder'
  BY <1>1, <1>10, <1>14, <1>16 DEF InOrder, UpClosed, Below, Settled, Increasing
<1>17. Due = Stream \cup (x .. me.last) /\ Due' = Stream \cup ToRead'
  BY <1>8, <1>10 DEF Due
<1>18. nFilter + 1 .. sent \subseteq Range(delivered) \cup Due
  BY <1>4 DEF NoneLost
<1>19. CASE /\ x <= nFilter /\ reader' = [reader EXCEPT ![r].pos = x]
            /\ flags' = flags /\ delivered' = delivered
  <2>1. ToRead' = x + 1 .. me.last /\ reader'[r].pc = "next" /\ reader'[r].pos = x
        /\ \A q \in Readers : FirstRead(q)' => q = r
    BY <1>12, <1>19 DEF me, x
  <2>2. \A y \in nFilter + 1 .. sent : y \in Due => y \in Due'
    BY <1>6, <1>9, <1>17, <1>19, <1>t, <2>1
  <2>3. NoneLost'
    BY <1>15, <1>18, <1>19, <2>2
  <2>4. ASSUME Calm' PROVE InOrder'
    <3>0. InOrder
      BY <1>4, <2>4
    <3>1. Settled(delivered', Due')
      <4>1. \A y \in Range(delivered) : y \in Due => y \in Due'
        BY <3>0, <2>2 DEF InOrder
      <4> QED
        BY <3>0, <1>19, <1>t, <4>1, SettledKept DEF InOrder
    <3>2. \A q \in Readers : ReadSoFar(q)'
      <4>1. \A y \in Range(delivered) : y <= flags.callbackLast \/ y <= x
        BY <3>0, <1>11, <1>6, <1>t DEF x
      <4> QED
        BY <1>14, <1>19, <2>1, <4>1 DEF ReadSoFar
    <3> QED
      BY <3>0, <3>1, <3>2, <1>16, <1>19 DEF InOrder
  <2> QED
    BY <2>3, <2>4
<1>20. CASE x > nFilter /\ sends
  <2>1. delivered' = Append(delivered, x) /\ Range(delivered)' = Range(delivered) \cup {x}
    BY <1>9, <1>20, <1>t, RangeAppend DEF sends
  <2>2. Range(delivered)' \subseteq nFilter + 1 .. sent <=> Range(delivered) \subseteq nFilter + 1 .. sent
    BY <1>9, <1>20, <1>t, <2>1
  <2>3. CASE reader' = [reader EXCEPT ![r].pos = x]
    <3>1. ToRead' = x + 1 .. me.last /\ reader'[r].pc = "next" /\ reader'[r].pos = x
          /\ \A q \in Readers : FirstRead(q)' => q = r
      BY <1>12, <2>3 DEF me, x
    <3>2. Due \subseteq Due' \cup {x}
      BY <1>6, <1>9, <1>17, <3>1
    <3>3. NoneLost'
      BY <1>15, <1>18, <2>1, <3>2
    <3>4. ASSUME Calm' PROVE InOrder'
      <4>0. InOrder
        BY <1>4, <3>4
      <4>1. \A y \in Range(delivered) : y <= flags.callbackLast \/ y <= x
        BY <4>0, <1>11, <1>6, <1>t DEF x
      <4>2. \A y \in Range(delivered) : y > x => y \in Due'
        BY <1>6, <1>7, <1>9, <1>17, <1>t, <3>1, <4>1 DEF me
      <4>3. Settled(delivered', Due')
        BY <4>0, <1>9, <1>t, <2>1, <3>2, <4>2, SettledMore DEF InOrder
      <4>4. \A q \in Readers : ReadSoFar(q)'
        BY <1>9, <1>14, <2>1, <3>1, <4>1 DEF ReadSoFar
      <4> QED
        BY <4>0, <4>3, <4>4, <1>16, <2>2 DEF InOrder
    <3> QED
      BY <3>3, <3>4
  <2>4. CASE reader' = At(r, "drain", "ok") /\ flags.callbackLast = x
    <3>1. (\A q \in Readers : q # r => reader'[q] = reader[q]) /\ reader'[r].pc = "drain"
      BY <1>3, <2>4 DEF At, NoReader
    <3>2. \A q \in Readers : ~FirstRead(q)'
      BY <1>3, <3>1, OneReaderMoves DEF FirstRead
    <3>3. x .. sent \subseteq Range(delivered) \cup Stream
      BY <1>4, <1>9, <2>4 DEF NoneLost
    <3>4. x .. me.last \subseteq x .. sent
      BY <1>5, <1>6, <1>9, <1>t DEF me
    <3>5. NoneLost'
      BY <1>15, <1>17, <1>18, <2>1, <3>3, <3>4
    <3>6. ASSUME Calm' PROVE InOrder'
      <4>0. InOrder
        BY <1>4, <3>6
      <4>1. \A y \in Range(delivered) : y <= x
        BY <4>0, <1>11, <1>6, <1>t, <2>4 DEF x
      <4>2. \A y \in Range(delivered) : (y > x => y \in Due') /\ (y \in Due => y = x \/ y \in Due')
        BY <1>6, <1>9, <1>17, <1>t, <4>1
      <4>3. Settled(delivered', Due')
        BY <4>0, <1>9, <1>t, <2>1, <4>2, SettledMore DEF InOrder
      <4>4. \A q \in Readers : ReadSoFar(q)'
        BY <3>2 DEF ReadSoFar
      <4> QED
        BY <4>0, <4>3, <4>4, <1>16, <2>2 DEF InOrder
    <3> QED
      BY <3>5, <3>6
  <2> QED
    BY <1>13, <1>20, <2>3, <2>4
<1> QED
  BY <1>13, <1>19, <1>20

\* The reader gives COM the first alarm of the queue, or finds it empty.
LEMMA DrainStep ==
    ASSUME AlarmInv, [Next]_vars, NEW r \in Readers, sendQueuedAlarms(r)
    PROVE  StreamInv' /\ OrderInv'
<1>1. /\ UNCHANGED <<sent, pending, nFilter, main, ntf>> /\ reader[r].pc = "drain"
  BY DEF sendQueuedAlarms, ntfService, session, mainVars
<1>2. (Fine' => Fine) /\ (Calm' => Calm)
  BY FaultsGrow DEF Fine, Calm
<1>3. CASE ~Live'
  BY <1>3 DEF StreamInv, OrderInv
<1>4. ASSUME Live' PROVE StreamInv' /\ OrderInv'
  <2>1. /\ Live /\ Alive(r) /\ reader \in [Readers -> ReaderStates] /\ flags \in Flags
    BY <1>1, <1>2, <1>4 DEF Alive, AlarmInv, TypeOK, Live
  <2>2. router /\ ~stop
    BY <2>1, OneReader
  <2>3. CASE alarmQueue = <<>>
    <3>1. /\ reader' = [reader EXCEPT ![r].pc = "return"]
          /\ flags' = [flags EXCEPT !.readOldAlarm = FALSE]
          /\ UNCHANGED <<alarmQueue, delivered>>
      BY <2>2, <2>3 DEF sendQueuedAlarms
    <3>2. /\ \A q \in Readers : q # r => reader'[q] = reader[q]
          /\ reader'[r].pc = "return"
      BY <2>1, <3>1 DEF ReaderStates
    <3>3. /\ flags'.callbackLast = flags.callbackLast
          /\ flags'.readOldAlarmDone = flags.readOldAlarmDone
      BY <2>1, <3>1 DEF Flags
    <3>4. \A y \in 1 .. sent : Todo(r, y)' <=> Todo(r, y)
      BY <1>1, <3>2 DEF Todo
    <3>5. ReadSoFar(r)'
      BY <3>2 DEF ReadSoFar, FirstRead
    <3> QED
      BY <1>1, <1>2, <2>1, <3>1, <3>2, <3>3, <3>4, <3>5, ReaderStill
  <2>4. CASE alarmQueue # <<>>
    <3> DEFINE h == Head(alarmQueue)
    <3>1. /\ delivered' = Append(delivered, h) /\ alarmQueue' = Tail(alarmQueue)
          /\ flags' = flags /\ reader' = reader
      BY <2>2, <2>4 DEF sendQueuedAlarms, sendSaNtfNotification
    <3>2. NoneLost /\ (Calm' => InOrder)
      BY <1>2, <2>1 DEF AlarmInv, StreamInv, OrderInv
    <3>t. /\ sent \in Nat /\ nFilter \in Nat
          /\ delivered \in Seq(Alarms) /\ alarmQueue \in Seq(Alarms)
          /\ Pending \subseteq Nat /\ InNtf \subseteq Nat /\ Range(alarmQueue) \subseteq Nat
          /\ Range(delivered) \subseteq Nat
      BY <2>1, LiveTypes DEF AlarmInv
    <3>3. /\ Range(alarmQueue) = Range(Tail(alarmQueue)) \cup {h} /\ h \in Alarms
          /\ Increasing(alarmQueue) => /\ Increasing(Tail(alarmQueue))
                                       /\ \A y \in Range(Tail(alarmQueue)) : h < y
      BY <2>4, <3>t, RangeTail
    <3>n. h \in Nat
      BY <3>3, Bounds DEF Alarms
    <3> HIDE DEF h
    <3>4. Range(alarmQueue)' = Range(Tail(alarmQueue))
      BY <3>1
    <3>5. Range(delivered)' = Range(delivered) \cup {h}
      BY <3>1, <3>3, <3>t, RangeAppend
    <3>6. Pending' = Pending /\ InNtf' = InNtf /\ ToRead' = ToRead
      BY <1>1, <3>1 DEF Pending, InNtf, ToRead, Todo
    <3>7. Stream = Stream' \cup {h} /\ Due = Due' \cup {h}
      BY <3>3, <3>4, <3>6 DEF Stream, Due
    <3>8. NoneLost'
      BY <1>1, <3>1, <3>2, <3>5, <3>6, <3>7 DEF NoneLost, UpClosed, Below
    <3>9. ASSUME Calm' PROVE InOrder'
      <4>0. InOrder
        BY <3>2, <3>9
      <4>1. /\ Increasing(alarmQueue) /\ Below(Range(alarmQueue), Pending \cup InNtf)
            /\ UpClosed(Stream) /\ Range(alarmQueue) \subseteq nFilter + 1 .. sent
            /\ Range(delivered) \subseteq nFilter + 1 .. sent /\ Settled(delivered, Due)
        BY <4>0 DEF InOrder
      <4>2. \A y \in Stream' : h < y
        BY <3>3, <3>4, <3>6, <4>1 DEF Stream, Below
      <4>3. h \in Stream /\ Stream \subseteq Nat
        BY <3>3, <3>t DEF Stream
      <4>4. UpClosed(Stream)'
        <5>1. ASSUME NEW z \in Stream', NEW y \in z .. sent PROVE y \in Stream'
          <6>1. y \in Stream
            BY <3>7, <4>1, <5>1 DEF UpClosed
          <6>2. y # h
            BY <3>7, <3>n, <3>t, <4>2, <4>3, <5>1
          <6> QED
            BY <3>7, <6>1, <6>2
        <5> QED
          BY <1>1, <5>1 DEF UpClosed
      <4>5. Settled(delivered', Due')
        <5>1. \A y \in Range(delivered) : y > h => y \in Stream'
          <6>1. \A y \in h .. sent : y \in Stream
            BY <4>1, <4>3 DEF UpClosed
          <6> QED
            BY <3>7, <3>n, <3>t, <4>1, <6>1
        <5>2. Stream' \subseteq Due'
          BY DEF Due
        <5> QED
          BY <3>1, <3>3, <3>7, <3>t, <4>1, <5>1, <5>2, SettledMore
      <4>6. \A q \in Readers : ReadSoFar(q)'
        <5>1. \A q \in Readers : FirstRead(q)' => q = r
          BY <2>1, <3>1, OneReaderMoves
        <5>2. ~FirstRead(r)'
          BY <1>1, <3>1 DEF FirstRead
        <5> QED
          BY <5>1, <5>2 DEF ReadSoFar
      <4>7. ntf'.pc # "send"
        BY <1>1, <2>4, <4>0 DEF InOrder
      <4>8. /\ Range(alarmQueue)' \subseteq nFilter + 1 .. sent
            /\ Range(delivered)' \subseteq nFilter + 1 .. sent
            /\ Increasing(alarmQueue)' /\ Below(Range(alarmQueue)', Pending' \cup InNtf')
        BY <3>1, <3>3, <3>4, <3>5, <3>6, <4>1 DEF Below
      <4> QED
        BY <1>1, <4>4, <4>5, <4>6, <4>7, <4>8 DEF InOrder, Below, Settled
    <3> QED
      BY <3>8, <3>9 DEF StreamInv, OrderInv
  <2> QED
    BY <2>3, <2>4
<1> QED
  BY <1>3, <1>4

\* COM adds its filter: all of the log is to be read.
LEMMA FilterStep ==
    ASSUME AlarmInv, addFilter_V4
    PROVE  StreamInv' /\ OrderInv'
<1> SUFFICES ASSUME Live'
             PROVE  NoneLost' /\ InOrder'
  BY DEF StreamInv, OrderInv
<1>1. /\ UNCHANGED <<sent, pending, main, flags, alarmQueue, ntf>>
      /\ main = "open" /\ nFilter = -1
  BY DEF addFilter_V4, queueVars
<1>2. PICK r \in Readers :
         /\ nFilter' \in 0 .. sent /\ delivered' = <<>>
         /\ reader[r].pc = "none" /\ reader' = [reader EXCEPT ![r].pc = "begin"]
         /\ faults' = faults \cup (IF ReaderAlive THEN {"overlap"} ELSE {})
                             \cup (IF flags.readOldAlarmDone THEN {"resubscribe"} ELSE {})
  <2>1. nFilter' # -1 /\ ~Note("read", TRUE)
    BY DEF Live, Fine, Note
  <2> QED
    BY <1>1, <2>1 DEF addFilter_V4
<1>3. Fine /\ ~ReaderAlive /\ ~flags.readOldAlarmDone
  BY <1>2 DEF Live, Fine
<1>4. Fresh
  BY <1>1, <1>3 DEF AlarmInv, ReadersInv
<1>5. Pending' = {} /\ Ordered(pending)'
  <2>1. \A i \in DOMAIN pending : pending[i].kind = "cm"
    BY <1>1 DEF AlarmInv, SessionInv
  <2>2. NoCm(pending) = {}
    BY <2>1 DEF NoCm
  <2>3. NoCm(pending)' = {}
    BY <1>1, <2>2
  <2> QED
    BY <2>3 DEF Pending, Ids, Ordered
<1>6. InNtf' = {} /\ ntf'.pc # "send"
  BY <1>1, <1>4 DEF Fresh, InNtf
<1>7. alarmQueue' = <<>> /\ flags'.callbackLast = 0 /\ flags'.readOldAlarm = FALSE
  BY <1>1, <1>4 DEF Fresh, InitialFlags
<1>8. Range(<<>>) = {} /\ Increasing(<<>>) /\ \A D : Settled(<<>>, D)
  BY DEF Range, Increasing, Settled
<1>9. reader'[r].pc = "begin"
  BY <1>2 DEF AlarmInv, TypeOK, ReaderStates
<1>10. 1 .. sent \subseteq ToRead'
  <2>1. \A y \in 1 .. sent : Todo(r, y)'
    BY <1>7, <1>9 DEF Todo
  <2> QED
    BY <1>1, <2>1 DEF ToRead
<1>11. Stream' = {}
  BY <1>5, <1>6, <1>7, <1>8 DEF Stream
<1>12. sent \in Nat /\ nFilter' \in Nat /\ nFilter' <= sent
  BY <1>2, Bounds DEF AlarmInv, TypeOK
<1>13. NoneLost'
  <2>1. nFilter' + 1 .. sent' \subseteq Due'
    <3>1. ASSUME NEW y \in nFilter' + 1 .. sent PROVE y \in 1 .. sent
      <4>1. \A m, n \in Nat : \A z \in m + 1 .. n : z \in 1 .. n
        OBVIOUS
      <4> QED
        BY <1>12, <4>1
    <3> QED
      BY <1>1, <1>10, <3>1 DEF Due
  <2> QED
    BY <1>1, <1>5, <1>6, <1>7, <1>12, <2>1 DEF NoneLost, UpClosed, Below
<1>14. InOrder'
  BY <1>2, <1>5, <1>6, <1>7, <1>8, <1>11 DEF InOrder, UpClosed, Below, ReadSoFar
<1> QED
  BY <1>13, <1>14

\* The CM callbacks, and what only the MAF thread does.
LEMMA OtherSteps ==
    ASSUME AlarmInv, [Next]_vars,
           \/ ChangeConfiguration \/ cmNotificationCallback \/ cmLocked \/ cmPushed
           \/ ntfThreadEnds \/ maf_ComNtfServiceOpen \/ removeFilter_V4
           \/ maf_ComNtfServiceClose \/ CloseStep \/ UNCHANGED vars
    PROVE  StreamInv' /\ OrderInv'
<1>0. (Fine' => Fine) /\ (Calm' => Calm) /\ TypeOK /\ StreamInv /\ OrderInv
  BY FaultsGrow DEF Fine, Calm, AlarmInv
<1>t. ntf \in NtfStates /\ pending \in Seq(Notifications)
  BY <1>0 DEF TypeOK
<1>1. ASSUME UNCHANGED <<sent, nFilter, main, flags, alarmQueue, delivered, reader>>,
             ntf' = ntf \/ (/\ ntf.pc \notin {"queue", "send"}
                            /\ ntf'.pc \notin {"queue", "send"}),
             Pending' = Pending, Ordered(pending)' = Ordered(pending)
      PROVE  StreamInv' /\ OrderInv'
  <2>1. (Live' => Live) /\ InNtf' = InNtf /\ ToRead' = ToRead
    BY <1>0, <1>1 DEF Live, InNtf, ToRead, Todo
  <2>2. \A r \in Readers : ReadSoFar(r)' = ReadSoFar(r)
    BY <1>1 DEF ReadSoFar, FirstRead
  <2>3. ntf'.pc = "send" => ntf' = ntf
    BY <1>1
  <2> QED
    BY <1>0, <1>1, <2>1, <2>2, <2>3, NothingMoves
<1>2. CASE maf_ComNtfServiceOpen \/ maf_ComNtfServiceClose \/ CloseStep
  <2>1. ~Live'
    BY <1>2 DEF maf_ComNtfServiceOpen, maf_ComNtfServiceClose, CloseStep, closeLocks,
                closeUnregisters, closeFinalizes, closeUnlocks, Live
  <2> QED
    BY <2>1 DEF StreamInv, OrderInv
<1>3. CASE ChangeConfiguration
  <2>1. /\ UNCHANGED <<sent, nFilter, main, flags, alarmQueue, delivered, reader, ntf>>
        /\ pending' = Append(pending, CmNotification)
    BY <1>3 DEF ChangeConfiguration, session, queueVars, mainVars
  <2>2. CmNotification \in Notifications /\ CmNotification.kind = "cm"
    BY DEF CmNotification, Notifications
  <2>3. CASE Live'
    <3>1. /\ Ids(Append(pending, CmNotification)) = Ids(pending)
          /\ Ordered(pending) => Ordered(Append(pending, CmNotification))
      <4> DEFINE n == CmNotification
      <4>1. n \in Notifications /\ n.kind = "cm"
        BY <2>2
      <4> HIDE DEF n
      <4>2. /\ Ids(Append(pending, n)) = Ids(pending)
            /\ Ordered(pending) => Ordered(Append(pending, n))
        <5>1. /\ Ids(Append(pending, n)) =
                    Ids(pending) \cup (IF n.kind = "cm" THEN {} ELSE {n.id})
              /\ Ordered(pending) /\ (n.kind # "cm" => \A x \in Ids(pending) : x < n.id) =>
                    Ordered(Append(pending, n))
          BY <1>t, <4>1, IdsAppend
        <5> QED
          BY <4>1, <5>1
      <4> QED
        BY <4>2 DEF n
    <3>2. Live
      BY <1>0, <2>1, <2>3 DEF Live
    <3>3. Ordered(pending)
      BY <1>0, <3>2 DEF StreamInv, NoneLost
    <3> QED
      BY <1>1, <2>1, <3>1, <3>3 DEF Pending
  <2>4. CASE ~Live'
    BY <2>4 DEF StreamInv, OrderInv
  <2> QED
    BY <2>3, <2>4
<1>4. CASE cmNotificationCallback
  <2>1. /\ UNCHANGED <<sent, nFilter, main, flags, alarmQueue, delivered, reader>>
        /\ pending # <<>> /\ Head(pending).kind = "cm" /\ pending' = Tail(pending)
        /\ ntf.pc = "idle" /\ ntf'.pc \notin {"queue", "send"}
    BY <1>4 DEF cmNotificationCallback, session, queueVars, mainVars, IdleNtf
  <2>2. CASE Live'
    <3>1. /\ Ids(pending) = Ids(Tail(pending))
          /\ Ordered(pending) => Ordered(Tail(pending))
      BY <1>t, <2>1, IdsTail
    <3>2. Live
      BY <1>0, <2>1, <2>2 DEF Live
    <3>3. Ordered(pending)
      BY <1>0, <3>2 DEF StreamInv, NoneLost
    <3> QED
      BY <1>1, <2>1, <3>1, <3>3 DEF Pending
  <2>3. CASE ~Live'
    BY <2>3 DEF StreamInv, OrderInv
  <2> QED
    BY <2>2, <2>3
<1>5. CASE cmLocked \/ cmPushed \/ ntfThreadEnds
  <2>1. /\ UNCHANGED <<sent, pending, nFilter, main, flags, alarmQueue, delivered, reader>>
        /\ ntf.pc \notin {"queue", "send"} /\ ntf'.pc \notin {"queue", "send"}
    <3>1. /\ UNCHANGED <<sent, pending, nFilter, main, flags, alarmQueue, delivered, reader>>
          /\ ntf.pc \in {"idle", "cmLock", "cmPush"}
      BY <1>5 DEF cmLocked, cmPushed, ntfThreadEnds, ntfService, session, queueVars, mainVars
    <3>2. ntf'.pc \notin {"queue", "send"}
      BY <1>5, <1>t DEF cmLocked, cmPushed, ntfThreadEnds, IdleNtf, NtfStates
    <3> QED
      BY <3>1, <3>2
  <2> QED
    BY <1>1, <2>1 DEF Pending, Ids, Ordered, NoCm
<1>6. CASE removeFilter_V4
  <2>1. CASE nFilter' = -1
    BY <2>1 DEF Live, StreamInv, OrderInv
  <2>2. CASE nFilter' # -1
    <3>1. UNCHANGED <<sent, pending, nFilter, main, flags, alarmQueue, delivered, reader, ntf>>
      BY <1>6, <2>2 DEF removeFilter_V4, queueVars, mainVars
    <3> QED
      BY <1>1, <3>1 DEF Pending, Ids, Ordered, NoCm
  <2> QED
    BY <2>1, <2>2
<1>7. CASE UNCHANGED vars
  <2>1. UNCHANGED <<sent, pending, nFilter, main, flags, alarmQueue, delivered, reader, ntf>>
    BY <1>7 DEF vars, ntfService, session, queueVars, mainVars
  <2> QED
    BY <1>1, <2>1 DEF Pending, Ids, Ordered, NoCm
<1> QED
  BY <1>2, <1>3, <1>4, <1>5, <1>6, <1>7

-----------------------------------------------------------------------------
(***************************************************************************)
(* The results.                                                            *)
(***************************************************************************)
\* The invariant holds initially.
LEMMA AlarmInit == Init => AlarmInv
<1> SUFFICES ASSUME Init PROVE AlarmInv
  OBVIOUS
<1>1. TypeOK
  BY TypeInit
<1>2. /\ sent \in Nat /\ nFilter = -1 /\ main = "closed" /\ ~handle /\ ~stop /\ ~subscribed
      /\ pending = <<>> /\ ntf.pc = "idle"
      /\ reader = [r \in Readers |-> NoReader]
  BY Bounds DEF Init, IdleNtf
<1>3. \A r \in Readers : reader[r] = NoReader /\ reader[r].pc = "none" /\ reader[r].last = 0
  BY <1>2 DEF NoReader
<1>4. SessionInv
  BY <1>2 DEF SessionInv
<1>5. ReadersInv
  BY <1>2, <1>3 DEF ReadersInv, Alive
<1>6. QueueInv /\ StreamInv /\ OrderInv
  BY <1>2 DEF QueueInv, StreamInv, OrderInv, Live
<1>7. LogInv
  BY <1>2, <1>3 DEF LogInv
<1> QED
  BY <1>1, <1>4, <1>5, <1>6, <1>7 DEF AlarmInv

\* Every step keeps the invariant.
LEMMA AlarmStep == AlarmInv /\ [Next]_vars => AlarmInv'
<1> SUFFICES ASSUME AlarmInv, [Next]_vars PROVE AlarmInv'
  OBVIOUS
<1>1. TypeOK' /\ SessionInv' /\ ReadersInv' /\ QueueInv' /\ LogInv'
  BY TypeStep, SessionStep, ReadersStep, QueueStep, LogStep DEF AlarmInv
<1>2. StreamInv' /\ OrderInv'
  <2>1. ASSUME NEW r \in Readers, ReaderStep(r) PROVE StreamInv' /\ OrderInv'
    BY <2>1, BeginStep, InitializeStep, EndsStep, NextStep, DrainStep, ReturnStep DEF ReaderStep
  <2>2. CASE NtfStep
    BY <2>2, TakeStep, QueueAlarmStep, SendStep, OtherSteps DEF NtfStep
  <2> QED
    BY <2>1, <2>2, RaiseStep, FilterStep, OtherSteps DEF Next
<1> QED
  BY <1>1, <1>2 DEF AlarmInv

\* Once nothing is under way in a live session no alarm is on its way.
LEMMA NothingDue ==
    ASSUME AlarmInv, Quiet, Fine
    PROVE  Live /\ Due = {}
<1>1. Live /\ ~ReaderAlive
  BY DEF Quiet, Live
<1>2. Pending = {} /\ InNtf = {}
  BY DEF Quiet, Pending, Ids, NoCm, InNtf
<1>3. alarmQueue = <<>>
  <2>1. ~flags.readOldAlarm
    BY <1>1 DEF AlarmInv, ReadersInv, Fresh, Live
  <2> QED
    BY <1>1, <2>1 DEF AlarmInv, QueueInv, Live
<1>4. ToRead = {}
  BY <1>1 DEF ToRead, Todo, ReaderAlive
<1>5. Range(<<>>) = {}
  BY DEF Range
<1> QED
  BY <1>1, <1>2, <1>3, <1>4, <1>5 DEF Due, Stream

(***************************************************************************)
(* The variables of the notification service and of its threads have their *)
(* types, in every opening and with any number of readers.                 *)
(***************************************************************************)
THEOREM NotificationTypeCorrect == Spec => []TypeOK
<1>1. AlarmInv => TypeOK
  BY DEF AlarmInv
<1> QED
  BY AlarmInit, AlarmStep, <1>1, PTL DEF Spec

(***************************************************************************)
(* Once nothing is under way COM has every alarm it asked for, whatever    *)
(* the order of the callbacks, the reader, openings and closings, unless   *)
(* one of the named faults has struck.                                     *)
(***************************************************************************)
THEOREM EveryAlarmGiven == Spec => []NoAlarmMissed
<1>1. AlarmInv => NoAlarmMissed
  <2> SUFFICES ASSUME AlarmInv, Quiet, faults \subseteq {"late", "discard"}
               PROVE  Wanted \subseteq Range(delivered)
    BY DEF NoAlarmMissed
  <2>1. Live /\ Due = {}
    BY NothingDue DEF Fine
  <2>2. nFilter + 1 .. sent \subseteq Range(delivered)
    BY <2>1 DEF AlarmInv, StreamInv, NoneLost
  <2>3. sent \in Nat /\ nFilter \in Nat
    BY <2>1, LiveTypes DEF AlarmInv
  <2>4. Wanted \subseteq nFilter + 1 .. sent
    BY <2>3 DEF Wanted
  <2> QED
    BY <2>2, <2>4
<1> QED
  BY AlarmInit, AlarmStep, <1>1, PTL DEF Spec

(***************************************************************************)
(* Once nothing is under way an alarm that COM was given before an older   *)
(* one has been given to it again after that: the queue and the old alarms *)
(* that the reader fetches never leave an old alarm as the latest news.    *)
(***************************************************************************)
THEOREM OldAlarmsHideNone == Spec => []NewestAlarmLast
<1>1. AlarmInv => NewestAlarmLast
  <2> SUFFICES ASSUME AlarmInv, Quiet, faults \subseteq {"late"},
                      NEW i \in DOMAIN delivered, NEW j \in DOMAIN delivered,
                      i < j, delivered[j] < delivered[i]
               PROVE  \E k \in DOMAIN delivered : k > j /\ delivered[k] = delivered[i]
    BY DEF NewestAlarmLast
  <2>1. Live /\ Due = {} /\ Calm
    BY NothingDue DEF Fine, Calm
  <2>2. Settled(delivered, {})
    BY <2>1 DEF AlarmInv, OrderInv, InOrder
  <2> QED
    BY <2>2 DEF Settled
<1> QED
  BY AlarmInit, AlarmStep, <1>1, PTL DEF Spec
=============================================================================
