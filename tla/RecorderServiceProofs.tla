----------------------- MODULE RecorderServiceProofs -----------------------
(***************************************************************************)
(* Theorems about RecorderService, for every set of applications, ports    *)
(* and files, for patient and impatient users and whatever the bounds are: *)
(* the types, that the pid file names the listening tcproxy, and that one  *)
(* application is redirected at a time.                                    *)
(***************************************************************************)
EXTENDS RecorderService, SequenceTheorems, TLAPS

-----------------------------------------------------------------------------
(* Sequences: what the message queue and the list of intents are made of.  *)

\* What is left of a queue after its head, and its head, are of its type.
LEMMA RestType ==
  ASSUME NEW S, NEW q \in Seq(S)
  PROVE  /\ SubSeq(q, 2, Len(q)) \in Seq(S)
         /\ q # <<>> => Head(q) \in S
<1>1. Len(q) \in Nat /\ \A i \in 2..Len(q) : q[i] \in S
  BY LenProperties, ElementOfSeq
<1>2. SubSeq(q, 2, Len(q)) \in Seq(S)
  BY <1>1, SubSeqProperties
<1>3. QED
  BY <1>2, HeadTailProperties

\* Posting a message keeps the type of a queue.
LEMMA PostedType ==
  ASSUME NEW S, NEW q \in Seq(S), NEW m \in S
  PROVE  Posted(m, q) \subseteq Seq(S)
<1> SUFFICES ASSUME NEW k \in 0..Len(q)
             PROVE  SubSeq(q, 1, k) \o <<m>> \o SubSeq(q, k + 1, Len(q))
                      \in Seq(S)
  BY DEF Posted
<1>1. Len(q) \in Nat /\ \A i \in 1..Len(q) : q[i] \in S
  BY LenProperties, ElementOfSeq
<1>2. SubSeq(q, 1, k) \in Seq(S)
  BY <1>1, SubSeqProperties
<1>3. SubSeq(q, k + 1, Len(q)) \in Seq(S)
  BY <1>1, SubSeqProperties
<1>4. <<m>> \in Seq(S)
  OBVIOUS
<1>5. QED
  BY <1>2, <1>3, <1>4, ConcatProperties

\* A lifecycle message is a message.
LEMMA LifecycleIsMessage == Seq(Lifecycle) \subseteq Seq(Message)
BY SeqMonotonic DEF Message

\* The messages of the activity manager and of stopSelf are lifecycle messages.
LEMMA LifecycleMsg ==
  ASSUME NEW id \in Nat
  PROVE  /\ \A t \in {"create", "stopSelf", "destroy"} :
              Msg(t, id, None) \in Lifecycle
         /\ \A i \in Request \cup {None} : Msg("args", id, i) \in Lifecycle
BY DEF Msg, Lifecycle

\* The requests that a restarted service is given again.
LEMMA AgainType ==
  ASSUME NEW id \in Nat, NEW q \in Seq(Request)
  PROVE  [i \in 1..Len(q) |-> Msg("args", id, q[i])] \in Seq(Lifecycle)
<1>1. Len(q) \in Nat /\ \A i \in 1..Len(q) : q[i] \in Request
  BY LenProperties, ElementOfSeq
<1>2. [i \in 1..Len(q) |-> Msg("args", id, q[i])]
        \in [1..Len(q) -> Lifecycle]
  BY <1>1, LifecycleMsg
<1>3. QED
  BY <1>1, <1>2, SeqDef

-----------------------------------------------------------------------------
(* The operators that several actions share.                               *)

ManagerType == /\ record \in Nat /\ sticky \in BOOLEAN
               /\ intents \in Seq(Request) /\ foreground \in BOOLEAN

\* Posting a lifecycle message.
LEMMA PostLifecycle ==
  ASSUME NEW m \in Lifecycle, NEW q \in Seq(Message), NEW p \in Posted(m, q)
  PROVE  /\ p \in Seq(Message)
         /\ q \in Seq(Lifecycle) => p \in Seq(Lifecycle)
BY PostedType DEF Message

\* stopSelf keeps the types, and posts no "start".
LEMMA StopSelfType ==
  ASSUME ManagerType, NEW id \in Nat, NEW q \in Seq(Message), StopSelf(id, q)
  PROVE  /\ ManagerType' /\ inbox' \in Seq(Message)
         /\ q \in Seq(Lifecycle) => inbox' \in Seq(Lifecycle)
<1>1. CASE record = id
  <2>1. Msg("destroy", record, None) \in Lifecycle
    BY LifecycleMsg DEF ManagerType
  <2>2. inbox' \in Posted(Msg("destroy", record, None), q)
    BY <1>1 DEF StopSelf, StopRecord
  <2>3. ManagerType'
    <3>1. record' = 0 /\ sticky' = FALSE /\ intents' = <<>> /\ foreground' = FALSE
      BY <1>1 DEF StopSelf, StopRecord
    <3>2. <<>> \in Seq(Request)
      OBVIOUS
    <3>3. QED
      BY <3>1, <3>2 DEF ManagerType
  <2>4. QED
    BY <2>1, <2>2, <2>3, PostLifecycle
<1>2. CASE record # id
  BY <1>2 DEF StopSelf, ManagerType, manager
<1>3. QED
  BY <1>1, <1>2

\* After its death the process has nothing but lifecycle messages to handle.
LEMMA ProcessDiesType ==
  ASSUME ManagerType, ProcessDies
  PROVE  /\ ManagerType' /\ inbox' \in Seq(Lifecycle)
<1> DEFINE again == IF intents = <<>>
                    THEN <<Msg("args", record, None)>>
                    ELSE [i \in 1..Len(intents) |->
                            Msg("args", record, intents[i])]
<1>1. again \in Seq(Lifecycle)
  <2>1. Msg("args", record, None) \in Lifecycle
    BY LifecycleMsg DEF ManagerType
  <2>2. <<Msg("args", record, None)>> \in Seq(Lifecycle)
    BY <2>1
  <2>3. QED
    BY <2>2, AgainType DEF ManagerType
<1>2. Msg("create", record, None) \in Lifecycle
  BY LifecycleMsg DEF ManagerType
<1>3. <<Msg("create", record, None)>> \o again \in Seq(Lifecycle)
  <2>1. <<Msg("create", record, None)>> \in Seq(Lifecycle)
    BY <1>2
  <2> HIDE DEF again
  <2>2. QED
    BY <1>1, <2>1, ConcatProperties
<1>4. \/ /\ inbox' = <<Msg("create", record, None)>> \o again
         /\ UNCHANGED <<record, sticky, intents>>
      \/ /\ inbox' = <<>>
         /\ record' = 0 /\ sticky' = FALSE /\ intents' = <<>>
  BY Zenon DEF ProcessDies
<1>5. foreground' = FALSE
  BY DEF ProcessDies
<1>6. <<>> \in Seq(Request) /\ <<>> \in Seq(Lifecycle)
  OBVIOUS
<1> HIDE DEF again
<1>7. inbox' \in Seq(Lifecycle)
  BY <1>3, <1>4, <1>6
<1>8. ManagerType'
  <2>1. record' \in Nat
    BY <1>4, SMT DEF ManagerType
  <2>3. sticky' \in BOOLEAN
    BY <1>4, Zenon DEF ManagerType
  <2>4. intents' \in Seq(Request)
    BY <1>4, <1>6, Zenon DEF ManagerType
  <2>2. QED
    BY <2>1, <2>3, <2>4, <1>5 DEF ManagerType
<1>9. QED
  BY <1>7, <1>8

-----------------------------------------------------------------------------
(* The parts of the type invariant, and that a part nothing changed holds. *)

ObjectType  == /\ svc \in Nat /\ health \in {"none", "noRoot", "noBinaries", "ok"}
               /\ handler \in BOOLEAN
ReadingType == reading \subseteq Nat
ThreadType  == pc \in {"idle"} \cup StartPC \cup StopPC /\ job \in Job
StaticsType == /\ logAppUID \in Apps \cup {None} /\ logFile \in Files \cup {None}
               /\ logEntryID \in EntryID \cup {None}
RulesType   == rules \subseteq Apps \X Ports
ProxyType   == /\ pidFile \in Nat /\ proxy \in [pid : Nat, log : Files \cup {None}]
               /\ kids \in [Files -> Nat] /\ lastPid \in Nat
FlashType   == logs \in [Files -> Nat \cup {None}] /\ rows \subseteq LogRow
UserType    == now \in Nat /\ lastId \in Nat /\ starts \in Nat /\ crashes \in Nat
InboxType   == inbox \in Seq(Message)
FaultsType  == faults \in Nat

proxies == <<pidFile, proxy, kids, lastPid>>

\* The type invariant is the conjunction of its parts.
LEMMA TypeParts ==
  TypeOK <=> /\ ManagerType /\ InboxType /\ ObjectType /\ ReadingType
             /\ ThreadType /\ StaticsType /\ RulesType /\ ProxyType
             /\ FlashType /\ UserType /\ FaultsType
BY DEF TypeOK, ManagerType, InboxType, ObjectType, ReadingType, ThreadType,
       StaticsType, RulesType, ProxyType, FlashType, UserType, FaultsType

\* A part of the type invariant holds on when nothing of it changes.
LEMMA UnchangedTypes ==
  ASSUME TypeOK
  PROVE  /\ UNCHANGED manager => ManagerType'
         /\ UNCHANGED inbox => InboxType'
         /\ UNCHANGED object => ObjectType'
         /\ UNCHANGED reading => ReadingType'
         /\ UNCHANGED thread => ThreadType'
         /\ UNCHANGED statics => StaticsType'
         /\ UNCHANGED rules => RulesType'
         /\ UNCHANGED proxies => ProxyType'
         /\ UNCHANGED root => RulesType' /\ ProxyType'
         /\ UNCHANGED flash => FlashType'
         /\ UNCHANGED user => UserType'
         /\ UNCHANGED faults => FaultsType'
BY DEF TypeOK, ManagerType, InboxType, ObjectType, ReadingType, ThreadType,
       StaticsType, RulesType, ProxyType, FlashType, UserType, FaultsType,
       manager, object, thread, statics, proxies, root, flash, user

-----------------------------------------------------------------------------
(* Type correctness of each action.  A leaf names what the action changes; *)
(* UnchangedTypes has the rest.                                            *)

\* The message that is being taken, and what it leaves.
LEMMA TakenType ==
  ASSUME TypeOK, inbox # <<>>
  PROVE  Head(inbox) \in Message /\ Rest \in Seq(Message)
BY RestType DEF TypeOK, Rest

\* What the type of a message says of its fields.
LEMMA MessageType ==
  ASSUME NEW m \in Message
  PROVE  /\ m.id \in Nat /\ m.intent \in Request \cup {None}
         /\ m.type = "start" => m.intent \in Request
         /\ m.type # "start" => m \in Lifecycle
BY DEF Message, Lifecycle

\* onStartCommand returned.
LEMMA AnsweredType ==
  ASSUME ManagerType, NEW s \in BOOLEAN, Answered(s), UNCHANGED <<record, foreground>>
  PROVE  ManagerType'
<1>1. SubSeq(intents, 2, Len(intents)) \in Seq(Request)
  BY RestType DEF ManagerType
<1>2. intents' \in Seq(Request)
  BY <1>1 DEF Answered, ManagerType
<1>3. sticky' \in BOOLEAN
  BY Zenon DEF Answered, ManagerType
<1>4. QED
  BY <1>2, <1>3 DEF ManagerType

\* The script of killLogger.
LEMMA KillScriptType ==
  ASSUME TypeOK, KillScript
  PROVE  RulesType' /\ ProxyType' /\ FaultsType'
BY DEF TypeOK, KillScript, KillByPidFile, Works, Fails, root, NoProxy,
       RulesType, ProxyType, FaultsType

\* The death of the process.
LEMMA DeathType ==
  ASSUME TypeOK, ProcessDies
  PROVE  /\ ManagerType' /\ InboxType' /\ ObjectType' /\ ReadingType'
         /\ ThreadType' /\ StaticsType'
<1>1. ManagerType
  BY TypeParts
<1>2. ManagerType' /\ inbox' \in Seq(Lifecycle)
  BY <1>1, ProcessDiesType
<1>3. ObjectType' /\ ReadingType' /\ ThreadType' /\ StaticsType'
  BY DEF ProcessDies, ObjectType, ReadingType, ThreadType, StaticsType, Job, NoJob
<1>4. QED
  BY <1>2, <1>3, LifecycleIsMessage DEF InboxType

\* TypeParts of the next state: a lemma is about one state only.
LEMMA TypePartsNext ==
  ASSUME ManagerType', InboxType', ObjectType', ReadingType', ThreadType',
         StaticsType', RulesType', ProxyType', FlashType', UserType', FaultsType'
  PROVE  TypeOK'
BY DEF TypeOK, ManagerType, InboxType, ObjectType, ReadingType, ThreadType,
       StaticsType, RulesType, ProxyType, FlashType, UserType, FaultsType

\* The user's actions: startService, stopService and the notification.
LEMMA UserTypes ==
  ASSUME TypeOK, User
  PROVE  TypeOK'
<1>1. ManagerType /\ record \in Nat /\ svc \in Nat /\ inbox \in Seq(Message)
  BY DEF TypeOK, ManagerType
<1>2. ASSUME UserStart PROVE TypeOK'
  <2>1. PICK req \in Request :
          /\ intents' = Append(intents, req)
          /\ IF record = 0
             THEN /\ record' = lastId + 1 /\ lastId' = lastId + 1
                  /\ \E q \in Posted(Msg("create", lastId + 1, None), inbox) :
                       inbox' \in Posted(Msg("args", lastId + 1, req), q)
             ELSE /\ inbox' \in Posted(Msg("args", record, req), inbox)
                  /\ UNCHANGED <<record, lastId>>
    BY <1>2 DEF UserStart
  <2>2. intents' \in Seq(Request)
    BY <2>1, AppendProperties DEF TypeOK
  <2>3. record' \in Nat /\ lastId' \in Nat
    BY <2>1 DEF TypeOK
  <2>4. InboxType'
    <3>1. CASE record = 0
      <4>1. /\ Msg("create", lastId + 1, None) \in Lifecycle
            /\ Msg("args", lastId + 1, req) \in Lifecycle
        BY LifecycleMsg DEF TypeOK
      <4>2. PICK q \in Posted(Msg("create", lastId + 1, None), inbox) :
              inbox' \in Posted(Msg("args", lastId + 1, req), q)
        BY <2>1, <3>1
      <4>3. q \in Seq(Message)
        BY <1>1, <4>1, PostLifecycle
      <4>4. QED
        BY <4>1, <4>2, <4>3, PostLifecycle DEF InboxType
    <3>2. CASE record # 0
      <4>1. Msg("args", record, req) \in Lifecycle
        BY <1>1, LifecycleMsg
      <4>2. QED
        BY <1>1, <2>1, <3>2, <4>1, PostLifecycle DEF InboxType
    <3>3. QED
      BY <3>1, <3>2
  <2>5. ManagerType'
    <3>1. UNCHANGED <<sticky, foreground>>
      BY <1>2 DEF UserStart
    <3>2. QED
      BY <1>1, <2>2, <2>3, <3>1 DEF ManagerType
  <2>6. UserType'
    BY <1>2, <2>3 DEF UserStart, UserType, TypeOK
  <2>7. QED
    BY <1>2, <2>4, <2>5, <2>6, UnchangedTypes, TypePartsNext DEF UserStart
<1>3. ASSUME UserStop PROVE TypeOK'
  <2>1. StopSelf(record, inbox)
    BY <1>3 DEF UserStop, StopSelf
  <2>2. ManagerType' /\ InboxType'
    BY <1>1, <2>1, StopSelfType DEF InboxType
  <2>3. QED
    BY <1>3, <2>2, UnchangedTypes, TypePartsNext DEF UserStop
<1>4. ASSUME StopFromNotification PROVE TypeOK'
  <2>1. ManagerType' /\ InboxType'
    BY <1>1, <1>4, StopSelfType DEF StopFromNotification, InboxType
  <2>2. QED
    BY <1>4, <2>1, UnchangedTypes, TypePartsNext DEF StopFromNotification
<1>5. QED
  BY <1>2, <1>3, <1>4 DEF User

\* onCreate and onStartCommand.
LEMMA CommandTypes ==
  ASSUME TypeOK, HandleCreate \/ RefuseArgs \/ InvalidArgs \/ AcceptArgs
  PROVE  TypeOK'
<1>1. ManagerType /\ now \in Nat
  BY DEF TypeOK, ManagerType
<1>2. Head(inbox) \in Message /\ Rest \in Seq(Message)
  BY TakenType DEF HandleCreate, RefuseArgs, InvalidArgs, AcceptArgs, Takes
<1>3. Head(inbox).id \in Nat /\ Head(inbox).intent \in Request \cup {None}
  BY <1>2, MessageType
<1>4. ASSUME HandleCreate PROVE TypeOK'
  <2>1. ManagerType' /\ InboxType'
    <3>1. CASE inbox' = Rest /\ UNCHANGED manager
      BY <1>2, <3>1, UnchangedTypes DEF InboxType
    <3>2. CASE StopSelf(Head(inbox).id, Rest)
      BY <1>1, <1>2, <1>3, <3>2, StopSelfType DEF InboxType
    <3>3. QED
      BY <1>4, <3>1, <3>2 DEF HandleCreate
  <2>2. ObjectType'
    BY <1>3, <1>4 DEF HandleCreate, ObjectType, TypeOK
  <2>3. FaultsType'
    BY <1>4 DEF HandleCreate, Works, Fails, FaultsType, TypeOK
  <2>4. QED
    BY <1>4, <2>1, <2>2, <2>3, UnchangedTypes, TypePartsNext DEF HandleCreate
<1>5. ASSUME RefuseArgs PROVE TypeOK'
  <2>1. ManagerType'
    BY <1>1, <1>5, AnsweredType DEF RefuseArgs
  <2>2. InboxType'
    BY <1>2, <1>5 DEF RefuseArgs, InboxType
  <2>3. QED
    BY <1>5, <2>1, <2>2, UnchangedTypes, TypePartsNext DEF RefuseArgs
<1>6. ASSUME InvalidArgs PROVE TypeOK'
  <2>1. ManagerType'
    BY <1>1, <1>6, AnsweredType DEF InvalidArgs
  <2>2. InboxType'
    BY <1>2, <1>6 DEF InvalidArgs, InboxType
  <2>3. StaticsType'
    BY <1>3, <1>6 DEF InvalidArgs, StaticsType, TypeOK, Request
  <2>4. QED
    BY <1>6, <2>1, <2>2, <2>3, UnchangedTypes, TypePartsNext DEF InvalidArgs
<1>7. ASSUME AcceptArgs PROVE TypeOK'
  <2>1. ManagerType'
    BY <1>1, <1>7, AnsweredType DEF AcceptArgs
  <2>2. Head(inbox).intent \in Request
    BY <1>3, <1>7 DEF AcceptArgs
  <2>3. Msg("start", Head(inbox).id, Head(inbox).intent) \in Message
    BY <1>3, <2>2 DEF Msg, Message
  <2>4. InboxType'
    BY <1>2, <1>7, <2>3, AppendProperties DEF AcceptArgs, InboxType
  <2>5. StaticsType'
    BY <1>1, <1>7, <2>2 DEF AcceptArgs, StaticsType, Request, EntryID
  <2>6. QED
    BY <1>7, <2>1, <2>4, <2>5, UnchangedTypes, TypePartsNext DEF AcceptArgs
<1>8. QED
  BY <1>4, <1>5, <1>6, <1>7

\* startRecording.  What it puts into the rules and the table comes from the
\* statics, which are set (StartsHaveStatics).
LEMMA StartTypes ==
  ASSUME TypeOK, StartsHaveStatics,
         \/ StartRecording \/ KillOld \/ ApplyRules \/ CreateLogEntry
         \/ StartLogger \/ OpenLog \/ AbortLogger \/ StartFailed
  PROVE  TypeOK'
<1>1. ManagerType /\ inbox \in Seq(Message) /\ job \in Job /\ job.id \in Nat
  BY DEF TypeOK, ManagerType, Job
<1>2. pc \in StartPC => StaticsSet
  BY DEF StartsHaveStatics
<1>3. ASSUME StartRecording PROVE TypeOK'
  <2>1. Head(inbox) \in Message /\ Rest \in Seq(Message)
    BY <1>3, TakenType DEF StartRecording, Takes
  <2>2. Head(inbox).id \in Nat /\ Head(inbox).intent \in Request
    BY <1>3, <2>1, MessageType DEF StartRecording, Takes
  <2>3. foreground' \in BOOLEAN
    BY <1>1, <1>3 DEF StartRecording, InForeground, ManagerType
  <2>4. ManagerType'
    BY <1>1, <1>3, <2>3 DEF StartRecording, ManagerType
  <2>5. InboxType'
    BY <1>3, <2>1 DEF StartRecording, InboxType
  <2>6. ThreadType'
    BY <1>3, <2>2 DEF StartRecording, ThreadType, StartPC, Job, Request
  <2>7. QED
    BY <1>3, <2>4, <2>5, <2>6, UnchangedTypes, TypePartsNext DEF StartRecording
<1>4. ASSUME KillOld PROVE TypeOK'
  <2>1. RulesType' /\ ProxyType' /\ FaultsType'
    BY <1>4, KillScriptType DEF KillOld
  <2>2. ReadingType' /\ ThreadType'
    BY <1>4 DEF KillOld, ReadingType, ThreadType, StartPC, TypeOK, StoppedReading
  <2>3. QED
    BY <1>4, <2>1, <2>2, UnchangedTypes, TypePartsNext DEF KillOld
<1>5. ASSUME ApplyRules PROVE TypeOK'
  <2>1. logAppUID \in Apps /\ job.ports \subseteq Ports
    BY <1>1, <1>2, <1>5 DEF ApplyRules, StartPC, StaticsSet, Job
  <2>2. RulesType'
    BY <1>5, <2>1 DEF ApplyRules, RulesType, TypeOK, NetrecRules
  <2>3. ThreadType' /\ FaultsType'
    BY <1>5 DEF ApplyRules, ThreadType, StartPC, TypeOK, FaultsType, Works, Fails
  <2>4. ProxyType'
    BY <1>5, UnchangedTypes DEF ApplyRules, proxies
  <2>5. QED
    BY <1>5, <2>2, <2>3, <2>4, UnchangedTypes, TypePartsNext DEF ApplyRules
<1>6. ASSUME CreateLogEntry PROVE TypeOK'
  <2>1. StaticsSet
    BY <1>2, <1>6 DEF CreateLogEntry, StartPC
  <2>2. [entry |-> logEntryID, uid |-> logAppUID, path |-> logFile, length |-> 0]
          \in LogRow
    BY <2>1 DEF StaticsSet, LogRow
  <2>3. FlashType'
    BY <1>6, <2>2 DEF CreateLogEntry, FlashType, TypeOK
  <2>4. ThreadType'
    BY <1>1, <1>6, <2>1 DEF CreateLogEntry, ThreadType, StartPC, Job, StaticsSet
  <2>5. FaultsType'
    <3>1. (Works \/ Fails) /\ UNCHANGED <<crashes>>
      BY <1>6 DEF CreateLogEntry, user
    <3>2. QED
      BY <3>1 DEF TypeOK, FaultsType, Works, Fails
  <2>6. QED
    BY <1>6, <2>3, <2>4, <2>5, UnchangedTypes, TypePartsNext DEF CreateLogEntry
<1>7. ASSUME StartLogger PROVE TypeOK'
  <2>1. logFile \in Files
    BY <1>2, <1>7 DEF StartLogger, StartPC, StaticsSet
  <2>2. FlashType'
    <3>1. (IF logs[logFile] = None THEN 0 ELSE logs[logFile]) \in Nat
      BY <2>1 DEF TypeOK
    <3>2. logs' \in [Files -> Nat \cup {None}]
      BY <1>7, <2>1, <3>1 DEF StartLogger, Touched, TypeOK
    <3>3. QED
      BY <1>7, <3>2 DEF StartLogger, FlashType, TypeOK
  <2>3. RulesType' /\ ProxyType'
    BY <1>7, <2>1 DEF StartLogger, RulesType, ProxyType, TypeOK, NoProxy, root
  <2>4. ThreadType' /\ FaultsType'
    BY <1>7 DEF StartLogger, ThreadType, StartPC, TypeOK, FaultsType, Works, Fails
  <2>5. QED
    BY <1>7, <2>2, <2>3, <2>4, UnchangedTypes, TypePartsNext DEF StartLogger
<1>8. ASSUME OpenLog PROVE TypeOK'
  <2>1. ReadingType'
    BY <1>1, <1>8 DEF OpenLog, ReadingType, TypeOK
  <2>2. NoJob \in Job
    BY DEF NoJob, Job
  <2>3. ThreadType'
    BY <1>1, <1>8, <2>2 DEF OpenLog, ThreadType, StartPC
  <2>4. QED
    BY <1>8, <2>1, <2>3, UnchangedTypes, TypePartsNext DEF OpenLog
<1>9. ASSUME AbortLogger PROVE TypeOK'
  <2>1. RulesType' /\ ProxyType' /\ FaultsType'
    BY <1>9, KillScriptType DEF AbortLogger
  <2>2. ThreadType'
    BY <1>9 DEF AbortLogger, ThreadType, StartPC, TypeOK
  <2>3. QED
    BY <1>9, <2>1, <2>2, UnchangedTypes, TypePartsNext DEF AbortLogger
<1>10. ASSUME StartFailed PROVE TypeOK'
  <2>1. FlashType'
    BY <1>10 DEF StartFailed, DeletedLogEntry, FlashType, TypeOK
  <2>2. CASE handler
    <3>1. Msg("stopSelf", job.id, None) \in Lifecycle
      BY <1>1, LifecycleMsg
    <3>2. InboxType'
      BY <1>1, <1>10, <2>2, <3>1, PostLifecycle DEF StartFailed, InboxType
    <3>3. ThreadType'
      BY <1>10, <2>2 DEF StartFailed, ThreadType, Job, NoJob
    <3>4. QED
      BY <1>10, <2>1, <2>2, <3>2, <3>3, UnchangedTypes, TypePartsNext DEF StartFailed
  <2>3. CASE ~handler
    <3>1. ProcessDies
      BY <1>10, <2>3 DEF StartFailed
    <3>2. QED
      BY <1>10, <2>1, <3>1, DeathType, UnchangedTypes, TypePartsNext DEF StartFailed
  <2>4. QED
    BY <2>2, <2>3
<1>11. QED
  BY <1>3, <1>4, <1>5, <1>6, <1>7, <1>8, <1>9, <1>10

\* onDestroy, and the stopSelf that a failed start posts.
LEMMA StopTypes ==
  ASSUME TypeOK,
         \/ HandleStopSelf \/ HandleDestroy
         \/ RemoveRules \/ KillLogger \/ UpdateSize \/ UncaughtException
  PROVE  TypeOK'
<1>1. ManagerType
  BY DEF TypeOK, ManagerType
<1>2. ASSUME inbox # <<>>
      PROVE  Head(inbox).id \in Nat /\ Rest \in Seq(Message)
  BY <1>2, TakenType, MessageType
<1>3. ASSUME HandleStopSelf PROVE TypeOK'
  <2>1. ManagerType' /\ InboxType'
    BY <1>1, <1>2, <1>3, StopSelfType DEF HandleStopSelf, Takes, InboxType
  <2>2. QED
    BY <1>3, <2>1, UnchangedTypes, TypePartsNext DEF HandleStopSelf
<1>4. ASSUME HandleDestroy PROVE TypeOK'
  <2>1. CASE ProcessDies
    BY <1>4, <2>1, DeathType, UnchangedTypes, TypePartsNext DEF HandleDestroy
  <2>2. CASE health # "noRoot"
    <3>1. InboxType'
      BY <1>2, <1>4, <2>2 DEF HandleDestroy, Takes, InboxType
    <3>2. ObjectType'
      <4>1. handler' = FALSE
        BY <1>4, <2>2, Zenon DEF HandleDestroy
      <4>2. svc' \in Nat /\ health' \in {"none", "noRoot", "noBinaries", "ok"}
        BY <1>4, <2>2 DEF HandleDestroy, TypeOK
      <4>3. QED
        BY <4>1, <4>2 DEF ObjectType
    <3>4. ThreadType'
      BY <1>4, <2>2 DEF HandleDestroy, ThreadType, StopPC, TypeOK
    <3>3. QED
      BY <1>4, <2>2, <3>1, <3>2, <3>4, UnchangedTypes, TypePartsNext DEF HandleDestroy
  <2>3. QED
    BY <1>4, <2>1, <2>2 DEF HandleDestroy
<1>5. ASSUME RemoveRules PROVE TypeOK'
  <2>1. RulesType' /\ ThreadType' /\ FaultsType'
    BY <1>5 DEF RemoveRules, RulesType, ThreadType, StopPC, FaultsType, TypeOK,
                Works, Fails
  <2>2. ProxyType'
    BY <1>5, UnchangedTypes DEF RemoveRules, proxies
  <2>3. QED
    BY <1>5, <2>1, <2>2, UnchangedTypes, TypePartsNext DEF RemoveRules
<1>6. ASSUME KillLogger PROVE TypeOK'
  <2>1. RulesType' /\ ProxyType' /\ FaultsType'
    BY <1>6, KillScriptType DEF KillLogger
  <2>2. ReadingType' /\ ThreadType'
    BY <1>6 DEF KillLogger, ReadingType, ThreadType, StopPC, TypeOK, StoppedReading
  <2>3. QED
    BY <1>6, <2>1, <2>2, UnchangedTypes, TypePartsNext DEF KillLogger
<1>7. ASSUME UpdateSize PROVE TypeOK'
  <2>1. CASE logFile = None
    <3>1. ProcessDies /\ UNCHANGED <<root, rows, logs, user, faults>>
      BY <1>7, <2>1 DEF UpdateSize
    <3>2. UNCHANGED flash
      BY <3>1 DEF flash
    <3>3. QED
      BY <3>1, <3>2, DeathType, UnchangedTypes, TypePartsNext
  <2>2. CASE logFile # None
    <3> DEFINE size == IF logs[logFile] = None THEN 0 ELSE logs[logFile]
               Saved(r) == IF r.entry = logEntryID /\ r.uid = logAppUID
                           THEN [r EXCEPT !.length = size] ELSE r
    <3>1. size \in Nat
      BY <2>2 DEF TypeOK
    <3>2. \A r \in rows : Saved(r) \in LogRow
      <4> HIDE DEF size
      <4>1. QED
        BY <3>1 DEF TypeOK, LogRow
    <3>3. rows' = {Saved(r) : r \in rows}
      BY <1>7, <2>2 DEF UpdateSize
    <3>4. FlashType'
      <4>1. rows' \subseteq LogRow
        <5> HIDE DEF Saved
        <5>1. QED
          BY <3>2, <3>3
      <4>2. QED
        BY <1>7, <4>1 DEF UpdateSize, FlashType, TypeOK
    <3>5. ObjectType' /\ ThreadType'
      BY <1>7, <2>2 DEF UpdateSize, ObjectType, ThreadType, TypeOK
    <3>6. UNCHANGED <<manager, inbox, reading, statics, root, user, faults>>
      BY <1>7, <2>2 DEF UpdateSize
    <3>7. QED
      BY <3>4, <3>5, <3>6, UnchangedTypes, TypePartsNext
  <2>3. QED
    BY <2>1, <2>2
<1>8. ASSUME UncaughtException PROVE TypeOK'
  <2>1. ProcessDies /\ UNCHANGED <<root, flash, user>>
    BY <1>8 DEF UncaughtException
  <2>2. FaultsType'
    BY <1>8 DEF UncaughtException, Fails, FaultsType, TypeOK
  <2>3. QED
    BY <2>1, <2>2, DeathType, UnchangedTypes, TypePartsNext
<1>9. QED
  BY <1>3, <1>4, <1>5, <1>6, <1>7, <1>8

\* tcproxy, the clock and the death of the process.
LEMMA EnvironmentTypes ==
  ASSUME TypeOK, WritersHaveLogs, Environment
  PROVE  TypeOK'
<1>1. ASSUME Connect PROVE TypeOK'
  <2>1. ProxyType'
    BY <1>1 DEF Connect, ProxyType, TypeOK, WritersHaveLogs
  <2>2. QED
    BY <1>1, <2>1, UnchangedTypes, TypePartsNext DEF Connect
<1>2. ASSUME ProxyExits PROVE TypeOK'
  <2>1. ProxyType' /\ FaultsType'
    BY <1>2 DEF ProxyExits, ProxyType, FaultsType, Fails, TypeOK, NoProxy
  <2>2. QED
    BY <1>2, <2>1, UnchangedTypes, TypePartsNext DEF ProxyExits
<1>3. ASSUME Tick PROVE TypeOK'
  <2>1. UserType'
    BY <1>3 DEF Tick, UserType, TypeOK
  <2>2. QED
    BY <1>3, <2>1, UnchangedTypes, TypePartsNext DEF Tick
<1>4. ASSUME Crash PROVE TypeOK'
  <2>1. UserType'
    BY <1>4 DEF Crash, UserType, TypeOK
  <2>2. ProcessDies
    BY <1>4 DEF Crash
  <2>3. QED
    BY <1>4, <2>1, <2>2, DeathType, UnchangedTypes, TypePartsNext DEF Crash
<1>5. ASSUME NEW f \in Files, KidLogs(f) PROVE TypeOK'
  <2>1. logs[f] \in Nat
    BY <1>5 DEF KidLogs, WritersHaveLogs
  <2>2. FlashType'
    BY <1>5, <2>1 DEF KidLogs, FlashType, TypeOK
  <2>3. QED
    BY <1>5, <2>2, UnchangedTypes, TypePartsNext DEF KidLogs
<1>6. ASSUME NEW f \in Files, KidExits(f) PROVE TypeOK'
  <2>1. ProxyType'
    BY <1>6 DEF KidExits, ProxyType, TypeOK
  <2>2. QED
    BY <1>6, <2>1, UnchangedTypes, TypePartsNext DEF KidExits
<1>7. QED
  BY <1>1, <1>2, <1>3, <1>4, <1>5, <1>6 DEF Environment

-----------------------------------------------------------------------------
(* The inductive invariant.                                                *)

\* Nothing but AcceptArgs posts a "start", and it sets the statics; only the
\* death of the process clears them, and the queue with them.
LEMMA StaticsStep ==
  ASSUME IndInv, Next
  PROVE  StartsHaveStatics'
<1>1. TypeOK /\ ManagerType /\ inbox \in Seq(Message) /\ job \in Job
  BY TypeParts DEF IndInv, InboxType, ThreadType
<1>2. StaticsSet \/ (inbox \in Seq(Lifecycle) /\ pc \notin StartPC)
  BY DEF IndInv, StartsHaveStatics
<1>3. record \in Nat /\ svc \in Nat /\ lastId \in Nat /\ now \in Nat /\ job.id \in Nat
  BY <1>1 DEF TypeOK, Job
<1>4. inbox # <<>> => Head(inbox) \in Message /\ Rest \in Seq(Message)
  BY <1>1, TakenType
<1>5. inbox \in Seq(Lifecycle) => Rest \in Seq(Lifecycle)
  BY RestType DEF Rest
<1>6. ASSUME UNCHANGED statics, StaticsSet PROVE StartsHaveStatics'
  BY <1>6 DEF StartsHaveStatics, StaticsSet, statics
<1>7. ASSUME UNCHANGED statics, pc' \notin StartPC,
             inbox \in Seq(Lifecycle) => inbox' \in Seq(Lifecycle)
      PROVE  StartsHaveStatics'
  BY <1>2, <1>6, <1>7 DEF StartsHaveStatics
<1>8. ASSUME UNCHANGED statics, UNCHANGED thread,
             inbox \in Seq(Lifecycle) => inbox' \in Seq(Lifecycle)
      PROVE  StartsHaveStatics'
  BY <1>2, <1>6, <1>8 DEF StartsHaveStatics, thread
<1>9. ASSUME ProcessDies PROVE StartsHaveStatics'
  <2>1. inbox' \in Seq(Lifecycle)
    BY <1>1, <1>9, ProcessDiesType
  <2>2. pc' = "idle"
    BY <1>9 DEF ProcessDies
  <2>3. QED
    BY <2>1, <2>2 DEF StartsHaveStatics, StartPC
<1>10. ASSUME NEW id \in Nat, NEW q \in Seq(Message), StopSelf(id, q),
              inbox \in Seq(Lifecycle) => q \in Seq(Lifecycle)
       PROVE  inbox \in Seq(Lifecycle) => inbox' \in Seq(Lifecycle)
  BY <1>1, <1>10, StopSelfType
<1>11. CASE UserStart
  <2>1. inbox \in Seq(Lifecycle) => inbox' \in Seq(Lifecycle)
    <3>1. PICK req \in Request :
            IF record = 0
            THEN \E q \in Posted(Msg("create", lastId + 1, None), inbox) :
                   inbox' \in Posted(Msg("args", lastId + 1, req), q)
            ELSE inbox' \in Posted(Msg("args", record, req), inbox)
      BY <1>11 DEF UserStart
    <3>2. /\ Msg("create", lastId + 1, None) \in Lifecycle
          /\ Msg("args", lastId + 1, req) \in Lifecycle
          /\ Msg("args", record, req) \in Lifecycle
      BY <1>3, LifecycleMsg
    <3>3. QED
      BY <3>1, <3>2, PostedType
  <2>2. QED
    BY <1>8, <1>11, <2>1 DEF UserStart
<1>12. CASE UserStop
  <2>1. StopSelf(record, inbox)
    BY <1>12 DEF UserStop, StopSelf
  <2>2. QED
    BY <1>1, <1>3, <1>8, <1>10, <1>12, <2>1 DEF UserStop
<1>13. CASE StopFromNotification
  BY <1>1, <1>3, <1>8, <1>10, <1>13 DEF StopFromNotification
<1>14. CASE HandleCreate
  <2>1. Head(inbox).id \in Nat /\ Rest \in Seq(Message)
    BY <1>4, <1>14, MessageType DEF HandleCreate, Takes
  <2>2. inbox' = Rest \/ StopSelf(Head(inbox).id, Rest)
    BY <1>14 DEF HandleCreate
  <2>3. inbox \in Seq(Lifecycle) => inbox' \in Seq(Lifecycle)
    BY <1>5, <1>10, <2>1, <2>2
  <2>4. QED
    BY <1>8, <1>14, <2>3 DEF HandleCreate
<1>15. CASE RefuseArgs
  BY <1>5, <1>8, <1>15 DEF RefuseArgs
<1>16. CASE InvalidArgs
  <2>1. Head(inbox).intent.uid \in Apps
    BY <1>4, <1>16, MessageType DEF InvalidArgs, Takes, Request
  <2>2. CASE StaticsSet
    BY <1>16, <2>1, <2>2 DEF InvalidArgs, StartsHaveStatics, StaticsSet
  <2>3. CASE inbox \in Seq(Lifecycle) /\ pc \notin StartPC
    BY <1>5, <1>16, <2>3 DEF InvalidArgs, StartsHaveStatics, thread
  <2>4. QED
    BY <1>2, <2>2, <2>3
<1>17. CASE AcceptArgs
  <2>1. Head(inbox).intent \in Request
    BY <1>4, <1>17, MessageType DEF AcceptArgs, Takes
  <2>2. StaticsSet'
    BY <1>3, <1>17, <2>1 DEF AcceptArgs, StaticsSet, Request, EntryID
  <2>3. QED
    BY <2>2 DEF StartsHaveStatics
<1>18. CASE StartRecording
  <2>1. inbox \notin Seq(Lifecycle)
    BY <1>18, RestType DEF StartRecording, Takes, Lifecycle
  <2>2. QED
    BY <1>2, <1>6, <1>18, <2>1 DEF StartRecording
<1>19. CASE KillOld \/ ApplyRules \/ CreateLogEntry \/ StartLogger \/ OpenLog
            \/ AbortLogger
  <2>1. pc \in StartPC /\ UNCHANGED statics
    BY <1>19 DEF KillOld, ApplyRules, CreateLogEntry, StartLogger, OpenLog,
                 AbortLogger, StartPC
  <2>2. QED
    BY <1>2, <1>6, <2>1
<1>20. CASE StartFailed
  <2>1. CASE handler
    <3>1. pc \in StartPC /\ UNCHANGED statics
      BY <1>20, <2>1 DEF StartFailed, StartPC
    <3>2. QED
      BY <1>2, <1>6, <3>1
  <2>2. CASE ~handler
    BY <1>9, <1>20, <2>2 DEF StartFailed
  <2>3. QED
    BY <2>1, <2>2
<1>21. CASE HandleStopSelf
  <2>1. Head(inbox).id \in Nat /\ Rest \in Seq(Message)
    BY <1>4, <1>21, MessageType DEF HandleStopSelf, Takes
  <2>2. QED
    BY <1>5, <1>8, <1>10, <1>21, <2>1 DEF HandleStopSelf
<1>22. CASE HandleDestroy
  <2>1. CASE health = "noRoot"
    BY <1>9, <1>22, <2>1 DEF HandleDestroy
  <2>2. CASE health # "noRoot"
    BY <1>5, <1>7, <1>22, <2>2 DEF HandleDestroy, Takes, StartPC
  <2>3. QED
    BY <2>1, <2>2
<1>23. CASE RemoveRules \/ KillLogger
  BY <1>7, <1>23 DEF RemoveRules, KillLogger, StartPC
<1>24. CASE UpdateSize
  <2>1. CASE logFile = None
    BY <1>9, <1>24, <2>1 DEF UpdateSize
  <2>2. CASE logFile # None
    BY <1>7, <1>24, <2>2 DEF UpdateSize, StartPC
  <2>3. QED
    BY <2>1, <2>2
<1>25. CASE Environment
  BY <1>8, <1>9, <1>25 DEF Environment, Connect, ProxyExits, Tick, Crash,
                           KidLogs, KidExits
<1>26. CASE UncaughtException
  BY <1>9, <1>26 DEF UncaughtException
<1>27. QED
  BY <1>11, <1>12, <1>13, <1>14, <1>15, <1>16, <1>17, <1>18, <1>19, <1>20,
     <1>21, <1>22, <1>23, <1>24, <1>25, <1>26 DEF Next, User, MainThread

\* A tcproxy is launched after its log was touched, a child is forked from the
\* tcproxy that listens, and logs only grow.
LEMMA WritersStep ==
  ASSUME IndInv, Next
  PROVE  WritersHaveLogs'
<1> USE DEF IndInv, TypeOK, WritersHaveLogs
<1>1. ASSUME UNCHANGED <<proxy, kids, logs>> PROVE WritersHaveLogs'
  BY <1>1
<1>2. ASSUME KillScript, UNCHANGED logs PROVE WritersHaveLogs'
  BY <1>2 DEF KillScript, KillByPidFile, NoProxy, root
<1>3. CASE User
  BY <1>1, <1>3 DEF User, UserStart, UserStop, StopFromNotification, root, flash
<1>4. CASE KillOld \/ AbortLogger \/ KillLogger
  BY <1>2, <1>4 DEF KillOld, AbortLogger, KillLogger, flash
<1>5. CASE StartLogger
  <2>1. logFile \in Files
    BY <1>5 DEF StartLogger, StartsHaveStatics, StaticsSet, StartPC
  <2>2. CASE UNCHANGED <<root, logs>>
    BY <1>1, <2>2 DEF root
  <2>3. CASE /\ logs' = [logs EXCEPT ![logFile] = IF @ = None THEN 0 ELSE @]
             /\ UNCHANGED kids
             /\ \/ proxy'.log = logFile
                \/ proxy' = proxy
                \/ proxy' = NoProxy
    <3>1. logs'[logFile] \in Nat /\ \A f \in Files : logs[f] \in Nat => logs'[f] \in Nat
      BY <2>1, <2>3
    <3>2. QED
      BY <2>1, <2>3, <3>1 DEF NoProxy
  <2>4. QED
    BY <1>5, <2>2, <2>3 DEF StartLogger, Touched
<1>6. CASE \/ HandleCreate \/ RefuseArgs \/ InvalidArgs \/ AcceptArgs
           \/ StartRecording \/ CreateLogEntry \/ OpenLog \/ StartFailed
           \/ HandleStopSelf \/ HandleDestroy \/ UpdateSize
  <2>1. UNCHANGED <<root, logs>>
    BY <1>6 DEF HandleCreate, RefuseArgs, InvalidArgs, AcceptArgs, StartRecording,
                CreateLogEntry, OpenLog, StartFailed, HandleStopSelf,
                HandleDestroy, UpdateSize, flash
  <2>2. QED
    BY <1>1, <2>1 DEF root
<1>7. CASE ApplyRules \/ RemoveRules
  BY <1>1, <1>7 DEF ApplyRules, RemoveRules, flash
<1>8. CASE Connect
  BY <1>8 DEF Connect, flash
<1>9. CASE ProxyExits
  BY <1>9 DEF ProxyExits, NoProxy, flash
<1>10. CASE Tick \/ Crash \/ UncaughtException
  BY <1>1, <1>10 DEF Tick, Crash, UncaughtException, root, flash
<1>11. ASSUME NEW f \in Files, KidLogs(f) PROVE WritersHaveLogs'
  BY <1>11 DEF KidLogs, root
<1>12. ASSUME NEW f \in Files, KidExits(f) PROVE WritersHaveLogs'
  BY <1>12 DEF KidExits, flash
<1>13. QED
  BY <1>3, <1>4, <1>5, <1>6, <1>7, <1>8, <1>9, <1>10, <1>11, <1>12
     DEF Next, MainThread, Environment

\* IndInv holds of every behaviour: the types, and what they rest on.
THEOREM Invariance == Spec => []IndInv
<1>1. Init => IndInv
  <2> SUFFICES ASSUME Init PROVE IndInv
    OBVIOUS
  <2>1. <<>> \in Seq(Request) /\ <<>> \in Seq(Message) /\ <<>> \in Seq(Lifecycle)
    OBVIOUS
  <2>2. NoJob \in Job /\ NoProxy \in [pid : Nat, log : Files \cup {None}]
    BY DEF NoJob, Job, NoProxy
  <2>3. sticky = FALSE /\ foreground = FALSE /\ handler = FALSE
    BY DEF Init
  <2>4. ManagerType /\ InboxType /\ ObjectType
    BY <2>1, <2>3 DEF Init, ManagerType, InboxType, ObjectType
  <2>5. ReadingType /\ ThreadType /\ StaticsType /\ RulesType /\ ProxyType
    BY <2>2 DEF Init, ReadingType, ThreadType, StaticsType, RulesType, ProxyType
  <2>6. FlashType /\ UserType /\ FaultsType
    BY DEF Init, FlashType, UserType, FaultsType
  <2>7. StartsHaveStatics
    BY <2>1 DEF Init, StartsHaveStatics, StartPC
  <2>8. WritersHaveLogs
    BY DEF Init, WritersHaveLogs, NoProxy
  <2>9. QED
    BY <2>4, <2>5, <2>6, <2>7, <2>8, TypeParts DEF IndInv
<1>2. IndInv /\ [Next]_vars => IndInv'
  <2>1. ASSUME IndInv, Next PROVE IndInv'
    <3>1. TypeOK'
      BY <2>1, UserTypes, CommandTypes, StartTypes, StopTypes, EnvironmentTypes
         DEF IndInv, Next, MainThread
    <3>2. QED
      BY <2>1, <3>1, StaticsStep, WritersStep DEF IndInv
  <2>2. ASSUME IndInv, UNCHANGED vars PROVE IndInv'
    BY <2>2 DEF IndInv, TypeOK, StartsHaveStatics, StaticsSet, WritersHaveLogs,
                vars, manager, object, thread, statics, root, flash, user
  <2>3. QED
    BY <2>1, <2>2
<1>3. QED
  BY <1>1, <1>2, PTL DEF Spec

\* Every variable keeps its type.
THEOREM TypeCorrect == Spec => []TypeOK
<1>1. IndInv => TypeOK
  BY DEF IndInv
<1>2. QED
  BY <1>1, Invariance, PTL

\* startRecording never runs on null statics, and whoever writes to a log has
\* a log to write to.
THEOREM StaticsAndLogs == Spec => [](StartsHaveStatics /\ WritersHaveLogs)
<1>1. IndInv => StartsHaveStatics /\ WritersHaveLogs
  BY DEF IndInv
<1>2. QED
  BY <1>1, Invariance, PTL

-----------------------------------------------------------------------------
(* The pid file.                                                           *)

\* The script of killLogger leaves no listener: the one there was is the one
\* whose pid it read.
LEMMA KillReaches ==
  ASSUME ProxyNamedByPidFile, KillByPidFile
  PROVE  ProxyNamedByPidFile'
BY DEF ProxyNamedByPidFile, KillByPidFile, NoProxy

\* At every step, whatever fails and whoever dies, the listening tcproxy is
\* the process that the pid file names.
THEOREM PidFileCorrect == Spec => []ProxyNamedByPidFile
<1>1. Init => ProxyNamedByPidFile
  BY DEF Init, ProxyNamedByPidFile, NoProxy
<1>2. TypeOK /\ ProxyNamedByPidFile /\ [Next]_vars => ProxyNamedByPidFile'
  <2> SUFFICES ASSUME TypeOK, ProxyNamedByPidFile, [Next]_vars
               PROVE  ProxyNamedByPidFile'
    OBVIOUS
  <2>1. ASSUME UNCHANGED <<pidFile, proxy>> PROVE ProxyNamedByPidFile'
    BY <2>1 DEF ProxyNamedByPidFile
  <2>2. CASE KillOld \/ AbortLogger \/ KillLogger
    BY <2>1, <2>2, KillReaches DEF KillOld, AbortLogger, KillLogger, KillScript, root
  <2>3. CASE StartLogger
    <3>1. CASE UNCHANGED root
      BY <2>1, <3>1 DEF root
    <3>2. CASE ~UNCHANGED root
      <4> DEFINE old == IF proxy.pid = pidFile THEN NoProxy ELSE proxy
      <4>1. old.pid = 0
        BY DEF ProxyNamedByPidFile, NoProxy
      <4>2. pidFile' = lastPid + 1
        BY <2>3, <3>2 DEF StartLogger
      <4>3. proxy'.pid = lastPid + 1 \/ proxy' = old
        BY <2>3, <3>2 DEF StartLogger
      <4>4. QED
        BY <4>1, <4>2, <4>3 DEF ProxyNamedByPidFile
    <3>3. QED
      BY <3>1, <3>2
  <2>4. CASE ProxyExits
    BY <2>4 DEF ProxyExits, ProxyNamedByPidFile, NoProxy
  <2>5. CASE \/ User
             \/ HandleCreate \/ RefuseArgs \/ InvalidArgs \/ AcceptArgs
             \/ StartRecording \/ ApplyRules \/ CreateLogEntry \/ OpenLog
             \/ StartFailed \/ HandleStopSelf \/ HandleDestroy
             \/ RemoveRules \/ UpdateSize
             \/ Connect \/ Tick \/ Crash \/ UncaughtException
             \/ \E f \in Files : KidLogs(f) \/ KidExits(f)
             \/ UNCHANGED vars
    <3>1. UNCHANGED <<pidFile, proxy>>
      BY <2>5 DEF User, UserStart, UserStop, StopFromNotification, HandleCreate,
                  RefuseArgs, InvalidArgs, AcceptArgs, StartRecording, ApplyRules,
                  CreateLogEntry, OpenLog, StartFailed, HandleStopSelf,
                  HandleDestroy, RemoveRules, UpdateSize, Connect, Tick, Crash,
                  UncaughtException, KidLogs, KidExits, root, vars
    <3>2. QED
      BY <2>1, <3>1
  <2>6. QED
    BY <2>2, <2>3, <2>4, <2>5 DEF Next, MainThread, Environment
<1>3. QED
  BY <1>1, <1>2, TypeCorrect, PTL DEF Spec

-----------------------------------------------------------------------------
(* The rules.                                                              *)

\* The chain redirects one application at a time, even after a crash or a
\* failure left the rules of another one there.
THEOREM OneApplication == Spec => []OneAppRecorded
<1>1. Init => OneAppRecorded
  BY DEF Init, OneAppRecorded
<1>2. OneAppRecorded /\ [Next]_vars => OneAppRecorded'
  <2> SUFFICES ASSUME OneAppRecorded, [Next]_vars
               PROVE  OneAppRecorded'
    OBVIOUS
  <2>1. ASSUME UNCHANGED rules PROVE OneAppRecorded'
    BY <2>1 DEF OneAppRecorded
  <2>2. ASSUME NEW ports, rules' = {logAppUID} \X ports PROVE OneAppRecorded'
    BY <2>2 DEF OneAppRecorded
  <2>3. CASE ApplyRules
    BY <2>1, <2>2, <2>3 DEF ApplyRules, NetrecRules
  <2>4. CASE RemoveRules
    BY <2>1, <2>4 DEF RemoveRules, OneAppRecorded
  <2>5. CASE KillOld \/ AbortLogger \/ KillLogger \/ StartLogger
    BY <2>1, <2>5 DEF KillOld, AbortLogger, KillLogger, StartLogger, KillScript,
                      KillByPidFile, root
  <2>6. CASE \/ User
             \/ HandleCreate \/ RefuseArgs \/ InvalidArgs \/ AcceptArgs
             \/ StartRecording \/ CreateLogEntry \/ OpenLog
             \/ StartFailed \/ HandleStopSelf \/ HandleDestroy \/ UpdateSize
             \/ UncaughtException \/ Environment
             \/ UNCHANGED vars
    <3>1. UNCHANGED rules
      BY <2>6 DEF User, UserStart, UserStop, StopFromNotification, HandleCreate,
                  RefuseArgs, InvalidArgs, AcceptArgs, StartRecording,
                  CreateLogEntry, OpenLog, StartFailed, HandleStopSelf,
                  HandleDestroy, UpdateSize, UncaughtException, Environment,
                  Connect, ProxyExits, Tick, Crash, KidLogs, KidExits, root, vars
    <3>2. QED
      BY <2>1, <3>1
  <2>7. QED
    BY <2>3, <2>4, <2>5, <2>6 DEF Next, MainThread
<1>3. QED
  BY <1>1, <1>2, PTL DEF Spec

-----------------------------------------------------------------------------
(* The entries of the table.                                               *)

\* startRecording before and after it may have inserted an entry.
EarlyPC == {"killOld", "applyRules", "createLogEntry"}
LatePC  == {"startLogger", "openLog", "abortLogger", "startFailed"}

Calm == crashes = 0 /\ faults <= 1

\* An entry has a log, or it is the one that is being set up or taken back.
EntriesHaveLogs ==
  \A e \in rows : logs[e.path] # None \/ (pc \in LatePC /\ e.entry = job.row)

\* The entry that was just inserted names the log that is to be opened.
RowNamesLog ==
  pc \in {"startLogger", "openLog"} =>
    \A e \in rows : e.entry = job.row => e.path = logFile

\* A start is not given up, and does not lack a log, without a failure.
FailureCounted ==
  pc \in {"abortLogger", "startFailed"} \/ (pc = "openLog" /\ logs[logFile] = None)
    => faults = 1

NoRowYet == pc \in EarlyPC => job.row = None

EntryInv ==
  Calm => EntriesHaveLogs /\ RowNamesLog /\ FailureCounted /\ NoRowYet

\* Failures and crashes are counted upwards, and no log is removed.
LEMMA OnlyGrows ==
  ASSUME IndInv, [Next]_vars
  PROVE  /\ Calm' => Calm
         /\ Undisturbed' => Undisturbed /\ UNCHANGED <<faults, crashes>>
         /\ \A f \in Files : logs[f] # None => logs'[f] # None
  <1>1. crashes \in Nat /\ faults \in Nat
    BY DEF IndInv, TypeOK
  <1>2. crashes' \in {crashes, crashes + 1} /\ faults' \in {faults, faults + 1}
    BY DEF Next, User, UserStart, UserStop, StopFromNotification, MainThread, HandleCreate,
           RefuseArgs, InvalidArgs, AcceptArgs, StartRecording, KillOld, ApplyRules,
           CreateLogEntry, StartLogger, OpenLog, AbortLogger, StartFailed, HandleStopSelf,
           HandleDestroy, RemoveRules, KillLogger, UpdateSize, UncaughtException,
           Environment, Connect, KidLogs, KidExits, ProxyExits, Tick, Crash, KillScript,
           Works, Fails, user, vars
  <1>3. Calm' => Calm
    BY <1>1, <1>2 DEF Calm
  <1>5. Undisturbed' => Undisturbed /\ UNCHANGED <<faults, crashes>>
    BY <1>1, <1>2 DEF Undisturbed
  <1>4. ASSUME NEW f \in Files, logs[f] # None
        PROVE  logs'[f] # None
    <2>1. CASE UNCHANGED logs
      BY <2>1, <1>4
    <2>2. CASE StartLogger
      BY <2>2, <1>4 DEF StartLogger, Touched, IndInv, TypeOK
    <2>3. ASSUME NEW g \in Files, KidLogs(g)
          PROVE  logs'[f] # None
      <3>1. logs[g] \in Nat /\ logs' = [logs EXCEPT ![g] = @ + 1]
        BY <2>3 DEF KidLogs, IndInv, WritersHaveLogs
      <3>2. logs[g] + 1 # None
        BY <3>1, NoneAssumption
      <3> QED BY <3>1, <3>2, <1>4 DEF IndInv, TypeOK
    <2>4. UNCHANGED logs \/ StartLogger \/ \E g \in Files : KidLogs(g)
      BY DEF Next, User, UserStart, UserStop, StopFromNotification, MainThread, HandleCreate,
           RefuseArgs, InvalidArgs, AcceptArgs, StartRecording, KillOld, ApplyRules,
           CreateLogEntry, OpenLog, AbortLogger, StartFailed, HandleStopSelf,
           HandleDestroy, RemoveRules, KillLogger, UpdateSize, UncaughtException,
           Environment, Connect, KidExits, ProxyExits, Tick, Crash, flash, vars
    <2> QED BY <2>1, <2>2, <2>3, <2>4
  <1> QED BY <1>3, <1>4, <1>5

LEMMA EntriesStep ==
  ASSUME IndInv, IndInv', EntryInv, [Next]_vars
  PROVE  EntryInv'
  <1> SUFFICES ASSUME Calm'
               PROVE  EntriesHaveLogs' /\ RowNamesLog' /\ FailureCounted' /\ NoRowYet'
    BY DEF EntryInv
  <1>1. Calm /\ \A f \in Files : logs[f] # None => logs'[f] # None
    BY OnlyGrows
  <1>2. EntriesHaveLogs /\ RowNamesLog /\ FailureCounted /\ NoRowYet
    BY <1>1 DEF EntryInv
  <1>3. faults \in Nat /\ faults' \in Nat /\ faults <= 1 /\ faults' <= 1 /\ crashes' = 0
    BY <1>1 DEF IndInv, TypeOK, Calm
  <1>4. \A e \in rows : e.path \in Files /\ e.entry # None
    <2>1. \A e \in rows : e.path \in Files /\ e.entry \in Apps \X Nat
      BY DEF IndInv, TypeOK, LogRow, EntryID
    <2>2. None \notin Apps \X Nat
      BY NoneAssumption
    <2> HIDE DEF IndInv
    <2> QED BY <2>1, <2>2
  <1>5. pc \in EarlyPC \cup LatePC => logFile \in Files
    BY DEF IndInv, StartsHaveStatics, StaticsSet, StartPC, EarlyPC, LatePC
  <1>6. ASSUME Fails PROVE faults' = 1
    BY <1>3, <1>6 DEF Fails
  <1>7. ASSUME UNCHANGED <<thread, rows, logFile>>, faults' \in {faults, faults + 1}
        PROVE  EntriesHaveLogs' /\ RowNamesLog' /\ FailureCounted' /\ NoRowYet'
    <2>1. EntriesHaveLogs'
      BY <1>1, <1>2, <1>4, <1>7 DEF EntriesHaveLogs, thread
    <2>2. FailureCounted'
      <3>1. faults = 1 => faults' = 1
        BY <1>3, <1>7
      <3>2. pc \in LatePC /\ logs'[logFile] = None => logs[logFile] = None
        BY <1>1, <1>5
      <3> QED BY <1>2, <1>7, <3>1, <3>2 DEF FailureCounted, thread, LatePC
    <2> QED BY <1>2, <1>7, <2>1, <2>2 DEF RowNamesLog, NoRowYet, thread
  <1>8. ASSUME pc \notin LatePC, pc' \notin LatePC, UNCHANGED rows,
               pc' \in EarlyPC => job'.row = None
        PROVE  EntriesHaveLogs' /\ RowNamesLog' /\ FailureCounted' /\ NoRowYet'
    BY <1>1, <1>2, <1>4, <1>8
       DEF EntriesHaveLogs, RowNamesLog, FailureCounted, NoRowYet, LatePC
  <1>9. CASE User \/ RefuseArgs \/ InvalidArgs \/ HandleStopSelf \/ Connect
             \/ ProxyExits \/ Tick \/ UNCHANGED vars
             \/ (\E f \in Files : KidLogs(f) \/ KidExits(f))
    <2>1. UNCHANGED <<thread, rows, logFile>> /\ faults' \in {faults, faults + 1}
      BY <1>9 DEF User, UserStart, UserStop, StopFromNotification, RefuseArgs, InvalidArgs,
                  HandleStopSelf, Connect, ProxyExits, Tick, KidLogs, KidExits,
                  Fails, statics, flash, vars
    <2> QED BY <1>7, <2>1
  <1>10. CASE HandleCreate
    <2>1. UNCHANGED <<thread, rows, logFile>> /\ faults' \in {faults, faults + 1}
      BY <1>10 DEF HandleCreate, Works, Fails, statics, flash
    <2> QED BY <1>7, <2>1
  <1>11. CASE AcceptArgs \/ StartRecording \/ KillOld
    <2>1. pc \notin LatePC /\ pc' \notin LatePC /\ UNCHANGED rows
      BY <1>11 DEF AcceptArgs, StartRecording, KillOld, Takes, thread, flash, LatePC
    <2>2. pc' \in EarlyPC => job'.row = None
      <3>1. CASE AcceptArgs
        BY <3>1 DEF AcceptArgs, Takes, thread, EarlyPC
      <3>2. CASE StartRecording
        BY <3>2 DEF StartRecording
      <3>3. CASE KillOld
        BY <3>3, <1>2 DEF KillOld, EarlyPC, NoRowYet
      <3> QED BY <1>11, <3>1, <3>2, <3>3
    <2> QED BY <1>8, <2>1, <2>2
  <1>12. CASE ApplyRules
    <2>1. pc = "applyRules" /\ UNCHANGED <<job, rows, logs, logFile>>
      BY <1>12 DEF ApplyRules, statics, flash
    <2>2. pc' = "createLogEntry" \/ (pc' = "startFailed" /\ faults' = 1)
      BY <1>12, <1>6 DEF ApplyRules
    <2> QED BY <1>2, <2>1, <2>2 DEF EntriesHaveLogs, RowNamesLog, FailureCounted, NoRowYet,
                                   EarlyPC, LatePC
  <1>13. CASE CreateLogEntry
    <2>1. pc = "createLogEntry" /\ UNCHANGED <<logs, logFile>> /\ job.row = None
      BY <1>2, <1>13 DEF CreateLogEntry, statics, NoRowYet, EarlyPC
    <2>2. CASE UNCHANGED <<rows, job>>
      <3>1. pc' = "startLogger" \/ (pc' = "startFailed" /\ faults' = 1)
        BY <1>13, <1>6 DEF CreateLogEntry
      <3> QED BY <1>2, <1>4, <2>1, <2>2, <3>1
              DEF EntriesHaveLogs, RowNamesLog, FailureCounted, NoRowYet, EarlyPC, LatePC
    <2>3. CASE ~UNCHANGED <<rows, job>>
      <3> DEFINE new == [entry |-> logEntryID, uid |-> logAppUID, path |-> logFile, length |-> 0]
      <3>1. /\ pc' = "startLogger" /\ \A e \in rows : e.entry # logEntryID
            /\ rows' = rows \cup {new} /\ job' = [job EXCEPT !.row = logEntryID]
        BY <1>13, <2>3 DEF CreateLogEntry
      <3>2. job'.row = logEntryID
        BY <3>1 DEF IndInv, TypeOK, Job
      <3>3. new.entry = logEntryID /\ new.path = logFile
        OBVIOUS
      <3> HIDE DEF new
      <3>4. \A e \in rows : logs[e.path] # None
        BY <1>2, <2>1 DEF EntriesHaveLogs, LatePC
      <3> QED BY <2>1, <3>1, <3>2, <3>3, <3>4
              DEF EntriesHaveLogs, RowNamesLog, FailureCounted, NoRowYet, EarlyPC, LatePC
    <2> QED BY <2>2, <2>3
  <1>14. CASE StartLogger
    <2>1. pc = "startLogger" /\ pc' = "openLog" /\ UNCHANGED <<job, rows, logFile>>
      BY <1>14 DEF StartLogger, statics
    <2>2. logs'[logFile] # None \/ faults' = 1
      <3>1. CASE Works /\ logs' = Touched(logFile)
        <4>1. logFile \in Files /\ logs \in [Files -> Nat \cup {None}]
          BY <1>5, <2>1 DEF IndInv, TypeOK, LatePC
        <4>2. logs'[logFile] = IF logs[logFile] = None THEN 0 ELSE logs[logFile]
          BY <3>1, <4>1 DEF Touched
        <4>3. None # 0
          BY NoneAssumption
        <4> QED BY <4>2, <4>3
      <3>2. CASE Fails
        BY <1>6, <3>2
      <3> QED BY <1>14, <3>1, <3>2 DEF StartLogger
    <2> QED BY <1>1, <1>2, <1>4, <2>1, <2>2
            DEF EntriesHaveLogs, RowNamesLog, FailureCounted, NoRowYet, EarlyPC, LatePC
  <1>15. CASE OpenLog
    <2>1. pc = "openLog" /\ UNCHANGED <<rows, logs, logFile, faults>>
      BY <1>15 DEF OpenLog, statics, flash
    <2>2. CASE logs[logFile] = None
      <3>1. pc' = "abortLogger" /\ UNCHANGED job /\ faults = 1
        BY <1>2, <1>15, <2>1, <2>2 DEF OpenLog, FailureCounted
      <3> QED BY <1>2, <2>1, <3>1
              DEF EntriesHaveLogs, RowNamesLog, FailureCounted, NoRowYet, EarlyPC, LatePC
    <2>3. CASE logs[logFile] # None
      <3>1. pc' = "idle"
        BY <1>15, <2>3 DEF OpenLog
      <3>2. \A e \in rows : logs[e.path] # None
        BY <1>2, <2>1, <2>3 DEF EntriesHaveLogs, RowNamesLog
      <3> QED BY <2>1, <3>1, <3>2
              DEF EntriesHaveLogs, RowNamesLog, FailureCounted, NoRowYet, EarlyPC, LatePC
    <2> QED BY <2>2, <2>3
  <1>16. CASE AbortLogger
    <2>1. pc = "abortLogger" /\ pc' = "startFailed" /\ UNCHANGED <<job, rows, logs>>
      BY <1>16 DEF AbortLogger, flash
    <2>2. faults' \in {faults, faults + 1} /\ faults = 1
      BY <1>2, <1>16, <2>1 DEF AbortLogger, KillScript, Works, Fails, FailureCounted
    <2>3. faults' = 1
      BY <1>3, <2>2
    <2> QED BY <1>2, <2>1, <2>3
            DEF EntriesHaveLogs, RowNamesLog, FailureCounted, NoRowYet, EarlyPC, LatePC
  <1>17. CASE StartFailed
    <2>1. pc = "startFailed" /\ pc' = "idle" /\ rows' = DeletedLogEntry /\ UNCHANGED logs
      BY <1>17 DEF StartFailed, ProcessDies
    <2>2. \A e \in rows' : logs[e.path] # None
      BY <1>2, <2>1 DEF DeletedLogEntry, EntriesHaveLogs
    <2> QED BY <2>1, <2>2
            DEF EntriesHaveLogs, RowNamesLog, FailureCounted, NoRowYet, EarlyPC, LatePC
  <1>18. CASE HandleDestroy \/ RemoveRules \/ KillLogger
    <2>1. pc \notin LatePC /\ pc' \notin LatePC \cup EarlyPC /\ UNCHANGED rows
      BY <1>18 DEF HandleDestroy, RemoveRules, KillLogger, ProcessDies, Takes, flash,
                   LatePC, EarlyPC
    <2> QED BY <1>8, <2>1
  <1>19. CASE UpdateSize
    <2>1. pc = "updateSize" /\ pc' = "idle" /\ UNCHANGED logs
      BY <1>19 DEF UpdateSize, ProcessDies
    <2>2. CASE UNCHANGED rows
      BY <1>8, <2>1, <2>2 DEF LatePC, EarlyPC
    <2>3. CASE ~UNCHANGED rows
      <3> DEFINE size == IF logs[logFile] = None THEN 0 ELSE logs[logFile]
                 Saved(r) == IF r.entry = logEntryID /\ r.uid = logAppUID
                             THEN [r EXCEPT !.length = size] ELSE r
      <3>1. rows' = {Saved(r) : r \in rows}
        BY <1>19, <2>3 DEF UpdateSize
      <3>2. \A r \in rows : Saved(r).path = r.path
        BY DEF IndInv, TypeOK, LogRow
      <3>3. \A r \in rows : logs[r.path] # None
        BY <1>2, <2>1 DEF EntriesHaveLogs, LatePC
      <3> HIDE DEF Saved
      <3>4. \A e \in rows' : logs[e.path] # None
        BY <3>1, <3>2, <3>3
      <3> QED BY <2>1, <3>4
              DEF EntriesHaveLogs, RowNamesLog, FailureCounted, NoRowYet, EarlyPC, LatePC
    <2> QED BY <2>2, <2>3
  <1>20. CASE UncaughtException
    <2>1. UNCHANGED rows /\ pc' = "idle" /\ Fails
      BY <1>20 DEF UncaughtException, ProcessDies, flash
    <2>2. pc \notin LatePC
      <3>1. faults = 0
        BY <1>3, <1>6, <2>1 DEF Fails
      <3>2. pc # "startFailed"
        BY <1>2, <3>1 DEF FailureCounted
      <3> QED BY <1>20, <3>2 DEF UncaughtException, Takes, LatePC
    <2> QED BY <1>8, <2>1, <2>2 DEF LatePC, EarlyPC
  <1>21. CASE Crash
    <2>1. crashes' = crashes + 1 /\ crashes \in Nat
      BY <1>21 DEF Crash, IndInv, TypeOK
    <2> QED BY <1>3, <2>1
  <1> QED BY <1>9, <1>10, <1>11, <1>12, <1>13, <1>14, <1>15, <1>16, <1>17, <1>18, <1>19,
             <1>20, <1>21 DEF Next, MainThread, Environment

\* When the main thread is idle, the table has no entry without a log, unless
\* the process was killed in between or taking the entry back failed too
\* (NoEntryWithoutLog).
THEOREM NoEntryIsLeft == Spec => []NoEntryWithoutLog
  <1>1. Init => EntryInv
    BY DEF Init, EntryInv, EntriesHaveLogs, RowNamesLog, FailureCounted, NoRowYet, EarlyPC
  <1>2. IndInv /\ IndInv' /\ EntryInv /\ [Next]_vars => EntryInv'
    BY EntriesStep
  <1>3. EntryInv => NoEntryWithoutLog
    BY DEF EntryInv, Calm, EntriesHaveLogs, NoEntryWithoutLog, Settled, LatePC
  <1> QED BY <1>1, <1>2, <1>3, Invariance, PTL DEF Spec

-----------------------------------------------------------------------------
(* The theorems from here on are about a user who waits for the main       *)
(* thread, for any number of requests, failures and deaths of the process. *)

-----------------------------------------------------------------------------
(* The message queue of a patient user has one of nine shapes.             *)

Running == svc # 0 /\ record = svc /\ health = "ok" /\ handler

\* Request i, or the null intent of a restart, is still to be handled.
Asked(i) == intents = IF i = None THEN <<>> ELSE <<i>>

Idle ==
  /\ inbox = <<>> /\ pc = "idle" /\ record = svc /\ intents = <<>>
  /\ svc # 0 => health = "ok" /\ handler

\* The service is to be created.
Created ==
  \E i \in Request \cup {None} :
    /\ inbox = <<Msg("create", record, None), Msg("args", record, i)>>
    /\ pc = "idle" /\ svc = 0 /\ record # 0 /\ Asked(i)

\* It has been created and is to answer a request.
Commanded ==
  \E i \in Request \cup {None} :
    /\ inbox = <<Msg("args", svc, i)>>
    /\ pc = "idle" /\ Running /\ Asked(i)

\* It has no root or no binaries, and stopped itself.
Refused ==
  \E i \in Request \cup {None} :
    /\ inbox = <<Msg("args", svc, i), Msg("destroy", svc, None)>>
    /\ pc = "idle" /\ svc # 0 /\ record = 0 /\ intents = <<>>
    /\ health \in {"noRoot", "noBinaries"}

\* startRecording is due.
Starting ==
  \E req \in Request :
    /\ inbox = <<Msg("start", svc, req)>> /\ req.ports # {}
    /\ pc = "idle" /\ Running /\ intents = <<>>

\* startRecording runs.
Setting ==
  /\ inbox = <<>> /\ pc \in StartPC /\ Running /\ intents = <<>>
  /\ job.id = svc /\ job.ports # {} /\ foreground

\* startRecording has failed.
Failed ==
  /\ inbox = <<Msg("stopSelf", svc, None)>>
  /\ pc = "idle" /\ Running /\ intents = <<>> /\ foreground

\* onDestroy is due.
Leaving ==
  /\ inbox = <<Msg("destroy", svc, None)>>
  /\ pc = "idle" /\ svc # 0 /\ record = 0 /\ intents = <<>> /\ health # "none"

\* onDestroy runs.
Stopping ==
  /\ inbox = <<>> /\ pc \in StopPC
  /\ svc # 0 /\ record = 0 /\ intents = <<>> /\ health = "ok"

Shape == \/ Idle \/ Created \/ Commanded \/ Refused \/ Starting
         \/ Setting \/ Failed \/ Leaving \/ Stopping

-----------------------------------------------------------------------------
LEMMA TwoMessages ==
  ASSUME NEW a, NEW m
  PROVE  <<a>> \o <<m>> = <<a, m>>
  <1> DEFINE S == {a, m}
             t == <<a>> \o <<m>>
  <1>1. /\ <<a>> \in Seq(S) /\ <<m>> \in Seq(S) /\ Len(<<a>>) = 1 /\ Len(<<m>>) = 1
        /\ <<a>>[1] = a /\ <<m>>[1] = m
        /\ <<a, m>> \in Seq(S) /\ Len(<<a, m>>) = 2 /\ <<a, m>>[1] = a /\ <<a, m>>[2] = m
    OBVIOUS
  <1> HIDE DEF S
  <1>2. /\ t \in Seq(S) /\ Len(t) = 1 + 1
        /\ \A i \in 1..1 + 1 : t[i] = IF i <= 1 THEN <<a>>[i] ELSE <<m>>[i - 1]
    BY <1>1, ConcatProperties
  <1> HIDE DEF t
  <1>3. t[1] = a /\ t[2] = m
    BY <1>1, <1>2
  <1>4. \A i \in 1..Len(t) : t[i] = <<a, m>>[i]
    BY <1>1, <1>2, <1>3
  <1>5. t = <<a, m>>
    BY <1>1, <1>2, <1>4, SeqEqual
  <1> QED BY <1>5 DEF t

\* Posting to a queue of one message at most that is not a "start".
LEMMA PostToFew ==
  ASSUME NEW m, NEW a, a.type # "start"
  PROVE  /\ \A p \in Posted(m, <<>>) : p = <<m>>
         /\ \A p \in Posted(m, <<a>>) : p = <<a, m>>
  <1> DEFINE S == {a, m}
  <1>s. /\ <<a>> \in Seq(S) /\ <<m>> \in Seq(S) /\ <<>> \in Seq(S)
        /\ Len(<<a>>) = 1 /\ Len(<<m>>) = 1 /\ Len(<<>>) = 0 /\ <<a>>[1] = a
    OBVIOUS
  <1>1. ASSUME NEW k \in 0..0
        PROVE  SubSeq(<<>>, 1, k) \o <<m>> \o SubSeq(<<>>, k + 1, 0) = <<m>>
    <2>1. k = 0
      BY <1>1
    <2>2. SubSeq(<<>>, 1, k) = <<>> /\ SubSeq(<<>>, k + 1, 0) = <<>>
      BY <2>1, SubSeqEmpty
    <2>3. <<>> \o <<m>> = <<m>> /\ <<m>> \o <<>> = <<m>>
      BY <1>s, ConcatEmptySeq
    <2> QED BY <2>2, <2>3
  <1>2. ASSUME NEW k \in 0..1, \A j \in (k + 1)..1 : <<a>>[j].type = "start"
        PROVE  SubSeq(<<a>>, 1, k) \o <<m>> \o SubSeq(<<a>>, k + 1, 1) = <<a, m>>
    <2>1. k = 1
      <3>1. CASE k = 0
        <4>1. <<a>>[1].type = "start"
          BY <3>1, <1>2
        <4> QED BY <4>1, <1>s
      <3> QED BY <3>1
    <2>2. SubSeq(<<a>>, 1, 1) = <<a>>
      BY <1>s, SubSeqFull
    <2>3. SubSeq(<<a>>, 2, 1) = <<>>
      BY SubSeqEmpty
    <2>4. <<a>> \o <<m>> = <<a, m>>
      BY TwoMessages
    <2>5. <<a, m>> \in Seq(S)
      OBVIOUS
    <2>6. <<a, m>> \o <<>> = <<a, m>>
      BY <2>5, ConcatEmptySeq
    <2>7. SubSeq(<<a>>, 1, k) = <<a>> /\ SubSeq(<<a>>, k + 1, 1) = <<>>
      BY <2>1, <2>2, <2>3
    <2> QED BY <2>4, <2>6, <2>7
  <1>3. \A p \in Posted(m, <<>>) : p = <<m>>
    BY <1>1, <1>s DEF Posted
  <1>4. \A p \in Posted(m, <<a>>) : p = <<a, m>>
    BY <1>2, <1>s DEF Posted
  <1> QED BY <1>3, <1>4

\* What is at the head of a queue of one or two messages, and what is left.
LEMMA FewMessages ==
  ASSUME NEW m, NEW n
  PROVE  /\ Head(<<m>>) = m /\ SubSeq(<<m>>, 2, Len(<<m>>)) = <<>>
         /\ Head(<<m, n>>) = m /\ SubSeq(<<m, n>>, 2, Len(<<m, n>>)) = <<n>>
         /\ <<m>> # <<>> /\ <<m, n>> # <<>>
  <1> DEFINE S == {m, n}
  <1>1. /\ <<m, n>> \in Seq(S) /\ <<n>> \in Seq(S)
        /\ Len(<<m>>) = 1 /\ Len(<<n>>) = 1 /\ Len(<<m, n>>) = 2 /\ Len(<<>>) = 0
        /\ <<m, n>>[2] = n /\ <<n>>[1] = n
    OBVIOUS
  <1>2. Head(<<m>>) = m /\ Head(<<m, n>>) = m
    OBVIOUS
  <1>3. SubSeq(<<m>>, 2, 1) = <<>>
    BY SubSeqEmpty
  <1>4. SubSeq(<<m, n>>, 2, 2) = <<n>>
    <2> DEFINE t == SubSeq(<<m, n>>, 2, 2)
    <2>1. \A i \in 2..2 : <<m, n>>[i] \in S
      BY <1>1
    <2>2. t \in Seq(S) /\ Len(t) = 1 /\ t[1] = <<m, n>>[2]
      <3> HIDE DEF S
      <3>1. /\ t \in Seq(S) /\ Len(t) = IF 2 <= 2 THEN 2 - 2 + 1 ELSE 0
            /\ \A i \in 1..2 - 2 + 1 : t[i] = <<m, n>>[2 + i - 1]
        BY <2>1, SubSeqProperties
      <3>2. t[1] = <<m, n>>[2 + 1 - 1]
        <4> HIDE DEF t
        <4> QED BY <3>1
      <3> QED BY <3>1, <3>2
    <2> HIDE DEF t
    <2>3. t = <<n>>
      <3>1. \A i \in 1..Len(t) : t[i] = <<n>>[i]
        BY <2>2, <1>1
      <3> HIDE DEF S
      <3> QED BY <2>2, <3>1, <1>1, SeqEqual
    <2> QED BY <2>3 DEF t
  <1>5. <<m>> # <<>> /\ <<m, n>> # <<>>
    BY <1>1
  <1> QED BY <1>1, <1>2, <1>3, <1>4, <1>5

LEMMA MsgFields ==
  ASSUME NEW t, NEW id, NEW i
  PROVE  Msg(t, id, i).type = t /\ Msg(t, id, i).id = id /\ Msg(t, id, i).intent = i
  BY DEF Msg

\* The shape is known from the main thread's next call or message.
LEMMA WhereItIs ==
  ASSUME Shape
  PROVE  /\ Settled => Idle
         /\ Takes("create") => Created
         /\ Takes("args") => Commanded \/ Refused
         /\ Takes("start") => Starting
         /\ Takes("stopSelf") => Failed
         /\ Takes("destroy") => Leaving
         /\ pc \in StartPC => Setting
         /\ pc \in StopPC => Stopping
  <1>1. CASE Idle
    BY <1>1 DEF Idle, Settled, Takes, StartPC, StopPC
  <1>2. CASE Created
    BY <1>2, FewMessages, MsgFields DEF Created, Settled, Takes, StartPC, StopPC
  <1>3. CASE Commanded
    BY <1>3, FewMessages, MsgFields DEF Commanded, Settled, Takes, StartPC, StopPC
  <1>4. CASE Refused
    BY <1>4, FewMessages, MsgFields DEF Refused, Settled, Takes, StartPC, StopPC
  <1>5. CASE Starting
    BY <1>5, FewMessages, MsgFields DEF Starting, Settled, Takes, StartPC, StopPC
  <1>6. CASE Setting
    BY <1>6 DEF Setting, Settled, Takes, StartPC, StopPC
  <1>7. CASE Failed
    BY <1>7, FewMessages, MsgFields DEF Failed, Settled, Takes, StartPC, StopPC
  <1>8. CASE Leaving
    BY <1>8, FewMessages, MsgFields DEF Leaving, Settled, Takes, StartPC, StopPC
  <1>9. CASE Stopping
    BY <1>9 DEF Stopping, Settled, Takes, StartPC, StopPC
  <1> QED BY <1>1, <1>2, <1>3, <1>4, <1>5, <1>6, <1>7, <1>8, <1>9 DEF Shape

-----------------------------------------------------------------------------
(* From shape to shape.                                                    *)

\* What no action of the environment but a crash changes.
LEMMA SameShape ==
  ASSUME UNCHANGED <<manager, inbox, object, thread>>
  PROVE  /\ Shape => Shape'
         /\ Idle' = Idle /\ Created' = Created /\ Commanded' = Commanded
         /\ Starting' = Starting
  <1> USE DEF manager, object, thread, Running, Asked
  <1>1. Idle' = Idle /\ Created' = Created /\ Commanded' = Commanded
    BY DEF Idle, Created, Commanded
  <1>2. Refused' = Refused /\ Starting' = Starting /\ Setting' = Setting
    BY DEF Refused, Starting, Setting
  <1>3. Failed' = Failed /\ Leaving' = Leaving /\ Stopping' = Stopping
    BY DEF Failed, Leaving, Stopping
  <1> QED BY <1>1, <1>2, <1>3 DEF Shape

\* At most one request is waiting.
LEMMA OneIntent ==
  ASSUME Shape
  PROVE  intents = <<>> \/ \E i \in Request : intents = <<i>>
  <1>1. CASE Created \/ Commanded
    BY <1>1 DEF Created, Commanded, Asked
  <1>2. CASE ~(Created \/ Commanded)
    BY <1>2 DEF Shape, Idle, Refused, Starting, Setting, Failed, Leaving, Stopping
  <1> QED BY <1>1, <1>2

\* A process that dies leaves nothing, or a service to be created again.
LEMMA AfterDeath ==
  ASSUME Shape, ProcessDies
  PROVE  (Idle' /\ svc' = 0) \/ Created'
  <1> DEFINE again == IF intents = <<>>
                      THEN <<Msg("args", record, None)>>
                      ELSE [i \in 1..Len(intents) |-> Msg("args", record, intents[i])]
  <1>1. svc' = 0 /\ pc' = "idle"
    BY DEF ProcessDies
  <1>2. \/ record' = 0 /\ intents' = <<>> /\ inbox' = <<>>
        \/ /\ record # 0 /\ UNCHANGED <<record, intents>>
           /\ inbox' = <<Msg("create", record, None)>> \o again
    BY Zenon DEF ProcessDies
  <1>3. PICK i \in Request \cup {None} :
          Asked(i) /\ again = <<Msg("args", record, i)>>
    <2>1. CASE intents = <<>>
      BY <2>1 DEF Asked
    <2>2. ASSUME NEW i \in Request, intents = <<i>>
          PROVE  Asked(i) /\ again = <<Msg("args", record, i)>>
      <3>1. Len(<<i>>) = 1 /\ <<i>>[1] = i /\ <<i>> # <<>>
        OBVIOUS
      <3>2. i # None
        BY RequestAssumption
      <3>3. [k \in 1..1 |-> Msg("args", record, <<i>>[k])] = <<Msg("args", record, i)>>
        BY <3>1
      <3> QED BY <2>2, <3>1, <3>2, <3>3 DEF Asked
    <2> QED BY <2>1, <2>2, OneIntent
  <1> HIDE DEF again
  <1>4. CASE record' = 0 /\ intents' = <<>> /\ inbox' = <<>>
    BY <1>1, <1>4 DEF Idle
  <1>5. CASE /\ record # 0 /\ UNCHANGED <<record, intents>>
             /\ inbox' = <<Msg("create", record, None)>> \o again
    <2>1. inbox' = <<Msg("create", record, None), Msg("args", record, i)>>
      BY <1>3, <1>5, TwoMessages
    <2> QED BY <1>1, <1>3, <1>5, <2>1 DEF Created, Asked
  <1> QED BY <1>2, <1>4, <1>5

\* The user's actions.
LEMMA UserMoves ==
  ASSUME Patient, TypeOK, Shape, User
  PROVE  /\ Idle
         /\ \/ UserStart /\ record = 0 /\ Created'
            \/ UserStart /\ record # 0 /\ Commanded'
            \/ ~UserStart /\ Leaving'
  <1>1. Idle
    BY WhereItIs DEF User, UserStart, UserStop, StopFromNotification, MayAct
  <1>2. pc = "idle" /\ inbox = <<>> /\ intents = <<>> /\ record = svc
        /\ (svc # 0 => health = "ok" /\ handler)
    BY <1>1 DEF Idle
  <1>3. record \in Nat /\ lastId \in Nat
    BY DEF TypeOK
  <1>4. CASE UserStart
    <2>1. PICK req \in Request :
            /\ intents' = Append(intents, req)
            /\ IF record = 0
               THEN /\ record' = lastId + 1
                    /\ \E q \in Posted(Msg("create", lastId + 1, None), inbox) :
                         inbox' \in Posted(Msg("args", lastId + 1, req), q)
               ELSE /\ inbox' \in Posted(Msg("args", record, req), inbox)
                    /\ UNCHANGED record
      BY <1>4 DEF UserStart
    <2>2. intents' = <<req>> /\ req # None
      BY <1>2, <2>1, RequestAssumption
    <2>3. UNCHANGED <<svc, health, handler, pc>>
      BY <1>4 DEF UserStart, object, thread
    <2>4. CASE record = 0
      <3> DEFINE a == Msg("create", lastId + 1, None)
                 b == Msg("args", lastId + 1, req)
      <3>1. record' = lastId + 1 /\ \E q \in Posted(a, <<>>) : inbox' \in Posted(b, q)
        BY <1>2, <2>1, <2>4
      <3>2. a.type # "start"
        BY DEF Msg
      <3> HIDE DEF a, b
      <3>3. \A q \in Posted(a, <<>>) : q = <<a>>
        BY <3>2, PostToFew
      <3>4. \A q \in Posted(b, <<a>>) : q = <<a, b>>
        BY <3>2, PostToFew
      <3>5. inbox' = <<a, b>>
        BY <3>1, <3>3, <3>4
      <3>6. record' # 0 /\ svc' = 0 /\ pc' = "idle"
        BY <3>1, <1>2, <1>3, <2>3, <2>4
      <3>7. Created'
        BY <3>1, <3>5, <3>6, <2>2 DEF Created, Asked, a, b
      <3> QED BY <1>1, <1>4, <2>4, <3>7
    <2>5. CASE record # 0
      <3>1. inbox' \in Posted(Msg("args", record, req), <<>>) /\ record' = record
        BY <1>2, <2>1, <2>5
      <3>2. Msg("args", record, req).type # "start"
        BY DEF Msg
      <3>3. inbox' = <<Msg("args", record, req)>>
        BY <3>1, <3>2, PostToFew
      <3>4. Commanded'
        BY <1>2, <2>2, <2>3, <2>5, <3>1, <3>3 DEF Commanded, Running, Asked
      <3> QED BY <1>1, <1>4, <2>5, <3>4
    <2> QED BY <2>4, <2>5
  <1>5. CASE UserStop \/ StopFromNotification
    <2>1. svc # 0 /\ StopRecord(<<>>)
      BY <1>2, <1>5 DEF UserStop, StopFromNotification, StopSelf
    <2>2. /\ record' = 0 /\ intents' = <<>>
          /\ inbox' \in Posted(Msg("destroy", svc, None), <<>>)
      BY <1>2, <2>1 DEF StopRecord
    <2>3. Msg("destroy", svc, None).type # "start"
      BY DEF Msg
    <2>4. inbox' = <<Msg("destroy", svc, None)>>
      BY <2>2, <2>3, PostToFew
    <2>5. UNCHANGED <<svc, health, pc>>
      BY <1>5 DEF UserStop, StopFromNotification, object, thread
    <2>6. Leaving'
      BY <1>2, <2>1, <2>2, <2>4, <2>5 DEF Leaving
    <2>7. ~UserStart
      <3> SUFFICES ASSUME UserStart PROVE FALSE
        OBVIOUS
      <3>1. UNCHANGED starts
        BY <1>5 DEF UserStop, StopFromNotification, user
      <3>2. starts' = starts + 1 /\ starts \in Nat
        BY DEF UserStart, TypeOK
      <3> QED BY <3>1, <3>2
    <2> QED BY <1>1, <2>6, <2>7
  <1> QED BY <1>4, <1>5 DEF User

\* onCreate and onStartCommand.
LEMMA CommandMoves ==
  ASSUME TypeOK, Shape
  PROVE  /\ HandleCreate => Created /\ (Commanded' \/ Refused')
         /\ RefuseArgs => (Commanded /\ Idle') \/ (Refused /\ Leaving')
         /\ InvalidArgs => Commanded /\ Idle'
         /\ AcceptArgs => Commanded /\ Starting' /\ inbox'[1].intent.uid = logAppUID'
  <1>1. ASSUME HandleCreate
        PROVE  Created /\ (Commanded' \/ Refused')
    <2>1. Created
      BY <1>1, WhereItIs DEF HandleCreate
    <2>2. PICK i \in Request \cup {None} :
            /\ inbox = <<Msg("create", record, None), Msg("args", record, i)>>
            /\ pc = "idle" /\ svc = 0 /\ record # 0 /\ Asked(i)
      BY <2>1 DEF Created
    <2>3. /\ Head(inbox).id = record /\ Rest = <<Msg("args", record, i)>>
      BY <2>2, FewMessages, MsgFields DEF Rest
    <2>4. svc' = record /\ pc' = "idle"
      BY <1>1, <2>2, <2>3 DEF HandleCreate, thread
    <2>5. CASE health' = "ok" /\ handler' /\ inbox' = Rest /\ UNCHANGED manager
      <3>1. inbox' = <<Msg("args", svc', i)>>
        BY <2>3, <2>4, <2>5
      <3>2. Running'
        BY <2>2, <2>4, <2>5 DEF Running, manager
      <3>3. Asked(i)'
        BY <2>2, <2>5 DEF Asked, manager
      <3> QED BY <2>1, <2>4, <3>1, <3>2, <3>3 DEF Commanded
    <2>6. CASE health' \in {"noRoot", "noBinaries"} /\ StopSelf(record, Rest)
      <3>1. /\ record' = 0 /\ intents' = <<>>
            /\ inbox' \in Posted(Msg("destroy", record, None), Rest)
        BY <2>6 DEF StopSelf, StopRecord
      <3>2. Msg("args", record, i).type # "start"
        BY DEF Msg
      <3>3. inbox' = <<Msg("args", record, i), Msg("destroy", record, None)>>
        BY <2>3, <3>1, <3>2, PostToFew
      <3>4. inbox' = <<Msg("args", svc', i), Msg("destroy", svc', None)>>
        BY <2>4, <3>3
      <3>5. svc' # 0 /\ pc' = "idle" /\ health' \in {"noRoot", "noBinaries"}
        BY <2>2, <2>4, <2>6
      <3> QED BY <2>1, <3>1, <3>4, <3>5 DEF Refused
    <2> QED BY <1>1, <2>1, <2>3, <2>5, <2>6 DEF HandleCreate
  <1>2. ASSUME RefuseArgs \/ InvalidArgs \/ AcceptArgs
        PROVE  Commanded \/ Refused
    BY <1>2, WhereItIs DEF RefuseArgs, InvalidArgs, AcceptArgs
  <1>3. ASSUME Refused
        PROVE  /\ ~InvalidArgs /\ ~AcceptArgs
               /\ RefuseArgs => Leaving'
    <2>1. PICK i \in Request \cup {None} :
            inbox = <<Msg("args", svc, i), Msg("destroy", svc, None)>>
      BY <1>3 DEF Refused
    <2>2. /\ pc = "idle" /\ svc # 0 /\ record = 0 /\ intents = <<>>
          /\ health \in {"noRoot", "noBinaries"}
      BY <1>3 DEF Refused
    <2>3. Head(inbox).id = svc /\ Rest = <<Msg("destroy", svc, None)>>
      BY <2>1, FewMessages, MsgFields DEF Rest
    <2>4. ~InvalidArgs /\ ~AcceptArgs
      BY <2>2 DEF InvalidArgs, AcceptArgs
    <2>5. ASSUME RefuseArgs
          PROVE  Leaving'
      <3>1. UNCHANGED <<record, svc, health, pc>> /\ inbox' = Rest
        BY <2>5 DEF RefuseArgs, object, thread
      <3>2. UNCHANGED intents
        BY <2>2, <2>3, <2>5 DEF RefuseArgs, Answered
      <3> QED BY <2>2, <2>3, <3>1, <3>2 DEF Leaving
    <2> QED BY <2>4, <2>5
  <1>4. ASSUME Commanded, RefuseArgs \/ InvalidArgs \/ AcceptArgs
        PROVE  /\ RefuseArgs \/ InvalidArgs => Idle'
               /\ AcceptArgs => Starting' /\ inbox'[1].intent.uid = logAppUID'
    <2>1. PICK i \in Request \cup {None} : inbox = <<Msg("args", svc, i)>> /\ Asked(i)
      BY <1>4 DEF Commanded
    <2>2. pc = "idle" /\ Running
      BY <1>4 DEF Commanded
    <2>3. /\ Head(inbox).id = svc /\ Head(inbox).intent = i
          /\ Rest = <<>>
      BY <2>1, FewMessages, MsgFields DEF Rest
    <2>4. UNCHANGED <<record, svc, health, handler, pc>>
      BY <1>4 DEF RefuseArgs, InvalidArgs, AcceptArgs, object, thread
    <2>5. Answered(FALSE) \/ Answered(TRUE)
      BY <1>4 DEF RefuseArgs, InvalidArgs, AcceptArgs
    <2>6. intents' = <<>>
      <3>1. intents' = IF i = None THEN intents ELSE SubSeq(intents, 2, Len(intents))
        BY <2>2, <2>3, <2>5 DEF Answered, Running
      <3>2. CASE i = None
        BY <2>1, <3>1, <3>2 DEF Asked
      <3>3. CASE i # None
        <4>1. intents = <<i>>
          BY <2>1, <3>3 DEF Asked
        <4> QED BY <3>1, <3>3, <4>1, FewMessages
      <3> QED BY <3>2, <3>3
    <2>7. ASSUME RefuseArgs \/ InvalidArgs
          PROVE  Idle'
      <3>1. inbox' = <<>>
        BY <2>3, <2>7 DEF RefuseArgs, InvalidArgs
      <3> QED BY <2>2, <2>4, <2>6, <3>1 DEF Idle, Running
    <2>8. ASSUME AcceptArgs
          PROVE  Starting' /\ inbox'[1].intent.uid = logAppUID'
      <3>1. /\ inbox' = Append(<<>>, Msg("start", svc, i))
            /\ i # None /\ i.ports # {} /\ logAppUID' = i.uid
        BY <2>3, <2>8 DEF AcceptArgs
      <3>2. inbox' = <<Msg("start", svc, i)>> /\ i \in Request
        BY <3>1
      <3>3. Starting'
        BY <2>2, <2>4, <2>6, <3>1, <3>2 DEF Starting, Running
      <3>4. inbox'[1].intent = i
        BY <3>2, MsgFields
      <3> QED BY <3>1, <3>3, <3>4
    <2> QED BY <2>7, <2>8
  <1> QED BY <1>1, <1>2, <1>3, <1>4

\* startRecording and what it posts when it has failed.
LEMMA StartMoves ==
  ASSUME TypeOK, Shape
  PROVE  /\ StartRecording => Starting /\ Setting' /\ pc' = "killOld"
         /\ KillOld \/ ApplyRules \/ CreateLogEntry \/ StartLogger \/ AbortLogger =>
              Setting /\ Setting'
         /\ OpenLog => Setting /\ (IF logs[logFile] = None THEN Setting' ELSE Idle')
         /\ StartFailed => Setting /\ Failed'
         /\ HandleStopSelf => Failed /\ Leaving'
  <1>1. ASSUME StartRecording
        PROVE  Starting /\ Setting' /\ pc' = "killOld"
    <2>1. Starting
      BY <1>1, WhereItIs DEF StartRecording
    <2>2. PICK req \in Request :
            inbox = <<Msg("start", svc, req)>> /\ req.ports # {}
      BY <2>1 DEF Starting
    <2>3. Running /\ intents = <<>>
      BY <2>1 DEF Starting
    <2>4. Head(inbox).id = svc /\ Head(inbox).intent = req /\ Rest = <<>>
      BY <2>2, FewMessages, MsgFields DEF Rest
    <2>5. /\ inbox' = <<>> /\ pc' = "killOld" /\ foreground'
          /\ job' = [id |-> svc, ports |-> req.ports, row |-> None]
          /\ UNCHANGED <<record, intents, svc, health, handler>>
      BY <1>1, <2>3, <2>4 DEF StartRecording, object, InForeground, Running
    <2>6. job'.id = svc /\ job'.ports = req.ports
      BY <2>5
    <2> QED BY <2>1, <2>2, <2>3, <2>5, <2>6 DEF Setting, Running, StartPC
  <1>2. ASSUME KillOld \/ ApplyRules \/ CreateLogEntry \/ StartLogger \/ AbortLogger
        PROVE  Setting /\ Setting'
    <2>1. Setting
      BY <1>2, WhereItIs DEF KillOld, ApplyRules, CreateLogEntry, StartLogger,
                             AbortLogger, StartPC
    <2>2. UNCHANGED <<manager, inbox, object>> /\ pc' \in StartPC
      BY <1>2 DEF KillOld, ApplyRules, CreateLogEntry, StartLogger, AbortLogger, StartPC
    <2>3. job'.id = job.id /\ job'.ports = job.ports
      <3>1. CASE UNCHANGED job
        BY <3>1
      <3>2. CASE job' = [job EXCEPT !.row = logEntryID]
        BY <3>2 DEF TypeOK, Job
      <3> QED BY <1>2, <3>1, <3>2
              DEF KillOld, ApplyRules, CreateLogEntry, StartLogger, AbortLogger
    <2> QED BY <2>1, <2>2, <2>3 DEF Setting, Running, manager, object
  <1>3. ASSUME OpenLog
        PROVE  Setting /\ (IF logs[logFile] = None THEN Setting' ELSE Idle')
    <2>1. Setting
      BY <1>3, WhereItIs DEF OpenLog, StartPC
    <2>2. UNCHANGED <<manager, inbox, object>>
      BY <1>3 DEF OpenLog
    <2>3. CASE logs[logFile] = None
      <3>1. pc' = "abortLogger" /\ UNCHANGED job
        BY <1>3, <2>3 DEF OpenLog
      <3> QED BY <2>1, <2>2, <2>3, <3>1 DEF Setting, Running, manager, object, StartPC
    <2>4. CASE logs[logFile] # None
      <3>1. pc' = "idle"
        BY <1>3, <2>4 DEF OpenLog
      <3> QED BY <2>1, <2>2, <2>4, <3>1 DEF Setting, Idle, Running, manager, object
    <2> QED BY <2>3, <2>4
  <1>4. ASSUME StartFailed
        PROVE  Setting /\ Failed'
    <2>1. Setting
      BY <1>4, WhereItIs DEF StartFailed, StartPC
    <2>2. /\ pc' = "idle" /\ UNCHANGED <<manager, object>>
          /\ inbox' \in Posted(Msg("stopSelf", svc, None), <<>>)
      BY <1>4, <2>1 DEF StartFailed, Setting, Running
    <2>3. Msg("stopSelf", svc, None).type # "start"
      BY DEF Msg
    <2>4. inbox' = <<Msg("stopSelf", svc, None)>>
      BY <2>2, <2>3, PostToFew
    <2> QED BY <2>1, <2>2, <2>4 DEF Setting, Failed, Running, manager, object
  <1>5. ASSUME HandleStopSelf
        PROVE  Failed /\ Leaving'
    <2>1. Failed
      BY <1>5, WhereItIs DEF HandleStopSelf
    <2>2. Head(inbox).id = svc /\ Rest = <<>> /\ Running
      BY <2>1, FewMessages, MsgFields DEF Failed, Rest
    <2>3. StopRecord(<<>>)
      BY <1>5, <2>2 DEF HandleStopSelf, StopSelf, Running
    <2>4. /\ record' = 0 /\ intents' = <<>>
          /\ inbox' \in Posted(Msg("destroy", svc, None), <<>>)
      BY <2>2, <2>3 DEF StopRecord, Running
    <2>5. Msg("destroy", svc, None).type # "start"
      BY DEF Msg
    <2>6. inbox' = <<Msg("destroy", svc, None)>>
      BY <2>4, <2>5, PostToFew
    <2>7. UNCHANGED <<svc, health, pc>>
      BY <1>5 DEF HandleStopSelf, object, thread
    <2> QED BY <2>1, <2>2, <2>4, <2>6, <2>7 DEF Failed, Leaving, Running
  <1> QED BY <1>1, <1>2, <1>3, <1>4, <1>5

\* onDestroy.
LEMMA StopMoves ==
  ASSUME TypeOK, Shape
  PROVE  /\ HandleDestroy =>
              /\ Leaving
              /\ IF health = "ok" THEN Stopping' /\ pc' = "removeRules" /\ svc' = svc
                                  ELSE Idle' /\ svc' = 0
         /\ RemoveRules \/ KillLogger => Stopping /\ Stopping'
         /\ UpdateSize => Stopping /\ Idle' /\ svc' = 0
  <1>1. ASSUME HandleDestroy
        PROVE  /\ Leaving
               /\ IF health = "ok" THEN Stopping' /\ pc' = "removeRules" /\ svc' = svc
                                   ELSE Idle' /\ svc' = 0
    <2>1. Leaving
      BY <1>1, WhereItIs DEF HandleDestroy
    <2>2. Rest = <<>>
      BY <2>1, FewMessages DEF Leaving, Rest
    <2>3. CASE health = "noRoot"
      <3>1. ProcessDies
        BY <1>1, <2>3 DEF HandleDestroy
      <3>2. svc' = 0 /\ pc' = "idle"
        BY <3>1 DEF ProcessDies
      <3>3. record' = 0 /\ intents' = <<>> /\ inbox' = <<>>
        BY <2>1, <3>1 DEF ProcessDies, Leaving
      <3> QED BY <2>1, <2>3, <3>2, <3>3 DEF Idle
    <2>4. CASE health = "ok"
      <3>1. inbox' = <<>> /\ pc' = "removeRules" /\ UNCHANGED <<svc, health, manager>>
        BY <1>1, <2>2, <2>4 DEF HandleDestroy
      <3> QED BY <2>1, <2>4, <3>1 DEF Leaving, Stopping, StopPC, manager
    <2>5. CASE health \notin {"ok", "noRoot"}
      <3>1. inbox' = <<>> /\ svc' = 0 /\ UNCHANGED <<pc, manager>>
        BY <1>1, <2>2, <2>5 DEF HandleDestroy
      <3> QED BY <2>1, <2>5, <3>1 DEF Leaving, Idle, manager
    <2> QED BY <2>3, <2>4, <2>5
  <1>2. ASSUME RemoveRules \/ KillLogger
        PROVE  Stopping /\ Stopping'
    <2>1. Stopping
      BY <1>2, WhereItIs DEF RemoveRules, KillLogger, StopPC
    <2>2. UNCHANGED <<manager, inbox, object>> /\ pc' \in StopPC
      BY <1>2 DEF RemoveRules, KillLogger, StopPC
    <2> QED BY <2>1, <2>2 DEF Stopping, manager, object
  <1>3. ASSUME UpdateSize
        PROVE  Stopping /\ Idle' /\ svc' = 0
    <2>1. Stopping
      BY <1>3, WhereItIs DEF UpdateSize, StopPC
    <2>2. svc' = 0 /\ pc' = "idle"
      BY <1>3 DEF UpdateSize, ProcessDies
    <2>3. record' = 0 /\ intents' = <<>> /\ inbox' = <<>>
      <3>1. CASE logFile = None
        BY <1>3, <2>1, <3>1 DEF UpdateSize, ProcessDies, Stopping
      <3>2. CASE logFile # None
        BY <1>3, <2>1, <3>2 DEF UpdateSize, Stopping, manager
      <3> QED BY <3>1, <3>2
    <2> QED BY <2>1, <2>2, <2>3 DEF Idle
  <1> QED BY <1>1, <1>2, <1>3

\* Every step leads from shape to shape, and a process that dies has no
\* service object.
LEMMA ShapeStep ==
  ASSUME Patient, TypeOK, Shape, [Next]_vars
  PROVE  Shape'
  <1> USE DEF Shape
  <1>1. CASE User
    BY <1>1, UserMoves
  <1>2. CASE HandleCreate \/ RefuseArgs \/ InvalidArgs \/ AcceptArgs
    BY <1>2, CommandMoves
  <1>3. CASE StartRecording \/ KillOld \/ ApplyRules \/ CreateLogEntry \/ StartLogger
             \/ OpenLog \/ AbortLogger \/ StartFailed \/ HandleStopSelf
    BY <1>3, StartMoves
  <1>4. CASE HandleDestroy \/ RemoveRules \/ KillLogger \/ UpdateSize
    BY <1>4, StopMoves
  <1>5. CASE UncaughtException \/ Crash
    BY <1>5, AfterDeath DEF UncaughtException, Crash
  <1>6. CASE \/ Connect \/ ProxyExits \/ Tick \/ UNCHANGED vars
             \/ \E f \in Files : KidLogs(f) \/ KidExits(f)
    <2>1. UNCHANGED <<manager, inbox, object, thread>>
      BY <1>6 DEF Connect, ProxyExits, Tick, KidLogs, KidExits, vars
    <2> HIDE DEF Shape
    <2> QED BY <2>1, SameShape
  <1> QED BY <1>1, <1>2, <1>3, <1>4, <1>5, <1>6 DEF Next, MainThread, Environment

\* The shapes that the other invariants tell apart.
LEMMA ApartNext ==
  /\ Idle' \/ Created' \/ Commanded' \/ Refused' \/ Failed' \/ Leaving' \/ Stopping' => ~Starting'
  /\ Refused' \/ Starting' \/ Setting' \/ Failed' \/ Leaving' \/ Stopping'
       => ~Idle' /\ ~Commanded'
  <1>1. Idle' => inbox' = <<>>
    BY DEF Idle
  <1>2. Created' => inbox' # <<>> /\ Head(inbox').type = "create"
    BY FewMessages, MsgFields DEF Created
  <1>3. Commanded' => inbox' # <<>> /\ Head(inbox').type = "args"
    BY FewMessages, MsgFields DEF Commanded
  <1>4. Starting' => inbox' # <<>> /\ Head(inbox').type = "start"
    BY FewMessages, MsgFields DEF Starting
  <1>5. Failed' => inbox' # <<>> /\ Head(inbox').type = "stopSelf"
    BY FewMessages, MsgFields DEF Failed
  <1>6. Leaving' => inbox' # <<>> /\ Head(inbox').type = "destroy"
    BY FewMessages, MsgFields DEF Leaving
  <1>7. Refused' => inbox' # <<>> /\ Head(inbox').type = "args" /\ health' # "ok" /\ svc' # 0
    BY FewMessages, MsgFields DEF Refused
  <1>8. Commanded' => health' = "ok"
    BY DEF Commanded, Running
  <1>9. Setting' \/ Stopping' => inbox' = <<>> /\ pc' # "idle"
    BY DEF Setting, Stopping, StartPC, StopPC
  <1>10. Idle' => pc' = "idle"
    BY DEF Idle
  <1> QED BY <1>1, <1>2, <1>3, <1>4, <1>5, <1>6, <1>7, <1>8, <1>9, <1>10

-----------------------------------------------------------------------------
(* The log readers.                                                        *)

\* The service on duty has no reader yet, or no longer.
NoReader ==
  \/ svc = 0 \/ health # "ok"
  \/ pc \in StartPC \ {"killOld"} \/ pc = "updateSize"

ReadersInv == reading \subseteq {svc} /\ (NoReader => reading = {})

LEMMA ReadersStep ==
  ASSUME Patient, TypeOK, Shape, ReadersInv, [Next]_vars
  PROVE  ReadersInv'
  <1>1. ASSUME UNCHANGED <<reading, svc, health, pc>>
        PROVE  ReadersInv'
    BY <1>1 DEF ReadersInv, NoReader
  <1>2. ASSUME ProcessDies
        PROVE  ReadersInv'
    BY <1>2 DEF ProcessDies, ReadersInv
  <1>3. CASE HandleCreate
    <2>1. svc = 0
      BY <1>3, CommandMoves DEF Created
    <2>2. reading = {} /\ reading' = {}
      BY <1>3, <2>1 DEF HandleCreate, ReadersInv, NoReader
    <2> QED BY <2>2 DEF ReadersInv
  <1>4. CASE StartRecording
    <2>1. pc' = "killOld" /\ pc = "idle" /\ UNCHANGED <<reading, svc, health>>
      BY <1>4 DEF StartRecording, Takes, object
    <2> QED BY <2>1 DEF ReadersInv, NoReader
  <1>5. CASE KillOld
    <2>1. job.id = svc /\ UNCHANGED svc
      BY <1>5, StartMoves DEF KillOld, Setting, object
    <2>2. reading' = {}
      BY <1>5, <2>1 DEF KillOld, StoppedReading, ReadersInv
    <2> QED BY <2>2 DEF ReadersInv
  <1>6. CASE ApplyRules \/ CreateLogEntry \/ StartLogger \/ AbortLogger
    <2>1. pc \in StartPC \ {"killOld"} /\ UNCHANGED reading
      BY <1>6 DEF ApplyRules, CreateLogEntry, StartLogger, AbortLogger, StartPC
    <2> QED BY <2>1 DEF ReadersInv, NoReader
  <1>7. CASE OpenLog
    <2>0. Setting /\ pc = "openLog" /\ UNCHANGED <<svc, health>>
      BY <1>7, StartMoves DEF OpenLog, object
    <2>1. reading = {}
      BY <2>0 DEF ReadersInv, NoReader, StartPC
    <2>2. CASE UNCHANGED reading
      BY <2>1, <2>2 DEF ReadersInv
    <2>3. CASE pc' = "idle" /\ reading' = reading \cup {job.id}
      BY <2>0, <2>1, <2>3 DEF ReadersInv, NoReader, Setting, Running, StartPC
    <2> QED BY <1>7, <2>2, <2>3 DEF OpenLog
  <1>8. CASE StartFailed
    <2>1. reading = {}
      BY <1>8 DEF StartFailed, ReadersInv, NoReader, StartPC
    <2>2. reading' = {}
      BY <1>8, <2>1 DEF StartFailed, ProcessDies
    <2> QED BY <2>2 DEF ReadersInv
  <1>9. CASE HandleDestroy
    <2>1. CASE health = "ok"
      <3>1. UNCHANGED <<reading, svc, health>> /\ pc' = "removeRules"
        BY <1>9, <2>1 DEF HandleDestroy
      <3> QED BY <3>1, <1>9 DEF ReadersInv, NoReader, StartPC
    <2>2. CASE health # "ok"
      <3>1. reading = {}
        BY <2>2 DEF ReadersInv, NoReader
      <3>2. reading' = {}
        BY <1>9, <3>1 DEF HandleDestroy, ProcessDies
      <3> QED BY <3>2 DEF ReadersInv
    <2> QED BY <2>1, <2>2
  <1>10. CASE RemoveRules
    <2>1. pc' = "killLogger" /\ UNCHANGED <<reading, svc, health>>
      BY <1>10 DEF RemoveRules, object
    <2> QED BY <2>1 DEF ReadersInv, NoReader, StartPC
  <1>11. CASE KillLogger
    <2>1. reading' = {}
      BY <1>11 DEF KillLogger, StoppedReading, ReadersInv
    <2> QED BY <2>1 DEF ReadersInv
  <1>12. CASE UpdateSize
    <2>1. reading = {}
      BY <1>12 DEF UpdateSize, ReadersInv, NoReader
    <2>2. reading' = {}
      BY <1>12, <2>1 DEF UpdateSize, ProcessDies
    <2> QED BY <2>2 DEF ReadersInv
  <1>13. CASE UncaughtException \/ Crash
    BY <1>2, <1>13 DEF UncaughtException, Crash
  <1>14. CASE \/ User \/ RefuseArgs \/ InvalidArgs \/ AcceptArgs \/ HandleStopSelf
              \/ Connect \/ ProxyExits \/ Tick \/ UNCHANGED vars
              \/ \E f \in Files : KidLogs(f) \/ KidExits(f)
    <2>1. UNCHANGED <<reading, svc, health, pc>>
      BY <1>14 DEF User, UserStart, UserStop, StopFromNotification, RefuseArgs, InvalidArgs,
                   AcceptArgs, HandleStopSelf, Connect, ProxyExits, Tick, KidLogs, KidExits,
                   object, thread, vars
    <2> QED BY <1>1, <2>1
  <1> QED BY <1>3, <1>4, <1>5, <1>6, <1>7, <1>8, <1>9, <1>10, <1>11, <1>12, <1>13, <1>14
          DEF Next, MainThread, Environment

-----------------------------------------------------------------------------
(* What a recording consists of.                                           *)

Complete ==
  /\ rules # {} /\ \A r \in rules : r[1] = logEntryID[1]
  /\ \E e \in rows : e.entry = logEntryID /\ e.uid = logEntryID[1]
  /\ logFile \in Files /\ logs[logFile] # None

\* The uid of an entry is the one its entryid begins with.
RowsNameUid == \A e \in rows : e.uid = e.entry[1]

\* What startRecording has done so far.
StaticsAgree ==
  Starting \/ pc \in {"killOld", "applyRules", "createLogEntry", "startLogger", "openLog"}
    => logAppUID = logEntryID[1]
RulesApplied ==
  pc \in {"createLogEntry", "startLogger", "openLog"} => rules = {logAppUID} \X job.ports
EntryMade ==
  pc \in {"startLogger", "openLog"} => \E e \in rows : e.entry = logEntryID

StaysComplete == (Idle \/ Commanded) /\ svc \in reading => Complete

RecordingInv ==
  RowsNameUid /\ StaticsAgree /\ RulesApplied /\ EntryMade /\ StaysComplete

LEMMA RecordingStep ==
  ASSUME Patient, IndInv, IndInv', Shape, Shape', ReadersInv, ReadersInv', RecordingInv,
         [Next]_vars
  PROVE  RecordingInv'
  <1>t. TypeOK /\ TypeOK'
    BY DEF IndInv
  <1>0. /\ RowsNameUid /\ StaticsAgree /\ RulesApplied /\ EntryMade /\ StaysComplete
        /\ svc' = 0 => reading' = {}
        /\ pc \in StartPC => logFile \in Files
    BY DEF RecordingInv, ReadersInv, NoReader, IndInv, StartsHaveStatics, StaticsSet
  <1> DEFINE Working == {"killOld", "applyRules", "createLogEntry", "startLogger", "openLog"}
  \* Outside of startRecording, with nothing that can be complete.
  <1>1. ASSUME UNCHANGED rows, pc' \notin Working, ~Starting', ~(Idle' \/ Commanded') \/ svc' = 0
        PROVE  RecordingInv'
    BY <1>0, <1>1 DEF RecordingInv, RowsNameUid, StaticsAgree, RulesApplied, EntryMade,
                      StaysComplete
  \* Outside of startRecording, with what was complete before.
  <1>2. ASSUME UNCHANGED <<rows, rules, logs, logEntryID, logFile, reading, svc>>,
               pc' \notin Working, ~Starting', Idle \/ Commanded
        PROVE  RecordingInv'
    BY <1>0, <1>2 DEF RecordingInv, RowsNameUid, StaticsAgree, RulesApplied, EntryMade,
                      StaysComplete, Complete
  <1>3. CASE User
    <2>1. UNCHANGED <<rows, rules, logs, logEntryID, logFile, reading, svc, pc>>
      BY <1>3 DEF User, UserStart, UserStop, StopFromNotification, object, thread, statics,
                  root, flash
    <2>2. Idle /\ (Created' \/ Commanded' \/ Leaving')
      BY <1>3, <1>t, UserMoves
    <2>3. pc' \notin Working
      BY <2>1, <2>2 DEF Idle
    <2> QED BY <1>2, <2>1, <2>2, <2>3, ApartNext
  <1>4. CASE HandleCreate
    <2>1. Created /\ (Commanded' \/ Refused') /\ UNCHANGED <<rows, reading, pc>>
      BY <1>4, <1>t, CommandMoves DEF HandleCreate, thread, flash
    <2>2. reading' = {} /\ pc' = "idle"
      BY <2>1 DEF Created, ReadersInv, NoReader
    <2> QED BY <1>0, <2>1, <2>2, ApartNext
            DEF RecordingInv, RowsNameUid, StaticsAgree, RulesApplied, EntryMade, StaysComplete
  <1>5. CASE RefuseArgs \/ InvalidArgs
    <2>1. UNCHANGED <<rows, rules, logs, logEntryID, logFile, reading, svc, pc>> /\ pc = "idle"
      BY <1>5 DEF RefuseArgs, InvalidArgs, Takes, object, thread, statics, root, flash
    <2>2. (Commanded /\ Idle') \/ Leaving'
      BY <1>5, <1>t, CommandMoves
    <2>3. CASE Commanded /\ Idle'
      BY <1>2, <2>1, <2>3, ApartNext
    <2>4. CASE Leaving'
      BY <1>1, <2>1, <2>4, ApartNext
    <2> QED BY <2>2, <2>3, <2>4
  <1>6. CASE AcceptArgs
    <2>1. /\ logAppUID' = Head(inbox).intent.uid /\ logEntryID' = <<Head(inbox).intent.uid, now>>
          /\ UNCHANGED <<rows, pc>> /\ pc = "idle"
      BY <1>6 DEF AcceptArgs, Takes, thread, flash
    <2>2. ~Idle' /\ ~Commanded'
      BY <1>6, <1>t, CommandMoves, ApartNext
    <2>3. logAppUID' = logEntryID'[1]
      BY <2>1
    <2> QED BY <1>0, <2>1, <2>2, <2>3
            DEF RecordingInv, RowsNameUid, StaticsAgree, RulesApplied, EntryMade, StaysComplete
  <1>7. CASE StartRecording
    <2>1. Starting /\ Setting' /\ pc' = "killOld" /\ UNCHANGED <<rows, logAppUID, logEntryID>>
      BY <1>7, <1>t, StartMoves DEF StartRecording, statics, flash
    <2> QED BY <1>0, <2>1, ApartNext
            DEF RecordingInv, RowsNameUid, StaticsAgree, RulesApplied, EntryMade, StaysComplete
  <1>8. CASE KillOld
    <2>1. /\ Setting' /\ pc = "killOld" /\ pc' = "applyRules"
          /\ UNCHANGED <<rows, logAppUID, logEntryID>>
      BY <1>8, <1>t, StartMoves DEF KillOld, statics, flash
    <2> QED BY <1>0, <2>1, ApartNext
            DEF RecordingInv, RowsNameUid, StaticsAgree, RulesApplied, EntryMade, StaysComplete
  <1>9. CASE ApplyRules
    <2>1. /\ Setting' /\ pc = "applyRules" /\ UNCHANGED <<rows, logAppUID, logEntryID, job>>
          /\ \/ pc' = "createLogEntry" /\ rules' = {logAppUID} \X job.ports
             \/ pc' = "startFailed"
      BY <1>9, <1>t, StartMoves DEF ApplyRules, NetrecRules, statics, flash
    <2> QED BY <1>0, <2>1, ApartNext
            DEF RecordingInv, RowsNameUid, StaticsAgree, RulesApplied, EntryMade, StaysComplete
  <1>10. CASE CreateLogEntry
    <2>1. Setting' /\ pc = "createLogEntry" /\ UNCHANGED <<rules, logAppUID, logEntryID>>
      BY <1>10, <1>t, StartMoves DEF CreateLogEntry, statics, root
    <2>2. job'.ports = job.ports
      BY <1>10, <1>t DEF CreateLogEntry, TypeOK, Job
    <2>3. CASE pc' = "startLogger"
      <3>1. RowsNameUid' /\ \E e \in rows' : e.entry = logEntryID'
        <4>1. CASE UNCHANGED rows /\ \E r \in rows : r.entry = logEntryID
          BY <4>1, <2>1, <1>0 DEF RowsNameUid
        <4>2. CASE rows' = rows \cup {[entry |-> logEntryID, uid |-> logAppUID,
                                       path |-> logFile, length |-> 0]}
          <5> DEFINE new == [entry |-> logEntryID, uid |-> logAppUID,
                             path |-> logFile, length |-> 0]
          <5>1. new.entry = logEntryID /\ new.uid = logEntryID[1] /\ rows' = rows \cup {new}
            BY <4>2, <2>1, <1>0 DEF StaticsAgree
          <5> HIDE DEF new
          <5> QED BY <5>1, <2>1, <1>0 DEF RowsNameUid
        <4> QED BY <1>10, <2>3, <4>1, <4>2 DEF CreateLogEntry
      <3> QED BY <1>0, <2>1, <2>2, <2>3, <3>1, ApartNext
              DEF RecordingInv, StaticsAgree, RulesApplied, EntryMade, StaysComplete
    <2>4. CASE pc' = "startFailed" /\ UNCHANGED rows
      BY <1>1, <2>1, <2>4, ApartNext DEF Setting, Starting, StartPC
    <2> QED BY <1>10, <2>3, <2>4 DEF CreateLogEntry
  <1>11. CASE StartLogger
    <2>1. /\ Setting' /\ pc = "startLogger" /\ pc' = "openLog"
          /\ UNCHANGED <<rules, logAppUID, logEntryID, job, rows>>
      BY <1>11, <1>t, StartMoves DEF StartLogger, statics, root
    <2> QED BY <1>0, <2>1, ApartNext
            DEF RecordingInv, RowsNameUid, StaticsAgree, RulesApplied, EntryMade, StaysComplete
  <1>12. CASE OpenLog
    <2>1. /\ Setting /\ pc = "openLog"
          /\ UNCHANGED <<rules, logAppUID, logEntryID, logFile, rows, logs>>
      BY <1>12, <1>t, StartMoves DEF OpenLog, statics, root, flash
    <2>2. CASE logs[logFile] = None
      <3>1. Setting' /\ pc' = "abortLogger"
        BY <1>12, <2>2, <1>t, StartMoves DEF OpenLog
      <3> QED BY <1>1, <2>1, <3>1, ApartNext DEF Starting
    <2>3. CASE logs[logFile] # None
      <3>1. Idle' /\ pc' = "idle"
        BY <1>12, <2>3, <1>t, StartMoves DEF OpenLog
      <3>2. rules = {logAppUID} \X job.ports /\ job.ports # {} /\ logAppUID = logEntryID[1]
        BY <1>0, <2>1 DEF RulesApplied, StaticsAgree, Setting
      <3>3. rules # {} /\ \A r \in rules : r[1] = logEntryID[1]
        <4>1. PICK p \in job.ports : TRUE
          BY <3>2
        <4>2. <<logAppUID, p>> \in rules
          BY <3>2, <4>1
        <4>3. \A r \in {logAppUID} \X job.ports : r[1] = logAppUID
          OBVIOUS
        <4> QED BY <3>2, <4>2, <4>3
      <3>4. \E e \in rows : e.entry = logEntryID /\ e.uid = logEntryID[1]
        BY <1>0, <2>1 DEF EntryMade, RowsNameUid
      <3>5. Complete'
        BY <1>0, <2>1, <2>3, <3>3, <3>4 DEF Complete, StartPC
      <3> QED BY <1>0, <2>1, <3>1, <3>5, ApartNext
              DEF RecordingInv, RowsNameUid, StaticsAgree, RulesApplied, EntryMade, StaysComplete
    <2> QED BY <2>2, <2>3
  <1>13. CASE AbortLogger
    <2>1. Setting' /\ pc' = "startFailed" /\ UNCHANGED rows
      BY <1>13, <1>t, StartMoves DEF AbortLogger, flash
    <2> QED BY <1>1, <2>1, ApartNext DEF Setting, Starting, StartPC
  <1>14. CASE StartFailed
    <2>1. Failed' /\ rows' \subseteq rows
      BY <1>14, <1>t, StartMoves DEF StartFailed, DeletedLogEntry
    <2>2. pc' = "idle"
      BY <2>1 DEF Failed
    <2> QED BY <1>0, <2>1, <2>2, ApartNext
            DEF RecordingInv, RowsNameUid, StaticsAgree, RulesApplied, EntryMade, StaysComplete
  <1>15. CASE HandleStopSelf
    <2>1. Leaving' /\ UNCHANGED rows
      BY <1>15, <1>t, StartMoves DEF HandleStopSelf, flash
    <2> QED BY <1>1, <2>1, ApartNext DEF Leaving
  <1>16. CASE HandleDestroy
    <2>1. UNCHANGED rows /\ (Stopping' \/ (Idle' /\ svc' = 0))
      BY <1>16, <1>t, StopMoves DEF HandleDestroy, flash
    <2>2. pc' \notin Working
      BY <2>1 DEF Stopping, Idle, StopPC
    <2> QED BY <1>1, <2>1, <2>2, ApartNext
  <1>17. CASE RemoveRules \/ KillLogger
    <2>1. UNCHANGED rows /\ Stopping'
      BY <1>17, <1>t, StopMoves DEF RemoveRules, KillLogger, flash
    <2>2. pc' \notin Working
      BY <2>1 DEF Stopping, StopPC
    <2> QED BY <1>1, <2>1, <2>2, ApartNext
  <1>18. CASE UpdateSize
    <2>1. Idle' /\ svc' = 0
      BY <1>18, <1>t, StopMoves
    <2>2. RowsNameUid'
      <3>1. CASE UNCHANGED rows
        BY <3>1, <1>0 DEF RowsNameUid
      <3>2. CASE ~UNCHANGED rows
        <4> DEFINE size == IF logs[logFile] = None THEN 0 ELSE logs[logFile]
                   Saved(r) == IF r.entry = logEntryID /\ r.uid = logAppUID
                               THEN [r EXCEPT !.length = size] ELSE r
        <4>1. rows' = {Saved(r) : r \in rows}
          BY <1>18, <3>2 DEF UpdateSize
        <4>2. \A r \in rows : Saved(r).entry = r.entry /\ Saved(r).uid = r.uid
          BY <1>t DEF TypeOK, LogRow
        <4> HIDE DEF Saved
        <4> QED BY <4>1, <4>2, <1>0 DEF RowsNameUid
      <3> QED BY <3>1, <3>2
    <2>3. pc' = "idle"
      BY <2>1 DEF Idle
    <2> QED BY <1>0, <2>1, <2>2, <2>3, ApartNext
            DEF RecordingInv, StaticsAgree, RulesApplied, EntryMade, StaysComplete
  <1>19. CASE UncaughtException \/ Crash
    <2>1. UNCHANGED rows /\ ProcessDies
      BY <1>19 DEF UncaughtException, Crash, flash
    <2>2. svc' = 0 /\ pc' = "idle" /\ (Idle' \/ Created')
      BY <2>1, AfterDeath DEF ProcessDies
    <2> QED BY <1>1, <2>1, <2>2, ApartNext
  <1>20. CASE \/ Connect \/ ProxyExits \/ Tick \/ UNCHANGED vars
              \/ \E f \in Files : KidLogs(f) \/ KidExits(f)
    <2>1. UNCHANGED <<manager, inbox, object, thread>>
      BY <1>20 DEF Connect, ProxyExits, Tick, KidLogs, KidExits, vars
    <2>2. UNCHANGED <<rows, rules, statics, reading, svc, pc, job>>
      BY <1>20 DEF Connect, ProxyExits, Tick, KidLogs, KidExits, object, thread, root, flash, vars
    <2>3. Idle' = Idle /\ Commanded' = Commanded /\ Starting' = Starting
      BY <2>1, SameShape
    <2>4. Complete => Complete'
      BY <2>2, OnlyGrows DEF Complete, statics
    <2> QED BY <1>0, <2>2, <2>3, <2>4
            DEF RecordingInv, RowsNameUid, StaticsAgree, RulesApplied, EntryMade,
                StaysComplete, statics
  <1> QED BY <1>3, <1>4, <1>5, <1>6, <1>7, <1>8, <1>9, <1>10, <1>11, <1>12, <1>13, <1>14,
             <1>15, <1>16, <1>17, <1>18, <1>19, <1>20 DEF Next, MainThread, Environment

-----------------------------------------------------------------------------
(* As long as nothing has failed.                                          *)

Clean == rules = {} /\ pidFile = 0 /\ proxy = NoProxy

NoPidNoProxy == proxy.pid = 0 => proxy = NoProxy

\* Without a service object nothing is redirected, and onDestroy takes away
\* the rules before it takes away the listener.
UndisturbedInv ==
  Undisturbed =>
    /\ svc # 0 => health = "ok"
    /\ svc = 0 \/ pc = "updateSize" => Clean
    /\ pc = "killLogger" => rules = {}
    /\ record # 0 /\ rules # {} => foreground

LEMMA NoProxyStep ==
  ASSUME TypeOK, NoPidNoProxy, [Next]_vars
  PROVE  NoPidNoProxy'
  <1>1. ASSUME UNCHANGED proxy \/ proxy' = NoProxy
        PROVE  NoPidNoProxy'
    BY <1>1 DEF NoPidNoProxy
  <1>2. CASE StartLogger
    <2>1. CASE proxy' = [pid |-> lastPid + 1, log |-> logFile]
      <3>1. proxy'.pid = lastPid + 1 /\ lastPid \in Nat
        BY <2>1 DEF TypeOK
      <3> QED BY <3>1 DEF NoPidNoProxy
    <2>2. CASE UNCHANGED proxy \/ proxy' = NoProxy
      BY <1>1, <2>2
    <2> QED BY <1>2, <2>1, <2>2 DEF StartLogger, root
  <1>3. CASE ~StartLogger
    <2>1. UNCHANGED proxy \/ proxy' = NoProxy
      BY <1>3 DEF Next, User, UserStart, UserStop, StopFromNotification, MainThread,
           HandleCreate, RefuseArgs, InvalidArgs, AcceptArgs, StartRecording, KillOld,
           ApplyRules, CreateLogEntry, OpenLog, AbortLogger, StartFailed, HandleStopSelf,
           HandleDestroy, RemoveRules, KillLogger, UpdateSize, UncaughtException,
           Environment, Connect, KidLogs, KidExits, ProxyExits, Tick, Crash, KillScript,
           KillByPidFile, root, vars
    <2> QED BY <1>1, <2>1
  <1> QED BY <1>2, <1>3

LEMMA UndisturbedStep ==
  ASSUME Patient, IndInv, Shape, Shape', UndisturbedInv, NoPidNoProxy, ProxyNamedByPidFile,
         [Next]_vars
  PROVE  UndisturbedInv'
  <1> SUFFICES ASSUME Undisturbed'
               PROVE  /\ svc' # 0 => health' = "ok"
                      /\ svc' = 0 \/ pc' = "updateSize" => Clean'
                      /\ pc' = "killLogger" => rules' = {}
                      /\ record' # 0 /\ rules' # {} => foreground'
    BY DEF UndisturbedInv
  <1>t. TypeOK
    BY DEF IndInv
  <1>1. UNCHANGED <<faults, crashes>> /\ Undisturbed
    BY OnlyGrows
  <1>2. /\ svc # 0 => health = "ok"
        /\ svc = 0 \/ pc = "updateSize" => Clean
        /\ pc = "killLogger" => rules = {}
        /\ record # 0 /\ rules # {} => foreground
    BY <1>1 DEF UndisturbedInv
  <1>3. ~Fails /\ ~Crash
    BY <1>1 DEF Fails, Crash, IndInv, TypeOK
  <1>4. ASSUME UNCHANGED <<svc, health, pc, record, foreground, rules, pidFile, proxy>>
        PROVE  /\ svc' # 0 => health' = "ok"
               /\ svc' = 0 \/ pc' = "updateSize" => Clean'
               /\ pc' = "killLogger" => rules' = {}
               /\ record' # 0 /\ rules' # {} => foreground'
    BY <1>2, <1>4 DEF Clean
  <1>5. CASE UserStart
    <2>1. Idle /\ UNCHANGED <<svc, health, pc, foreground, rules, pidFile, proxy>>
      BY <1>5, <1>t, UserMoves DEF User, UserStart, object, thread, root
    <2>2. record # 0 => record' # 0
      BY <1>5, <1>t DEF UserStart, TypeOK
    <2>3. record = svc
      BY <2>1 DEF Idle
    <2> QED BY <1>2, <2>1, <2>2, <2>3 DEF Clean
  <1>6. CASE (User /\ ~UserStart) \/ HandleStopSelf
    <2>1. Leaving' /\ UNCHANGED <<svc, health, pc, rules, pidFile, proxy>>
      BY <1>6, <1>t, UserMoves, StartMoves DEF User, UserStop, StopFromNotification,
         HandleStopSelf, object, thread, root
    <2> QED BY <1>2, <2>1 DEF Leaving, Clean
  <1>7. CASE HandleCreate
    <2>1. Created /\ pc = "idle" /\ svc = 0
      BY <1>7, <1>t, CommandMoves DEF Created
    <2>2. UNCHANGED <<rules, pidFile, proxy, pc>> /\ health' = "ok" /\ UNCHANGED manager
      BY <1>3, <1>7 DEF HandleCreate, thread, root
    <2> QED BY <1>2, <2>1, <2>2 DEF Clean
  <1>8. CASE RefuseArgs \/ InvalidArgs \/ AcceptArgs
    <2>1. UNCHANGED <<svc, health, pc, record, foreground, rules, pidFile, proxy>>
      BY <1>8 DEF RefuseArgs, InvalidArgs, AcceptArgs, object, thread, root
    <2> QED BY <1>4, <2>1
  <1>9. CASE StartRecording \/ KillOld \/ ApplyRules \/ CreateLogEntry \/ StartLogger
             \/ AbortLogger
    <2>1. Setting' /\ UNCHANGED <<svc, health>>
      BY <1>9, <1>t, StartMoves DEF StartRecording, KillOld, ApplyRules, CreateLogEntry,
         StartLogger, AbortLogger, object
    <2> QED BY <1>2, <2>1 DEF Setting, Running, StartPC
  <1>10. CASE OpenLog \/ StartFailed
    <2>1. Setting /\ (Setting' \/ Idle' \/ Failed')
      BY <1>10, <1>t, StartMoves
    <2>2. UNCHANGED <<svc, health, foreground>>
      BY <1>10, <2>1 DEF OpenLog, StartFailed, Setting, Running, manager, object
    <2>3. pc' \notin {"updateSize", "killLogger"}
      BY <2>1 DEF Setting, Idle, Failed, StartPC
    <2> QED BY <2>1, <2>2, <2>3 DEF Setting, Running
  <1>11. CASE HandleDestroy
    <2>1. Leaving /\ health = "ok"
      BY <1>2, <1>11, <1>t, StopMoves DEF Leaving
    <2>2. Stopping' /\ pc' = "removeRules" /\ svc' = svc
      BY <1>11, <2>1, <1>t, StopMoves
    <2> QED BY <2>1, <2>2 DEF Stopping, Leaving
  <1>12. CASE RemoveRules
    <2>1. Stopping' /\ pc' = "killLogger" /\ rules' = {}
      BY <1>3, <1>12, <1>t, StopMoves DEF RemoveRules
    <2> QED BY <2>1 DEF Stopping
  <1>13. CASE KillLogger
    <2>1. Stopping' /\ pc = "killLogger" /\ KillByPidFile
      BY <1>3, <1>13, <1>t, StopMoves DEF KillLogger, KillScript
    <2>2. pidFile' = 0 /\ rules' = {}
      BY <1>2, <2>1 DEF KillByPidFile
    <2>3. proxy' = NoProxy
      BY <2>1 DEF KillByPidFile, ProxyNamedByPidFile, NoPidNoProxy
    <2> QED BY <2>1, <2>2, <2>3 DEF Stopping, Clean
  <1>14. CASE UpdateSize
    <2>1. Idle' /\ svc' = 0 /\ pc = "updateSize" /\ UNCHANGED <<rules, pidFile, proxy>>
      BY <1>14, <1>t, StopMoves DEF UpdateSize, root
    <2> QED BY <1>2, <2>1 DEF Idle, Clean
  <1>15. CASE UncaughtException \/ ProxyExits
    BY <1>3, <1>15 DEF UncaughtException, ProxyExits
  <1>16. CASE Connect \/ Tick \/ UNCHANGED vars \/ (\E f \in Files : KidLogs(f) \/ KidExits(f))
    <2>1. UNCHANGED <<svc, health, pc, record, foreground, rules, pidFile, proxy>>
      BY <1>16 DEF Connect, Tick, KidLogs, KidExits, manager, object, thread, root, vars
    <2> QED BY <1>4, <2>1
  <1> QED BY <1>3, <1>5, <1>6, <1>7, <1>8, <1>9, <1>10, <1>11, <1>12, <1>13, <1>14, <1>15, <1>16
          DEF Next, User, MainThread, Environment

-----------------------------------------------------------------------------
(* The theorems.                                                           *)

PatientInv == Shape /\ ReadersInv /\ RecordingInv /\ UndisturbedInv /\ NoPidNoProxy

\* What a patient user's service keeps to, in any number of steps.
THEOREM PatientInvariance ==
  ASSUME Patient
  PROVE  Spec => []PatientInv
  <1>1. Init => PatientInv
    <2> SUFFICES ASSUME Init PROVE PatientInv
      OBVIOUS
    <2>1. Idle
      BY DEF Init, Idle
    <2>2. ReadersInv /\ UndisturbedInv /\ NoPidNoProxy
      BY DEF Init, ReadersInv, UndisturbedInv, NoPidNoProxy, Clean
    <2>3. inbox = <<>> /\ pc = "idle" /\ rows = {} /\ reading = {}
      BY DEF Init
    <2>4. ~Starting
      BY <2>3, FewMessages DEF Starting
    <2>5. RecordingInv
      BY <2>3, <2>4 DEF RecordingInv, RowsNameUid, StaticsAgree, RulesApplied, EntryMade,
                        StaysComplete
    <2> QED BY <2>1, <2>2, <2>5 DEF PatientInv, Shape
  <1>2. IndInv /\ IndInv' /\ ProxyNamedByPidFile /\ PatientInv /\ [Next]_vars => PatientInv'
    <2> SUFFICES ASSUME IndInv, IndInv', ProxyNamedByPidFile, PatientInv, [Next]_vars
                 PROVE  PatientInv'
      OBVIOUS
    <2>1. TypeOK /\ Shape /\ ReadersInv /\ RecordingInv /\ UndisturbedInv /\ NoPidNoProxy
      BY DEF PatientInv, IndInv
    <2>2. Shape'
      BY <2>1, ShapeStep
    <2>3. ReadersInv'
      BY <2>1, ReadersStep
    <2>4. RecordingInv'
      BY <2>1, <2>2, <2>3, RecordingStep
    <2>5. UndisturbedInv' /\ NoPidNoProxy'
      BY <2>1, <2>2, UndisturbedStep, NoProxyStep
    <2> QED BY <2>2, <2>3, <2>4, <2>5 DEF PatientInv
  <1> QED BY <1>1, <1>2, Invariance, PidFileCorrect, PTL DEF Spec

\* No reader outlives the onDestroy of its service (ReadersBelongToService),
\* whatever fails.
THEOREM ReadersStopped ==
  ASSUME Patient
  PROVE  Spec => []ReadersBelongToService
  <1>1. PatientInv => ReadersBelongToService
    BY DEF PatientInv, ReadersInv, ReadersBelongToService
  <1> QED BY <1>1, PatientInvariance, PTL

\* A recording that is under way has its rules, its entry and its log
\* (RecordingIsComplete), whatever failed before it began.
THEOREM CompleteRecording ==
  ASSUME Patient
  PROVE  Spec => []RecordingIsComplete
  <1>1. PatientInv => RecordingIsComplete
    BY WhereItIs DEF PatientInv, RecordingInv, StaysComplete, Complete, RecordingIsComplete
  <1> QED BY <1>1, PatientInvariance, PTL

\* A service that was stopped leaves nothing behind, unless something failed
\* (NothingLeftBehind).
THEOREM StoppedIsClean ==
  ASSUME Patient
  PROVE  Spec => []NothingLeftBehind
  <1>1. PatientInv => NothingLeftBehind
    BY WhereItIs DEF PatientInv, Idle, ReadersInv, NoReader, UndisturbedInv, Clean,
                     NothingLeftBehind
  <1> QED BY <1>1, PatientInvariance, PTL

\* Rules are there only under a notification (RedirectIsShown).
THEOREM RulesAreShown ==
  ASSUME Patient
  PROVE  Spec => []RedirectIsShown
  <1>1. PatientInv => RedirectIsShown
    BY WhereItIs DEF PatientInv, Idle, UndisturbedInv, Clean, RedirectIsShown
  <1> QED BY <1>1, PatientInvariance, PTL

\* The rules go before the listener does (RedirectGoesFirst).
THEOREM RulesGoFirst ==
  ASSUME Patient
  PROVE  Spec => RedirectGoesFirst
  <1>1. PatientInv /\ [Next]_vars =>
          [(proxy # NoProxy /\ proxy' = NoProxy /\ pc = "killLogger" /\ Undisturbed)
             => rules = {}]_vars
    BY DEF PatientInv, UndisturbedInv
  <1> QED BY <1>1, PatientInvariance, PTL DEF Spec, RedirectGoesFirst
=============================================================================
