--------------------------- MODULE RecorderService ---------------------------
(***************************************************************************)
(* NetworkRecorderService: the Android service that redirects the traffic  *)
(* of one application to the tcproxy process, and the world it drives: the *)
(* activity manager that creates, starts and destroys it, the iptables     *)
(* rules, the tcproxy processes and their pid file, the log files and the  *)
(* logentry table.                                                         *)
(*                                                                         *)
(* Everything the service does runs on the main thread, one message at a   *)
(* time, but one message runs several root scripts; pc is the call the     *)
(* main thread is about to make inside the message it is handling.         *)
(* Between two calls the other actors move: proxied connections come, log  *)
(* and go, the user acts, the application process is killed.  What root    *)
(* owns (rules, pidFile, proxy, kids) and what is on flash (rows, logs)    *)
(* survives the death of the application process.                          *)
(*                                                                         *)
(* The list of clients and the lines sent to them are not part of this     *)
(* module.                                                                 *)
(***************************************************************************)
EXTENDS Naturals, Sequences

CONSTANTS
  Apps,        \* uids of the applications that can be recorded
  Ports,       \* ports that can be asked for
  Files,       \* names of log files
  None,        \* null
  Patient,     \* whether the user waits until the main thread is idle
  MaxStarts,   \* bound: calls of Context.startService
  MaxCrashes,  \* bound: deaths of the application process from outside
  MaxFaults,   \* bound: failing scripts, inserts, creations and proxies
  MaxKids,     \* bound: proxied connections open at once, per log
  MaxSize,     \* bound: length of a log file
  MaxClock     \* bound: seconds

ASSUME PatientAssumption == Patient \in BOOLEAN
ASSUME NoneAssumption == None \notin Apps \cup Files \cup Nat \cup (Apps \X Nat)

VARIABLES
  \* the activity manager
  record,      \* id of the service record, 0 when the service is not started
  sticky,      \* the last onStartCommand answered START_STICKY
  intents,     \* start requests of the record that are not handled yet
  foreground,  \* the ongoing notification of the record is shown
  \* the application process
  inbox,       \* the message queue of the main thread
  svc,         \* the service object between onCreate and the end of onDestroy
  health,      \* what onCreate of svc found: hasRoot and hasBinaries
  handler,     \* the static handler is not null
  reading,     \* service objects whose logReader has keepReading = true
  pc, job,     \* the main thread: its next call, and what it started
  logAppUID, logEntryID, logFile,  \* the statics of the last start request
  \* root and flash
  rules,       \* redirect rules of the netrec chain: pairs of uid and port
  pidFile,     \* the pid in tcproxy's pid file, 0 when there is no file
  proxy,       \* the listening tcproxy: its pid and the log it writes to
  kids,        \* log |-> forked children of a tcproxy that serve a connection
  logs,        \* log |-> its length, None when there is no such file
  rows,        \* the logentry table
  \* counters of the environment
  now, lastId, lastPid, starts, crashes, faults

manager == <<record, sticky, intents, foreground>>
object  == <<svc, health, handler>>
thread  == <<pc, job>>
statics == <<logAppUID, logEntryID, logFile>>
root    == <<rules, pidFile, proxy, kids, lastPid>>
flash   == <<logs, rows>>
user    == <<now, lastId, starts, crashes>>
vars    == <<manager, inbox, object, reading, thread, statics, root, flash,
             user, faults>>

-----------------------------------------------------------------------------
(* The values the state is made of.                                        *)

Request == [uid : Apps, ports : SUBSET Ports, file : Files]

ASSUME RequestAssumption == None \notin Request

EntryID == Apps \X Nat                     \* uid + "#" + date, to the second
LogRow  == [entry : EntryID, uid : Apps, path : Files, length : Nat]
\* Everything but "start" comes from the activity manager or from stopSelf.
Lifecycle == [type : {"create", "stopSelf", "destroy"}, id : Nat,
              intent : {None}]
             \cup [type : {"args"}, id : Nat, intent : Request \cup {None}]
Message   == Lifecycle \cup [type : {"start"}, id : Nat, intent : Request]
Job     == [id : Nat, ports : SUBSET Ports, row : EntryID \cup {None}]
StartPC == {"killOld", "applyRules", "createLogEntry", "startLogger", "openLog",
            "abortLogger", "startFailed"}
StopPC  == {"removeRules", "killLogger", "updateSize"}

NoJob   == [id |-> 0, ports |-> {}, row |-> None]
NoProxy == [pid |-> 0, log |-> None]

Msg(t, id, i) == [type |-> t, id |-> id, intent |-> i]

\* The type of every variable.
TypeOK ==
  /\ record \in Nat /\ sticky \in BOOLEAN /\ intents \in Seq(Request)
  /\ foreground \in BOOLEAN
  /\ inbox \in Seq(Message)
  /\ svc \in Nat /\ health \in {"none", "noRoot", "noBinaries", "ok"}
  /\ handler \in BOOLEAN
  /\ reading \subseteq Nat
  /\ pc \in {"idle"} \cup StartPC \cup StopPC /\ job \in Job
  /\ logAppUID \in Apps \cup {None} /\ logEntryID \in EntryID \cup {None}
  /\ logFile \in Files \cup {None}
  /\ rules \subseteq Apps \X Ports
  /\ pidFile \in Nat
  /\ proxy \in [pid : Nat, log : Files \cup {None}]
  /\ kids \in [Files -> Nat]
  /\ logs \in [Files -> Nat \cup {None}]
  /\ rows \subseteq LogRow
  /\ now \in Nat /\ lastId \in Nat /\ lastPid \in Nat
  /\ starts \in Nat /\ crashes \in Nat /\ faults \in Nat

Init ==
  /\ record = 0 /\ sticky = FALSE /\ intents = <<>> /\ foreground = FALSE
  /\ inbox = <<>>
  /\ svc = 0 /\ health = "none" /\ handler = FALSE /\ reading = {}
  /\ pc = "idle" /\ job = NoJob
  /\ logAppUID = None /\ logEntryID = None /\ logFile = None
  /\ rules = {} /\ pidFile = 0 /\ proxy = NoProxy
  /\ kids = [f \in Files |-> 0]
  /\ logs = [f \in Files |-> None] /\ rows = {}
  /\ now = 0 /\ lastId = 0 /\ lastPid = 0
  /\ starts = 0 /\ crashes = 0 /\ faults = 0

-----------------------------------------------------------------------------
(* The message queue of the main thread.  A "start" message is due 100 ms  *)
(* after it was posted, so a message posted meanwhile may pass it; nothing *)
(* else passes anything.                                                   *)

Posted(m, q) ==
  {SubSeq(q, 1, k) \o <<m>> \o SubSeq(q, k + 1, Len(q)) :
     k \in {i \in 0..Len(q) : \A j \in (i + 1)..Len(q) : q[j].type = "start"}}

Settled == pc = "idle" /\ inbox = <<>>

\* The main thread takes the next message, of type t.
Takes(t) == pc = "idle" /\ inbox # <<>> /\ Head(inbox).type = t
Rest     == SubSeq(inbox, 2, Len(inbox))

\* One operation fails, as long as the bound lets it.
Fails  == faults < MaxFaults /\ faults' = faults + 1
Works  == UNCHANGED faults

-----------------------------------------------------------------------------
(* The activity manager.                                                   *)

\* It takes the record down and tells the process to destroy the service.
\* With the record goes the notification.
StopRecord(q) ==
  /\ record' = 0 /\ sticky' = FALSE /\ intents' = <<>> /\ foreground' = FALSE
  /\ inbox' \in Posted(Msg("destroy", record, None), q)

\* Service.stopSelf() of service id: only the record it belongs to is stopped,
\* whatever start requests came in since.
StopSelf(id, q) ==
  IF record = id THEN StopRecord(q) ELSE inbox' = q /\ UNCHANGED manager

\* The application process dies.  A started service comes back if it asked for
\* that or has a request left to handle; it is given those requests again, or
\* a null intent.
ProcessDies ==
  LET restarted == record # 0 /\ (sticky \/ intents # <<>>)
      again     == IF intents = <<>>
                   THEN <<Msg("args", record, None)>>
                   ELSE [i \in 1..Len(intents) |->
                           Msg("args", record, intents[i])]
  IN /\ svc' = 0 /\ health' = "none" /\ handler' = FALSE /\ reading' = {}
     /\ pc' = "idle" /\ job' = NoJob
     /\ logAppUID' = None /\ logEntryID' = None /\ logFile' = None
     /\ foreground' = FALSE
     /\ IF restarted
        THEN /\ inbox' = <<Msg("create", record, None)>> \o again
             /\ UNCHANGED <<record, sticky, intents>>
        ELSE /\ record' = 0 /\ sticky' = FALSE /\ intents' = <<>>
             /\ inbox' = <<>>

-----------------------------------------------------------------------------
(* The user.                                                               *)

MayAct == Patient => Settled

\* LogRecorderActivity.startService
UserStart ==
  /\ MayAct /\ starts < MaxStarts
  /\ starts' = starts + 1
  /\ \E req \in Request :
       /\ intents' = Append(intents, req)
       /\ IF record = 0
          THEN /\ record' = lastId + 1 /\ lastId' = lastId + 1
               /\ \E q \in Posted(Msg("create", lastId + 1, None), inbox) :
                    inbox' \in Posted(Msg("args", lastId + 1, req), q)
          ELSE /\ inbox' \in Posted(Msg("args", record, req), inbox)
               /\ UNCHANGED <<record, lastId>>
  /\ UNCHANGED <<sticky, foreground, object, reading, thread, statics, root,
                 flash, now, crashes, faults>>

\* LogRecorderActivity.stopService
UserStop ==
  /\ MayAct /\ record # 0
  /\ StopRecord(inbox)
  /\ UNCHANGED <<object, reading, thread, statics, root, flash, user, faults>>

\* The Stop action of the notification, received by KillServiceReceiver of svc
\* on the main thread.
StopFromNotification ==
  /\ MayAct /\ pc = "idle" /\ foreground /\ svc # 0 /\ health # "noRoot"
  /\ StopSelf(svc, inbox)
  /\ UNCHANGED <<object, reading, thread, statics, root, flash, user, faults>>

-----------------------------------------------------------------------------
(* onCreate and onStartCommand.                                            *)

\* onCreate.  Without root it returns before the handler is made and the
\* receiver registered; without binaries it goes on.
HandleCreate ==
  /\ Takes("create")
  /\ svc' = Head(inbox).id
  /\ \/ /\ Works /\ health' = "ok" /\ handler' = TRUE
        /\ inbox' = Rest /\ UNCHANGED manager
     \/ /\ Fails /\ health' = "noBinaries" /\ handler' = TRUE
        /\ StopSelf(Head(inbox).id, Rest)
     \/ /\ Fails /\ health' = "noRoot" /\ UNCHANGED handler
        /\ StopSelf(Head(inbox).id, Rest)
  /\ UNCHANGED <<reading, thread, statics, root, flash, user>>

\* What the activity manager notes when onStartCommand returns.
Answered(isSticky) ==
  LET m == Head(inbox)
  IN IF m.id # record
     THEN UNCHANGED <<sticky, intents>>
     ELSE /\ sticky' = isSticky
          /\ intents' = IF m.intent = None THEN intents
                        ELSE SubSeq(intents, 2, Len(intents))

\* onStartCommand returns at once.
RefuseArgs ==
  /\ Takes("args") /\ (health # "ok" \/ Head(inbox).intent = None)
  /\ inbox' = Rest
  /\ Answered(FALSE)
  /\ UNCHANGED <<record, foreground, object, reading, thread, statics, root,
                 flash, user, faults>>

\* onStartCommand reads the uid before it finds that there are no ports.
InvalidArgs ==
  /\ Takes("args") /\ health = "ok" /\ Head(inbox).intent # None
  /\ Head(inbox).intent.ports = {}
  /\ inbox' = Rest
  /\ logAppUID' = Head(inbox).intent.uid
  /\ Answered(FALSE)
  /\ UNCHANGED <<record, foreground, object, reading, thread, logEntryID,
                 logFile, root, flash, user, faults>>

\* Mistake: the uid is not stored with the rest of the request.
AcceptArgsNoUid ==
  /\ Takes("args") /\ health = "ok" /\ Head(inbox).intent # None
  /\ inbox' = Append(Rest, Msg("start", Head(inbox).id, Head(inbox).intent))
  /\ logEntryID' = <<Head(inbox).intent.uid, now>>
  /\ logFile' = Head(inbox).intent.file
  /\ Answered(TRUE)
  /\ UNCHANGED <<record, foreground, object, reading, thread, logAppUID, root,
                 flash, user, faults>>

\* onStartCommand fills the statics and posts the message that will record.
AcceptArgs ==
  LET m == Head(inbox)
  IN /\ Takes("args") /\ health = "ok" /\ m.intent # None
     /\ m.intent.ports # {}
     /\ logAppUID' = m.intent.uid
     /\ logEntryID' = <<m.intent.uid, now>>
     /\ logFile' = m.intent.file
     /\ inbox' = Append(Rest, Msg("start", m.id, m.intent))
     /\ Answered(TRUE)
     /\ UNCHANGED <<record, foreground, object, reading, thread, root, flash,
                    user, faults>>

-----------------------------------------------------------------------------
(* startRecording, run by the "start" message of service job.id, which may *)
(* be destroyed already.  It works on the ports of its own request and on  *)
(* the statics of the last one.                                            *)

\* Mistake: the file is removed before it is read.
KillByRemovedFile == pidFile' = 0 /\ UNCHANGED <<rules, proxy, kids, lastPid>>

\* killLoggerScript: kill by pid, whoever has that pid, and remove the file.
KillByPidFile ==
  /\ proxy' = IF proxy.pid = pidFile THEN NoProxy ELSE proxy
  /\ pidFile' = 0
  /\ UNCHANGED <<rules, kids, lastPid>>

\* Mistake: the reader is not told to stop.
ReadingOn(id) == reading

\* stopReading of the log reader of service id.
StoppedReading(id) == reading \ {id}

\* killLogger: nothing tells it whether the script did its work.
KillScript == \/ Works /\ KillByPidFile
              \/ Fails /\ UNCHANGED root

\* Mistake: startForeground is not called.
InBackground(id) == foreground

\* startForeground, ignored when the record of service id is gone.
InForeground(id) == foreground \/ record = id

StartRecording ==
  /\ Takes("start")
  /\ inbox' = Rest
  /\ foreground' = InForeground(Head(inbox).id)
  /\ pc' = "killOld"
  /\ job' = [id |-> Head(inbox).id, ports |-> Head(inbox).intent.ports,
             row |-> None]
  /\ UNCHANGED <<record, sticky, intents, object, reading, statics, root,
                 flash, user, faults>>

KillOld ==
  /\ pc = "killOld" /\ pc' = "applyRules"
  /\ KillScript
  /\ reading' = StoppedReading(job.id)
  /\ UNCHANGED <<manager, inbox, object, job, statics, flash, user>>

\* Mistake: the chain is not flushed before rules are added.
UnflushedRules(ports) == rules \cup ({logAppUID} \X ports)

\* The chain, flushed and given the rules of ports.
NetrecRules(ports) == {logAppUID} \X ports

\* IPTables.applyRules flushes the chain and adds one rule for each port; it
\* stops at the first command that fails.
ApplyRules ==
  /\ pc = "applyRules"
  /\ \/ /\ Works /\ pc' = "createLogEntry"
        /\ rules' = NetrecRules(job.ports)
     \/ /\ Fails /\ pc' = "startFailed"
        /\ \/ UNCHANGED rules
           \/ \E done \in SUBSET job.ports :
                done # job.ports /\ rules' = NetrecRules(done)
  /\ UNCHANGED <<manager, inbox, object, reading, job, statics, pidFile, proxy,
                 kids, lastPid, flash, user>>

\* createLogEntry: entryid is UNIQUE, and an insert that breaks it returns -1,
\* which nobody looks at.  Opening the database may throw.
CreateLogEntry ==
  /\ pc = "createLogEntry"
  /\ \/ /\ Works /\ pc' = "startLogger"
        /\ IF \E r \in rows : r.entry = logEntryID
           THEN UNCHANGED <<rows, job>>
           ELSE /\ rows' = rows \cup {[entry |-> logEntryID,
                                       uid |-> logAppUID, path |-> logFile,
                                       length |-> 0]}
                /\ job' = [job EXCEPT !.row = logEntryID]
     \/ /\ Fails /\ pc' = "startFailed" /\ UNCHANGED <<rows, job>>
  /\ UNCHANGED <<manager, inbox, object, reading, statics, root, logs, user>>

\* Mistake: the log file is left to be created by its first writer.
Untouched(file) == logs

Touched(file) == [logs EXCEPT ![file] = IF @ = None THEN 0 ELSE @]

\* The script of startLogger.  A tcproxy that cannot bind exits at once, and
\* its pid is written to the file all the same; a child keeps the listening
\* socket it was forked with.
StartLogger ==
  LET pid == lastPid + 1
      old == IF proxy.pid = pidFile THEN NoProxy ELSE proxy
  IN /\ pc = "startLogger" /\ pc' = "openLog"
     /\ \/ /\ Works
           /\ logs' = Touched(logFile)
           /\ pidFile' = pid /\ lastPid' = pid
           /\ proxy' = IF old.pid = 0 /\ \A f \in Files : kids[f] = 0
                       THEN [pid |-> pid, log |-> logFile] ELSE old
           /\ UNCHANGED <<rules, kids>>
        \/ Fails /\ UNCHANGED <<root, logs>>
     /\ UNCHANGED <<manager, inbox, object, reading, job, statics, rows, user>>

\* new LogReader() throws when there is no log file.
OpenLog ==
  /\ pc = "openLog"
  /\ IF logs[logFile] = None
     THEN pc' = "abortLogger" /\ UNCHANGED <<reading, job>>
     ELSE pc' = "idle" /\ reading' = reading \cup {job.id} /\ job' = NoJob
  /\ UNCHANGED <<manager, inbox, object, statics, root, flash, user, faults>>

AbortLogger ==
  /\ pc = "abortLogger" /\ pc' = "startFailed"
  /\ KillScript
  /\ UNCHANGED <<manager, inbox, object, reading, job, statics, flash, user>>

\* Mistake: deleteLogEntry is left out.
KeptLogEntry == rows

\* The table without the entry this start inserted.
DeletedLogEntry == {r \in rows : r.entry # job.row}

\* Mistake: the service is not stopped.
StartFailedGoesOn ==
  /\ pc = "startFailed" /\ pc' = "idle" /\ job' = NoJob
  /\ rows' = DeletedLogEntry
  /\ UNCHANGED <<manager, inbox, object, reading, statics, root, logs, user,
                 faults>>

\* The catch clause of startRecording and what handleMessage does with its
\* answer: handler is null once onDestroy ran.
StartFailed ==
  /\ pc = "startFailed"
  /\ rows' = DeletedLogEntry
  /\ IF handler
     THEN /\ pc' = "idle" /\ job' = NoJob
          /\ inbox' \in Posted(Msg("stopSelf", job.id, None), inbox)
          /\ UNCHANGED <<manager, object, reading, statics>>
     ELSE ProcessDies
  /\ UNCHANGED <<root, logs, user, faults>>

HandleStopSelf ==
  /\ Takes("stopSelf")
  /\ StopSelf(Head(inbox).id, Rest)
  /\ UNCHANGED <<object, reading, thread, statics, root, flash, user, faults>>

-----------------------------------------------------------------------------
(* onDestroy and stopRecording.                                            *)

\* unregisterReceiver throws when onCreate never registered.
HandleDestroy ==
  /\ Takes("destroy")
  /\ IF health = "noRoot"
     THEN ProcessDies
     ELSE /\ handler' = FALSE
          /\ inbox' = Rest
          /\ IF health = "ok"
             THEN pc' = "removeRules" /\ UNCHANGED <<svc, health>>
             ELSE svc' = 0 /\ health' = "none" /\ UNCHANGED pc
          /\ UNCHANGED <<manager, reading, job, statics>>
  /\ UNCHANGED <<root, flash, user, faults>>

\* Mistake: the chain is looked for in the wrong table, and nothing is flushed.
RemoveNoRules ==
  /\ pc = "removeRules" /\ pc' = "killLogger"
  /\ UNCHANGED <<manager, inbox, object, reading, job, statics, root, flash,
                 user, faults>>

RemoveRules ==
  /\ pc = "removeRules" /\ pc' = "killLogger"
  /\ \/ Works /\ rules' = {}
     \/ Fails /\ UNCHANGED rules
  /\ UNCHANGED <<manager, inbox, object, reading, job, statics, pidFile, proxy,
                 kids, lastPid, flash, user>>

KillLogger ==
  /\ pc = "killLogger" /\ pc' = "updateSize"
  /\ KillScript
  /\ reading' = StoppedReading(svc)
  /\ UNCHANGED <<manager, inbox, object, job, statics, flash, user>>

\* updateLogEntrySize: new File(null) throws; a missing file has length 0.
UpdateSize ==
  LET size == IF logs[logFile] = None THEN 0 ELSE logs[logFile]
      Saved(r) == IF r.entry = logEntryID /\ r.uid = logAppUID
                  THEN [r EXCEPT !.length = size] ELSE r
  IN /\ pc = "updateSize"
     /\ IF logFile = None
        THEN ProcessDies /\ UNCHANGED rows
        ELSE /\ rows' = {Saved(r) : r \in rows}
             /\ svc' = 0 /\ health' = "none" /\ pc' = "idle"
             /\ UNCHANGED <<manager, inbox, handler, reading, job, statics>>
     /\ UNCHANGED <<root, logs, user, faults>>

\* An exception that nobody catches takes the process down: onCreate found no
\* root or binaries and its dialog is refused, a service having no window; or
\* the database cannot be opened to delete the entry of a failed start, or to
\* save the size.
UncaughtException ==
  /\ Fails
  /\ \/ Takes("create")
     \/ pc = "startFailed" /\ job.row # None
     \/ pc = "updateSize"
  /\ ProcessDies
  /\ UNCHANGED <<root, flash, user>>

-----------------------------------------------------------------------------
(* tcproxy, and what else may happen.                                      *)

\* A redirected connection is accepted and handed to a forked child.
Connect ==
  /\ rules # {} /\ proxy.pid # 0 /\ kids[proxy.log] < MaxKids
  /\ kids' = [kids EXCEPT ![proxy.log] = @ + 1]
  /\ UNCHANGED <<manager, inbox, object, reading, thread, statics, rules,
                 pidFile, proxy, lastPid, flash, user, faults>>

KidLogs(f) ==
  /\ kids[f] > 0 /\ logs[f] < MaxSize
  /\ logs' = [logs EXCEPT ![f] = @ + 1]
  /\ UNCHANGED <<manager, inbox, object, reading, thread, statics, root, rows,
                 user, faults>>

KidExits(f) ==
  /\ kids[f] > 0
  /\ kids' = [kids EXCEPT ![f] = @ - 1]
  /\ UNCHANGED <<manager, inbox, object, reading, thread, statics, rules,
                 pidFile, proxy, lastPid, flash, user, faults>>

\* The parent tcproxy exits by itself, as it does when accept fails.
ProxyExits ==
  /\ proxy.pid # 0 /\ Fails
  /\ proxy' = NoProxy
  /\ UNCHANGED <<manager, inbox, object, reading, thread, statics, rules,
                 pidFile, kids, lastPid, flash, user>>

Tick ==
  /\ now < MaxClock /\ now' = now + 1
  /\ UNCHANGED <<manager, inbox, object, reading, thread, statics, root, flash,
                 lastId, starts, crashes, faults>>

\* The system or the user kills the application process.
Crash ==
  /\ crashes < MaxCrashes /\ crashes' = crashes + 1
  /\ svc # 0 \/ inbox # <<>>
  /\ ProcessDies
  /\ UNCHANGED <<root, flash, now, lastId, starts, faults>>

-----------------------------------------------------------------------------
User == UserStart \/ UserStop \/ StopFromNotification

MainThread ==
  \/ HandleCreate \/ RefuseArgs \/ InvalidArgs \/ AcceptArgs
  \/ StartRecording \/ KillOld \/ ApplyRules \/ CreateLogEntry \/ StartLogger
  \/ OpenLog \/ AbortLogger \/ StartFailed \/ HandleStopSelf
  \/ HandleDestroy \/ RemoveRules \/ KillLogger \/ UpdateSize
  \/ UncaughtException

Environment ==
  \/ Connect \/ ProxyExits \/ Tick \/ Crash
  \/ \E f \in Files : KidLogs(f) \/ KidExits(f)

Next == User \/ MainThread \/ Environment

Spec == Init /\ [][Next]_vars

\* The main thread goes on as long as it has something to do.  Nothing is
\* assumed of the user, of the proxied connections or of the clock.
FairSpec == Spec /\ WF_vars(MainThread)

-----------------------------------------------------------------------------
(* Safety.                                                                 *)

\* The pid file always names the listening tcproxy, whatever failed, crashed
\* or overlapped: no listener of ours is ever out of the reach of
\* killLoggerScript, which knows nothing but that file.
ProxyNamedByPidFile == proxy.pid # 0 => pidFile = proxy.pid

\* The chain never redirects two applications: applyRules flushes what an
\* earlier request, a failed one or a dead process left there.
OneAppRecorded == \A r, s \in rules : r[1] = s[1]

\* Only the live service object has a log reader running: no reader of an
\* earlier one goes on tailing its log after its onDestroy.
ReadersBelongToService == reading \subseteq {svc}

\* Nothing has failed and the process has never died.
Undisturbed == faults = 0 /\ crashes = 0

\* When the service is stopped and nothing is left to handle, nothing of the
\* recording is left either: no redirected traffic, no listener, no pid file,
\* no reader.
NothingLeftBehind ==
  Settled /\ Undisturbed /\ record = 0 =>
    /\ svc = 0 /\ rules = {} /\ reading = {}
    /\ pidFile = 0 /\ proxy = NoProxy

\* Traffic that is redirected is shown: once the main thread is idle there are
\* rules only under an ongoing notification, the only way back to a stop
\* button that does not depend on an activity being open.
RedirectIsShown == Settled /\ Undisturbed /\ rules # {} => foreground

\* A recording that is under way has its entry in the table, with the uid the
\* traffic of which is redirected, and its log file, even when onStartCommand
\* has overwritten the uid with that of an invalid request since.
RecordingIsComplete ==
  Settled /\ svc \in reading =>
    /\ rules # {} /\ \A r \in rules : r[1] = logEntryID[1]
    /\ \E e \in rows : e.entry = logEntryID /\ e.uid = logEntryID[1]
    /\ logs[logFile] # None

\* No entry is left for a recording that never got a log: the entry a failed
\* start inserted is taken back, and no other is.  A process that dies in
\* between, or a second failure, of taking it back, leaves one.
NoEntryWithoutLog ==
  Settled /\ crashes = 0 /\ faults <= 1 => \A e \in rows : logs[e.path] # None

-----------------------------------------------------------------------------
(* What the types and the first of these rest on.                          *)

StaticsSet == logAppUID \in Apps /\ logEntryID \in EntryID /\ logFile \in Files

\* The statics are set whenever startRecording runs or is about to.
StartsHaveStatics ==
  StaticsSet \/ (inbox \in Seq(Lifecycle) /\ pc \notin StartPC)

\* Whoever writes to a log has it open, and no log file is ever removed.
WritersHaveLogs ==
  /\ \A f \in Files : kids[f] > 0 => logs[f] \in Nat
  /\ proxy.pid # 0 => proxy.log \in Files /\ logs[proxy.log] \in Nat

IndInv == TypeOK /\ StartsHaveStatics /\ WritersHaveLogs

-----------------------------------------------------------------------------
(* Action properties.                                                      *)

\* onDestroy takes the listener away only after the rules: no connection of
\* the application is sent to a port that nobody serves.
RedirectGoesFirst ==
  [][(proxy # NoProxy /\ proxy' = NoProxy /\ pc = "killLogger" /\ Undisturbed)
       => rules = {}]_vars

-----------------------------------------------------------------------------
(* Liveness, under FairSpec.                                               *)

\* A service that is stopped goes away with all it set up, unless it is
\* started again or an operation fails.
StopIsComplete ==
  record = 0 ~> \/ record # 0 \/ faults # 0
                \/ svc = 0 /\ rules = {} /\ proxy = NoProxy

\* A recording that could not be started is undone, down to the rules that
\* applyRules got to add.
FailedStartIsUndone ==
  pc = "startFailed" ~> (svc = 0 /\ rules = {} /\ proxy = NoProxy)

-----------------------------------------------------------------------------
(* What the repository says of the program, and the code does not keep.    *)

\* "Stop Recording": with everything stopped and handled, no traffic is
\* redirected.
StopStops == Settled /\ record = 0 => rules = {}

\* "Recording application traffic": a recording that is shown has a tcproxy.
ShownIsRecorded == Settled /\ foreground /\ svc \in reading => proxy # NoProxy

\* "the number of rows updated (should only be one)": updateLogLength finds
\* the entry of the recording it ends.
OneRowUpdated ==
  pc = "updateSize" /\ svc # 0 /\ logEntryID # None =>
    \E e \in rows : e.entry = logEntryID /\ e.uid = logAppUID

\* "a unique identifier for the log file": a log file has one entry.
OneEntryPerLog == \A d, e \in rows : d.path = e.path => d = e
=============================================================================
