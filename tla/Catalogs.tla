------------------------------ MODULE Catalogs ------------------------------
(***************************************************************************)
(* The static caches of installed applications and of logs, and the two    *)
(* lists of MainActivity that show them.                                   *)
(*                                                                         *)
(* A load is answered at once from the cache, or by a message that reads:  *)
(* the applications after 100 ms, so that several reads may be on their    *)
(* way, and the logs after the applications.  All of it runs on the main   *)
(* thread, for whatever screen asked, which may have been destroyed since. *)
(* An application is its uid; a log is the uid of its application.         *)
(***************************************************************************)
EXTENDS Naturals, Sequences, FiniteSets

CONSTANTS
  Apps,                              \* uids that may use the network
  MaxScreens, MaxReads, MaxChanges, MaxFailures  \* bounds

VARIABLES
  installed,          \* the applications the package manager lists
  rows,               \* the applications with entries in the log table
  recording,          \* the application recorded at present, or 0
  applications,       \* ApplicationHelper's array, <<>> for null, or <<set>>
  applicationLookup,  \* its map, likewise
  logs,               \* LogHelper's groups: <<>>, or <<uid |-> has an app>>
  delayed,            \* reads of the applications on their way: <<list, screen>>
  posted,             \* reads of the logs on their way: screens
  main,               \* the instance of MainActivity, 0 before the first
  resumed,            \* it is in front
  shown,              \* list |-> what it has: "empty", "list" or "error"
  crashed,            \* an exception has ended the process
  causes,             \* what may break the lists: see CrashHasCause
  spent               \* failures and changes so far

vars == <<installed, rows, recording, applications, applicationLookup, logs,
          delayed, posted, main, resumed, shown, crashed, causes, spent>>

caches  == <<applications, applicationLookup, logs>>
outside == <<installed, rows, recording>>
Null    == <<>>
IsNull(c) == c = <<>>

TypeOK ==
  /\ installed \subseteq Apps /\ rows \subseteq Apps /\ recording \in Apps \cup {0}
  /\ \A c \in {applications, applicationLookup} : IsNull(c) \/ c[1] \subseteq Apps
  /\ IsNull(logs) \/ (DOMAIN logs[1] \subseteq Apps /\ \A u \in DOMAIN logs[1] : logs[1][u] \in BOOLEAN)
  /\ delayed \in Seq({"apps", "logs"} \X (1..main)) /\ posted \in Seq(1..main)
  /\ main \in 0..MaxScreens /\ resumed \in BOOLEAN /\ crashed \in BOOLEAN
  /\ shown \in [{"apps", "logs"} -> {"empty", "list", "error"}]
  /\ causes \subseteq {"orphan", "uninstall", "failure"}
  /\ spent.failures \in 0..MaxFailures /\ spent.changes \in 0..MaxChanges

\* The process starts with the entries that earlier ones have left.
Init ==
  /\ installed = Apps /\ rows \in SUBSET Apps /\ recording = 0
  /\ applications = Null /\ applicationLookup = Null /\ logs = Null
  /\ delayed = <<>> /\ posted = <<>> /\ main = 0 /\ resumed = FALSE
  /\ shown = [l \in {"apps", "logs"} |-> "empty"]
  /\ crashed = FALSE /\ causes = {} /\ spent = [failures |-> 0, changes |-> 0]

-----------------------------------------------------------------------------
(* The lists.                                                              *)

Empty == [l \in {"apps", "logs"} |-> "empty"]

\* A group without an application has no icon, and getGroupView asks for it.
Undrawable(groups) == \E u \in DOMAIN groups : ~groups[u]

\* Mistake: the logs are read without waiting for the applications.
LoadAtOnce(i) ==
  /\ delayed' = IF IsNull(applications) THEN Append(delayed, <<"apps", i>>) ELSE delayed
  /\ posted' = IF IsNull(logs) THEN Append(posted, i) ELSE posted

\* ApplicationHelper.loadApps and LogHelper.loadLogs, for the lists of screen i.
Load(i) ==
  /\ delayed' = IF ~IsNull(applications) THEN delayed
                ELSE delayed \o <<<<"apps", i>>>>
                       \o (IF IsNull(logs) THEN <<<<"logs", i>>>> ELSE <<>>)
  /\ posted' = IF IsNull(logs) /\ ~IsNull(applications) THEN Append(posted, i) ELSE posted

\* onResume of both fragments; a new instance is made, or the one that was
\* left comes back.
Resume(i) ==
  /\ ~crashed /\ ~resumed /\ i > 0 /\ Len(delayed \o posted) < MaxReads /\ main' = i /\ resumed' = TRUE /\ Load(i)
  /\ LET before == IF i = main THEN shown ELSE Empty
     IN shown' = [before EXCEPT !["apps"] = IF IsNull(applications) THEN @ ELSE "list",
                                !["logs"] = IF IsNull(logs) THEN @ ELSE "list"]
  /\ crashed' = (~IsNull(logs) /\ Undrawable(logs[1]))
  /\ causes' = IF i # main /\ (delayed # <<>> \/ posted # <<>>)
               THEN causes \cup {"orphan"} ELSE causes
  /\ UNCHANGED <<outside, caches, spent>>

\* onPause of the list of applications takes its adapter.
Pause ==
  /\ ~crashed /\ resumed /\ resumed' = FALSE /\ shown' = [shown EXCEPT !["apps"] = "empty"]
  /\ UNCHANGED <<outside, caches, delayed, posted, main, crashed, causes, spent>>

-----------------------------------------------------------------------------
(* Messages.                                                               *)

\* Bounds.
Spend(what, max) == spent[what] < max /\ spent' = [spent EXCEPT ![what] = @ + 1]

\* A fragment of a destroyed screen has no activity: getActivity() is null.
Detached(i) == i # main

\* Mistake: the array stays as it was first read.
ReadAppsOnce ==
  /\ applications' = IF IsNull(applications) THEN <<installed>> ELSE applications
  /\ applicationLookup' = <<installed>>

\* The map is filled before the array is assigned.
ReadApps == applications' = <<installed>> /\ applicationLookup' = <<installed>>

\* The read of the applications fails before or within the loop.
ReadAppsFails ==
  /\ \/ UNCHANGED applicationLookup
     \/ \E part \in SUBSET installed : part # installed /\ applicationLookup' = <<part>>
  /\ UNCHANGED applications

HandleApps ==
  /\ ~crashed /\ delayed # <<>> /\ delayed' = Tail(delayed)
  /\ LET list == Head(delayed)[1]  i == Head(delayed)[2] IN
       \/ /\ ReadApps /\ UNCHANGED <<causes, spent>>
          /\ shown' = IF list = "apps" /\ ~Detached(i) THEN [shown EXCEPT ![list] = "list"] ELSE shown
       \/ /\ Spend("failures", MaxFailures) /\ ReadAppsFails
          /\ causes' = causes \cup {"failure"}
          /\ shown' = IF list = "apps" /\ ~Detached(i) THEN [shown EXCEPT ![list] = "error"] ELSE shown
  /\ LET list == Head(delayed)[1]  i == Head(delayed)[2] IN
       /\ crashed' = (list = "apps" /\ Detached(i))
       /\ posted' = IF list = "logs" THEN Append(posted, i) ELSE posted
  /\ UNCHANGED <<outside, logs, main, resumed>>

\* readLogs: a group for every uid, with what getAppInfo knows of it.
Groups == [u \in rows |-> ~IsNull(applicationLookup) /\ u \in applicationLookup[1]]

\* Mistake: an error is noted, and the list is not told.
LogsUntold(i) == crashed' = FALSE /\ UNCHANGED shown

LogsFailed(i) ==
  /\ crashed' = Detached(i)
  /\ shown' = IF Detached(i) THEN shown ELSE [shown EXCEPT !["logs"] = "error"]

HandleLogs ==
  /\ ~crashed /\ posted # <<>> /\ posted' = Tail(posted)
  /\ LET i == Head(posted) IN
       \/ /\ logs' = <<Groups>> /\ UNCHANGED <<causes, spent>>
          /\ shown' = IF Detached(i) THEN shown ELSE [shown EXCEPT !["logs"] = "list"]
          /\ crashed' = (~Detached(i) /\ resumed /\ Undrawable(Groups))
       \/ /\ Spend("failures", MaxFailures) /\ LogsFailed(i)
          /\ causes' = causes \cup {"failure"} /\ UNCHANGED logs
  /\ UNCHANGED <<outside, applications, applicationLookup, delayed, main, resumed>>

-----------------------------------------------------------------------------
(* Recordings, which start from a screen in front of the lists, and changes *)
(* of what is installed.                                                   *)

StartRecording(u) ==
  /\ ~crashed /\ ~resumed /\ recording = 0 /\ ~IsNull(applications) /\ u \in applications[1]
  /\ u \in installed /\ recording' = u /\ rows' = rows \cup {u}
  /\ UNCHANGED <<installed, caches, delayed, posted, main, resumed, shown, crashed,
                 causes, spent>>

\* Mistake: the list keeps the logs it had.
CacheKept == logs

\* LogHelper.clearCache
CacheCleared == Null

StopRecording ==
  /\ ~crashed /\ recording # 0 /\ recording' = 0 /\ logs' = CacheCleared
  /\ UNCHANGED <<installed, rows, applications, applicationLookup, delayed, posted,
                 main, resumed, shown, crashed, causes, spent>>

\* An application is installed or uninstalled.
Change(u) ==
  /\ ~crashed /\ Spend("changes", MaxChanges)
  /\ installed' = IF u \in installed THEN installed \ {u} ELSE installed \cup {u}
  /\ causes' = IF u \in installed THEN causes \cup {"uninstall"} ELSE causes
  /\ UNCHANGED <<rows, recording, caches, delayed, posted, main, resumed, shown, crashed>>

Next ==
  \/ \E i \in {main, main + 1} : i <= MaxScreens /\ Resume(i)
  \/ Pause \/ HandleApps \/ HandleLogs \/ StopRecording
  \/ \E u \in Apps : StartRecording(u) \/ Change(u)

\* Android runs the messages of the main thread.
Fairness == WF_vars(HandleApps) /\ WF_vars(HandleLogs)

Spec == Init /\ [][Next]_vars /\ Fairness

-----------------------------------------------------------------------------
(* Properties.                                                             *)

\* The lists end the process only for one of three reasons: a screen was
\* replaced while a read was on its way for it, an application was uninstalled
\* whose log is there, or a read failed.
CrashHasCause == crashed => causes # {}

\* The array and the map of applications are of one read, though several reads
\* may follow each other, unless one failed half way.
CatalogsAgree ==
  ~IsNull(applications) /\ "failure" \notin causes => applicationLookup = applications

\* The cached groups have every log but that of the recording under way.
LogsComplete == ~IsNull(logs) => rows \ {recording} \subseteq DOMAIN logs[1]

\* All of these: the caches are of one read and complete when they are used, and
\* using them ends the process only for a known reason.
ListsCorrect == CrashHasCause /\ CatalogsAgree /\ LogsComplete

\* A screen that stays in front gets both of its lists, or an error for them.
ListsShown ==
  resumed ~> (~resumed \/ crashed \/ \A l \in {"apps", "logs"} : shown[l] # "empty")
=============================================================================
