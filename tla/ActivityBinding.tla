-------------------------- MODULE ActivityBinding ---------------------------
(***************************************************************************)
(* How the instances of LogRecorderActivity bind to the recorder service.  *)
(*                                                                         *)
(* service, messenger, isBound and connection are static: an instance that *)
(* is on its way out, or whose delayed message has not run yet, works on   *)
(* those of its successor.  All steps are on the main thread; what they    *)
(* ask of the service or of the activity manager is answered by messages   *)
(* to the same thread.  Instances and service objects are numbered in the  *)
(* order they are made; messengers, and the dispatchers that the framework *)
(* keeps for the connection of each context, by the bind that made them.   *)
(***************************************************************************)
EXTENDS Naturals, Sequences, FiniteSets, SequencesExt

CONSTANTS
  MaxActivities,  \* bound: instances of LogRecorderActivity
  MaxBinds,       \* bound: calls of bindService
  MaxServices     \* bound: service objects

VARIABLES
  opened,      \* how many instances there were
  screen,      \* the instance on screen, or 0
  finishing,   \* instances that left the screen, with onDestroy to come
  delayed,     \* messages with a delay of 100 ms: <<kind, instance>>
  inbox,       \* the other messages of the main thread
  service, messenger, isBound,  \* the statics, 0 for null
  owner,       \* messenger |-> the instance whose handler it is
  dispatcher,  \* instance |-> its dispatcher and the service that has connected
  conns,       \* connection records: pairs of dispatcher and service object
  record,      \* the running service object, or 0
  objects,     \* how many there were
  clients,     \* the messengers registered at the running service
  late,        \* an instance was left before the messages for it had run
  overlapped   \* one was opened before onDestroy of another

screens  == <<opened, screen, finishing>>
statics  == <<service, messenger, isBound, owner>>
bindings == <<dispatcher, conns>>
services == <<record, objects, clients>>
history  == <<late, overlapped>>
vars     == <<screens, delayed, inbox, statics, bindings, services, history>>

Activities == 1..MaxActivities
Numbers    == 0..MaxBinds
Objects    == 0..MaxServices
Unbound    == [id |-> 0, has |-> 0]

\* The type of every variable.
TypeOK ==
  /\ opened \in 0..MaxActivities /\ screen \in 0..opened
  /\ finishing \subseteq 1..opened
  /\ delayed \in Seq({"resume", "record", "start"} \X Activities)
  /\ inbox \in Seq(({"bind"} \X Objects)
                     \cup ({"connected"} \X Numbers \X Objects)
                     \cup ({"register", "unregister"} \X Objects \X Numbers))
  /\ service \in Objects /\ messenger \in Numbers /\ isBound \in BOOLEAN
  /\ owner \in [1..messenger -> Activities]
  /\ dispatcher \in [Activities -> [id : Numbers, has : Objects]]
  /\ conns \subseteq Numbers \X Objects
  /\ objects \in Objects /\ record \in {0, objects} /\ clients \in Seq(Numbers)
  /\ late \in BOOLEAN /\ overlapped \in BOOLEAN

Init ==
  /\ opened = 0 /\ screen = 0 /\ finishing = {} /\ delayed = <<>> /\ inbox = <<>>
  /\ service = 0 /\ messenger = 0 /\ isBound = FALSE /\ owner = <<>>
  /\ dispatcher = [a \in Activities |-> Unbound] /\ conns = {}
  /\ record = 0 /\ objects = 0 /\ clients = <<>> /\ late = FALSE /\ overlapped = FALSE

-----------------------------------------------------------------------------
(* bindService and unbindService of instance a, called within an action.   *)

\* unbindService(connection) is refused, which is ignored, on a context that
\* has not bound.
Dropped(a) == [dispatcher EXCEPT ![a] = Unbound]
Without(a) == {c \in conns : c[1] # dispatcher[a].id}

\* Mistake: the connection is given up and the messenger is not.
NotUnregistering == <<>>

Unregistering ==
  IF isBound /\ service # 0 THEN <<<<"unregister", service, messenger>>>> ELSE <<>>

UnbindService(a) ==
  /\ inbox' = inbox \o Unregistering /\ isBound' = FALSE
  /\ dispatcher' = IF isBound THEN Dropped(a) ELSE dispatcher
  /\ conns' = IF isBound THEN Without(a) ELSE conns
  /\ UNCHANGED <<service, messenger, owner>>

\* bindService, to the service object n.
BindService(a, n) ==
  LET new == isBound \/ dispatcher[a].id = 0
      id  == IF new THEN messenger + 1 ELSE dispatcher[a].id
  IN /\ messenger < MaxBinds
     /\ messenger' = messenger + 1 /\ owner' = Append(owner, a)
     /\ dispatcher' = IF new THEN [dispatcher EXCEPT ![a] = [id |-> id, has |-> 0]]
                      ELSE dispatcher
     /\ conns' = (IF isBound THEN Without(a) ELSE conns) \cup {<<id, n>>}
     /\ inbox' = inbox \o Unregistering \o <<<<"bind", n>>>>
     /\ isBound' = FALSE /\ UNCHANGED service

\* startService: the service is there, or a new object is made.
StartService(a) ==
  \/ record # 0 /\ BindService(a, record) /\ UNCHANGED services
  \/ /\ record = 0 /\ objects < MaxServices
     /\ objects' = objects + 1 /\ record' = objects + 1 /\ clients' = <<>>
     /\ BindService(a, objects + 1)

\* The activity manager tells the connections S, in any order, that their service
\* is n, or 0.
Tell(S, n) ==
  {[i \in DOMAIN to |-> <<"connected", to[i], n>>] : to \in SetToSeqs({c[1] : c \in S})}

-----------------------------------------------------------------------------
(* Instances come and go.                                                  *)

\* Bound: every delayed message may bind once.
MayPost == Len(delayed) + messenger < MaxBinds

\* onCreate, for a new recording or for what runs, posts a delayed message.
Open ==
  /\ screen = 0 /\ opened < MaxActivities /\ MayPost
  /\ opened' = opened + 1 /\ screen' = opened + 1
  /\ \E kind \in {"resume", "record"} :
       delayed' = Append(delayed, <<kind, opened + 1>>)
  /\ overlapped' = (overlapped \/ finishing # {})
  /\ UNCHANGED <<finishing, inbox, statics, bindings, services, late>>

Settled == delayed = <<>> /\ inbox = <<>>
LeftEarly == late' = (late \/ ~Settled) /\ UNCHANGED overlapped

\* The user leaves.  onDestroy comes when the next screen is idle.
Finish ==
  /\ screen # 0 /\ screen' = 0 /\ finishing' = finishing \cup {screen}
  /\ LeftEarly
  /\ UNCHANGED <<opened, delayed, inbox, statics, bindings, services>>

\* Mistake: only the connection is given up.
OnDestroyForgets(a) ==
  /\ dispatcher' = Dropped(a) /\ conns' = Without(a) /\ isBound' = FALSE
  /\ UNCHANGED <<inbox, service, messenger, owner>>

\* onDestroy, after which the framework drops a connection that was left.
OnDestroy(a) ==
  /\ inbox' = inbox \o Unregistering /\ isBound' = FALSE
  /\ dispatcher' = Dropped(a) /\ conns' = Without(a)
  /\ UNCHANGED <<service, messenger, owner>>

Destroy(a) ==
  /\ a \in finishing /\ finishing' = finishing \ {a} /\ OnDestroy(a)
  /\ UNCHANGED <<opened, screen, delayed, services, history>>

\* A change of configuration: onDestroy, then onCreate of a new instance that
\* is restored and asks for no new recording.
Rotate ==
  /\ screen # 0 /\ opened < MaxActivities /\ MayPost
  /\ opened' = opened + 1 /\ screen' = opened + 1 /\ OnDestroy(screen)
  /\ delayed' = Append(delayed, <<"resume", opened + 1>>)
  /\ LeftEarly
  /\ UNCHANGED <<finishing, services>>

\* The toggle is switched on: onAppHeaderToggleClicked.
ToggleOn ==
  /\ screen # 0 /\ MayPost
  /\ delayed' = Append(delayed, <<"start", screen>>)
  /\ UNCHANGED <<screens, inbox, statics, bindings, services, history>>

\* The toggle is switched off and the question answered: unbindService, then
\* stopService, whose end all remaining connections are told.
ToggleOff ==
  /\ screen # 0 /\ record # 0 /\ record' = 0 /\ clients' = <<>>
  /\ \E told \in Tell(IF isBound THEN Without(screen) ELSE conns, 0) :
       inbox' = inbox \o Unregistering \o told
  /\ dispatcher' = IF isBound THEN Dropped(screen) ELSE dispatcher
  /\ conns' = {} /\ isBound' = FALSE
  /\ UNCHANGED <<screens, delayed, service, messenger, owner, objects, history>>

\* The service stops itself, or from its notification.
ServiceStops ==
  /\ record # 0 /\ record' = 0 /\ clients' = <<>>
  /\ \E told \in Tell(conns, 0) : inbox' = inbox \o told
  /\ conns' = {}
  /\ UNCHANGED <<screens, delayed, statics, dispatcher, objects, history>>

-----------------------------------------------------------------------------
(* Messages of the main thread.                                            *)

Delayed(kind) == delayed # <<>> /\ Head(delayed)[1] = kind /\ delayed' = Tail(delayed)

\* The message posted by onCreate, for an instance that shows what runs.
HandleResume ==
  /\ Delayed("resume")
  /\ \/ record # 0 /\ BindService(Head(delayed)[2], record)
     \/ record = 0 /\ UNCHANGED <<inbox, statics, bindings>>
  /\ UNCHANGED <<screens, services, history>>

\* The same message, for a new recording.
HandleRecord ==
  /\ Delayed("record")
  /\ \/ record # 0 /\ UnbindService(Head(delayed)[2]) /\ UNCHANGED services
     \/ record = 0 /\ StartService(Head(delayed)[2])
  /\ UNCHANGED <<screens, history>>

\* The message posted by the toggle.
HandleStart ==
  /\ Delayed("start") /\ StartService(Head(delayed)[2])
  /\ UNCHANGED <<screens, history>>

Handles(what) == inbox # <<>> /\ Head(inbox)[1] = what

\* onBind, and the answer to every connection of the service.
HandleBind ==
  /\ Handles("bind")
  /\ LET n == Head(inbox)[2]
     IN \E told \in Tell({c \in conns : c[2] = n}, n) : inbox' = Tail(inbox) \o told
  /\ UNCHANGED <<screens, delayed, statics, bindings, services, history>>

\* The instances whose dispatcher listens to the message at the head: it was
\* not dropped and does not have that service already.
Listeners ==
  {a \in Activities : dispatcher[a].id = Head(inbox)[2]
                      /\ dispatcher[a].has # Head(inbox)[3]}

NotHeard ==
  /\ Handles("connected") /\ Listeners = {} /\ inbox' = Tail(inbox)
  /\ UNCHANGED <<screens, delayed, statics, bindings, services, history>>

\* Mistake: the client is not registered.
ConnectedUnregistered ==
  /\ Handles("connected")
  /\ LET n == Head(inbox)[3] IN \E a \in Listeners :
       /\ n # 0 /\ service' = n /\ isBound' = TRUE
       /\ dispatcher' = [dispatcher EXCEPT ![a].has = n]
       /\ inbox' = Tail(inbox)
  /\ UNCHANGED <<screens, delayed, messenger, owner, conns, services, history>>

\* onServiceConnected registers whatever the static messenger is by now.
OnServiceConnected ==
  /\ Handles("connected")
  /\ LET n == Head(inbox)[3] IN \E a \in Listeners :
       /\ n # 0 /\ service' = n /\ isBound' = TRUE
       /\ dispatcher' = [dispatcher EXCEPT ![a].has = n]
       /\ inbox' = Append(Tail(inbox), <<"register", n, messenger>>)
  /\ UNCHANGED <<screens, delayed, messenger, owner, conns, services, history>>

\* Mistake: the binding is taken for one that lasts.
DisconnectedBound ==
  /\ Handles("connected") /\ Head(inbox)[3] = 0
  /\ \E a \in Listeners : dispatcher' = [dispatcher EXCEPT ![a].has = 0]
  /\ inbox' = Tail(inbox)
  /\ UNCHANGED <<screens, delayed, service, isBound, messenger, owner, conns, services,
                 history>>

OnServiceDisconnected ==
  /\ Handles("connected") /\ Head(inbox)[3] = 0
  /\ \E a \in Listeners : dispatcher' = [dispatcher EXCEPT ![a].has = 0]
  /\ service' = 0 /\ isBound' = FALSE /\ inbox' = Tail(inbox)
  /\ UNCHANGED <<screens, delayed, messenger, owner, conns, services, history>>

\* A destroyed service object keeps a list that nobody reads.
Registered   == Append(clients, Head(inbox)[3])
Unregistered == RemoveFirst(clients, Head(inbox)[3])

\* MSG_REGISTER_CLIENT
HandleRegister ==
  /\ Handles("register") /\ inbox' = Tail(inbox)
  /\ clients' = IF Head(inbox)[2] = record THEN Registered ELSE clients
  /\ UNCHANGED <<screens, delayed, statics, bindings, record, objects, history>>

\* MSG_UNREGISTER_CLIENT
HandleUnregister ==
  /\ Handles("unregister") /\ inbox' = Tail(inbox)
  /\ clients' = IF Head(inbox)[2] = record THEN Unregistered ELSE clients
  /\ UNCHANGED <<screens, delayed, statics, bindings, record, objects, history>>

Handle == \/ HandleResume \/ HandleRecord \/ HandleStart
          \/ HandleBind \/ NotHeard \/ OnServiceConnected \/ OnServiceDisconnected
          \/ HandleRegister \/ HandleUnregister

Next == \/ Open \/ Finish \/ Rotate \/ ToggleOn \/ ToggleOff \/ ServiceStops
        \/ \E a \in Activities : Destroy(a)
        \/ Handle

Spec == Init /\ [][Next]_vars

-----------------------------------------------------------------------------
(* Properties.                                                             *)

\* At rest, an activity that takes itself for bound is registered at the
\* service object that runs, whatever was stopped, started, left or rotated in
\* between: onServiceDisconnected never forgets a binding that is newer.
BoundIsRegistered == Settled /\ isBound => service = record /\ messenger \in Range(clients)

\* The service never has two clients, so that no line is shown twice, unless
\* an instance was left before its messages had run: then the connections of
\* the old and of the new context both register the new messenger.
OneRegistered == ~late => Len(clients) <= 1

\* At rest, every messenger at the service can still be unregistered: it is the
\* static one, and isBound says so.  Otherwise lines go to a dead screen.
NoneForgotten ==
  ~late /\ Settled => \A c \in Range(clients) : isBound /\ c = messenger

\* At rest, an instance on screen whose connection is up gets the lines, unless
\* onDestroy of its predecessor came after it had been opened and unregistered
\* the static messenger.
ScreenIsFed ==
  ~late /\ ~overlapped /\ Settled /\ record # 0 /\ screen # 0
    /\ dispatcher[screen].has = record
    => \E c \in Range(clients) : owner[c] = screen

\* All of these: the two static fields, the list of the service and the screen
\* never disagree at rest but for the two ways in which the code lets them.
RegistrationsAgree == BoundIsRegistered /\ OneRegistered /\ NoneForgotten /\ ScreenIsFed
=============================================================================
