------------------------------ MODULE LogFeed -------------------------------
(***************************************************************************)
(* How one NetworkRecorderService object feeds the log to its clients.     *)
(*                                                                         *)
(* The main thread keeps the list of clients and starts and stops log      *)
(* readers; each reader is a thread that tails the log and walks through   *)
(* the list for every line.  The list is not synchronised: the threads     *)
(* interleave at every access to it.                                       *)
(*                                                                         *)
(* A client is the messenger of one bind of LogRecorderActivity.  It lives *)
(* in the same process, so that sending to it does not throw, and what it  *)
(* is sent is handled in that order.                                       *)
(***************************************************************************)
EXTENDS Integers, Sequences

CONSTANTS
  Clients,     \* messengers
  None,        \* null
  MaxReaders,  \* bound: log readers started
  MaxLines,    \* bound: lines of the log
  MaxKills,    \* bound: calls of killLogger
  MaxFaults    \* bound: reads that fail

ASSUME NoneAssumption == None \notin Clients
ASSUME BoundsAssumption == {MaxReaders, MaxLines, MaxKills, MaxFaults} \subseteq Nat

Readers == 1..MaxReaders

VARIABLES
  lines,       \* how many lines the log has
  clients,     \* the list of clients
  known,       \* messengers that have been registered
  logReader,   \* the reader last started, 0 for null
  keepReading, \* reader |-> its flag
  rpc,         \* reader |-> its next call
  pos,         \* reader |-> lines it has read
  item,        \* reader |-> the line it broadcasts, 0 for LOG_EXIT
  idx,         \* reader |-> i of its walk through the list
  feed,        \* client |-> what it was sent: pairs of reader and item
  crashed,     \* an exception that nobody catches ended the process
  kills, faults

main   == <<clients, known, logReader>>
reader == <<rpc, pos, item, idx>>
vars   == <<lines, main, keepReading, reader, feed, crashed, kills, faults>>

\* The type of every variable.
TypeOK ==
  /\ lines \in 0..MaxLines
  /\ clients \in Seq(Clients) /\ known \subseteq Clients
  /\ logReader \in 0..MaxReaders
  /\ keepReading \in [Readers -> BOOLEAN]
  /\ rpc \in [Readers -> {"none", "check", "read", "notify", "done"}]
  /\ pos \in [Readers -> 0..MaxLines] /\ item \in [Readers -> 0..MaxLines]
  /\ idx \in [Readers -> Nat \cup {-1}]
  /\ feed \in [Clients -> Seq(Readers \X (0..MaxLines))]
  /\ crashed \in BOOLEAN /\ kills \in 0..MaxKills /\ faults \in 0..MaxFaults

Init ==
  /\ lines = 0 /\ clients = <<>> /\ known = {} /\ logReader = 0
  /\ keepReading = [r \in Readers |-> FALSE]
  /\ rpc = [r \in Readers |-> "none"]
  /\ pos = [r \in Readers |-> 0] /\ item = [r \in Readers |-> 0]
  /\ idx = [r \in Readers |-> -1]
  /\ feed = [c \in Clients |-> <<>>]
  /\ crashed = FALSE /\ kills = 0 /\ faults = 0

Registered(c) == \E i \in 1..Len(clients) : clients[i] = c

\* tcproxy writes a line.
LogGrows ==
  /\ lines < MaxLines /\ lines' = lines + 1
  /\ UNCHANGED <<main, keepReading, reader, feed, crashed, kills, faults>>

-----------------------------------------------------------------------------
(* The main thread.                                                        *)

\* MSG_REGISTER_CLIENT.  The activity makes a messenger for every bind, and
\* unregisters the last one first.
Register(c) ==
  /\ ~crashed /\ clients = <<>> /\ c \notin known
  /\ clients' = Append(clients, c) /\ known' = known \cup {c}
  /\ UNCHANGED <<lines, logReader, keepReading, reader, feed, crashed, kills,
                 faults>>

\* Mistake: the entry is cleared, not removed.
Cleared(c) == [i \in 1..Len(clients) |-> IF clients[i] = c THEN None ELSE clients[i]]

\* clients.remove: without the first entry that is c.
Removed(c) ==
  LET first == CHOOSE k \in 1..Len(clients) :
                 clients[k] = c /\ \A j \in 1..(k - 1) : clients[j] # c
  IN [i \in 1..(Len(clients) - 1) |-> IF i < first THEN clients[i] ELSE clients[i + 1]]

\* MSG_UNREGISTER_CLIENT
Unregister(c) ==
  /\ ~crashed /\ Registered(c)
  /\ clients' = Removed(c)
  /\ UNCHANGED <<lines, known, logReader, keepReading, reader, feed, crashed,
                 kills, faults>>

\* startRecording has called killLogger.
Killed == \A r \in Readers : r = logReader => ~keepReading[r]

\* startLogger: a new LogReader and its thread.
StartLogger ==
  /\ ~crashed /\ Killed
  /\ \E r \in Readers :
       /\ rpc[r] = "none" /\ \A q \in 1..(r - 1) : rpc[q] # "none"
       /\ logReader' = r
       /\ keepReading' = [keepReading EXCEPT ![r] = TRUE]
       /\ rpc' = [rpc EXCEPT ![r] = "check"]
  /\ UNCHANGED <<lines, clients, known, pos, item, idx, feed, crashed, kills,
                 faults>>

\* The log does not open: there is no reader that killLogger could notify of.
StartLoggerFails ==
  /\ ~crashed /\ Killed /\ faults < MaxFaults /\ faults' = faults + 1
  /\ logReader' = 0
  /\ UNCHANGED <<lines, clients, known, keepReading, reader, feed, crashed, kills>>

\* killLogger: stopReading and notifyLogExit.  Only this thread changes the
\* list, so its own walk through it is one step.
KillLogger ==
  /\ ~crashed /\ logReader # 0 /\ kills < MaxKills /\ kills' = kills + 1
  /\ keepReading' = [keepReading EXCEPT ![logReader] = FALSE]
  /\ feed' = [c \in Clients |-> IF Registered(c)
                                THEN Append(feed[c], <<logReader, 0>>)
                                ELSE feed[c]]
  /\ UNCHANGED <<lines, main, reader, crashed, faults>>

-----------------------------------------------------------------------------
(* The thread of reader r.                                                 *)

At(r, p) == ~crashed /\ rpc[r] = p

\* Mistake: the flag is not looked at.
CheckNothing(r) ==
  /\ At(r, "check")
  /\ rpc' = [rpc EXCEPT ![r] = "read"]
  /\ UNCHANGED <<lines, main, keepReading, pos, item, idx, feed, crashed, kills,
                 faults>>

\* while (keepReading)
Check(r) ==
  /\ At(r, "check")
  /\ rpc' = [rpc EXCEPT ![r] = IF keepReading[r] THEN "read" ELSE "done"]
  /\ UNCHANGED <<lines, main, keepReading, pos, item, idx, feed, crashed, kills,
                 faults>>

\* The walk of notifyLogLine or notifyLogExit begins at clients.size() - 1.
Broadcast(r, i) ==
  /\ item' = [item EXCEPT ![r] = i]
  /\ idx' = [idx EXCEPT ![r] = Len(clients) - 1]
  /\ rpc' = [rpc EXCEPT ![r] = "notify"]

ReadLine(r) ==
  /\ At(r, "read") /\ pos[r] < lines
  /\ pos' = [pos EXCEPT ![r] = @ + 1]
  /\ Broadcast(r, pos[r] + 1)
  /\ UNCHANGED <<lines, main, keepReading, feed, crashed, kills, faults>>

\* Mistake: the end of the file ends the thread.
StopAtEnd(r) ==
  /\ At(r, "read") /\ pos[r] = lines
  /\ rpc' = [rpc EXCEPT ![r] = "done"]
  /\ UNCHANGED <<lines, main, keepReading, pos, item, idx, feed, crashed, kills,
                 faults>>

\* Mistake: the log is opened again.
ReopenAtEnd(r) ==
  /\ At(r, "read") /\ pos[r] = lines
  /\ rpc' = [rpc EXCEPT ![r] = "check"] /\ pos' = [pos EXCEPT ![r] = 0]
  /\ UNCHANGED <<lines, main, keepReading, item, idx, feed, crashed, kills,
                 faults>>

\* readLine answers null: sleep and try again.
WaitAtEnd(r) ==
  /\ At(r, "read") /\ pos[r] = lines
  /\ rpc' = [rpc EXCEPT ![r] = "check"]
  /\ UNCHANGED <<lines, main, keepReading, pos, item, idx, feed, crashed, kills,
                 faults>>

\* The reader stops itself and tells the clients.
ReadFails(r) ==
  /\ At(r, "read") /\ faults < MaxFaults /\ faults' = faults + 1
  /\ keepReading' = [keepReading EXCEPT ![r] = FALSE]
  /\ Broadcast(r, 0)
  /\ UNCHANGED <<lines, main, pos, feed, crashed, kills>>

\* clients.get(i).send, for i still in the list.
Notify(r) ==
  /\ At(r, "notify") /\ idx[r] \in 0..(Len(clients) - 1)
  /\ feed' = [feed EXCEPT ![clients[idx[r] + 1]] = Append(@, <<r, item[r]>>)]
  /\ idx' = [idx EXCEPT ![r] = @ - 1]
  /\ UNCHANGED <<lines, main, keepReading, rpc, pos, item, crashed, kills, faults>>

\* clients.get(i) throws, in a thread with no handler for it.
GetThrows(r) ==
  /\ At(r, "notify") /\ idx[r] >= Len(clients)
  /\ crashed' = TRUE
  /\ UNCHANGED <<lines, main, keepReading, reader, feed, kills, faults>>

Notified(r) ==
  /\ At(r, "notify") /\ idx[r] = -1
  /\ rpc' = [rpc EXCEPT ![r] = "check"]
  /\ UNCHANGED <<lines, main, keepReading, pos, item, idx, feed, crashed, kills,
                 faults>>

-----------------------------------------------------------------------------
Main == \/ \E c \in Clients : Register(c) \/ Unregister(c)
        \/ StartLogger \/ StartLoggerFails \/ KillLogger

Run(r) == \/ Check(r) \/ ReadLine(r) \/ WaitAtEnd(r) \/ ReadFails(r)
          \/ Notify(r) \/ GetThrows(r) \/ Notified(r)

Next == LogGrows \/ Main \/ \E r \in Readers : Run(r)

Spec == Init /\ [][Next]_vars

\* Every reader thread is scheduled.
FairSpec == Spec /\ \A r \in Readers : WF_vars(Run(r))

-----------------------------------------------------------------------------
(* Properties.                                                             *)

Occurs(c, e) == \E i \in 1..Len(feed[c]) : feed[c][i] = e

\* The i-th message to c is a line that reader r has read.
Line(c, r, i) == i \in 1..Len(feed[c]) /\ feed[c][i][1] = r /\ feed[c][i][2] # 0

\* From each reader a client gets consecutive lines: none twice and, from its
\* first one on, none left out, wherever in the walk it was registered.
LinesInOrder ==
  \A c \in Clients : \A r \in Readers : \A i, j \in 1..Len(feed[c]) :
    i < j /\ Line(c, r, i) /\ Line(c, r, j) /\ (\A k \in (i + 1)..(j - 1) : ~Line(c, r, k))
    => feed[c][j][2] = feed[c][i][2] + 1

\* After killLogger has told a client that the log is closed, the reader it
\* stopped sends that client one more line at most: the one it had in hand.
AtMostOneLate ==
  \A c \in Clients : \A i, j, k \in 1..Len(feed[c]) :
    i < j /\ j < k /\ feed[c][i][2] = 0 /\ Line(c, feed[c][i][1], j)
    => ~Line(c, feed[c][i][1], k)

\* Whatever the log grows by is shown to a client that stays registered, as
\* long as the reader is not told to stop.
LinesShown ==
  \A c \in Clients : \A r \in Readers : \A k \in 1..MaxLines :
    (Registered(c) /\ keepReading[r] /\ pos[r] < k /\ k <= lines)
      ~> (Occurs(c, <<r, k>>) \/ ~Registered(c) \/ ~keepReading[r] \/ crashed)

\* A reader that was told to stop, or failed, ends: its thread is not left
\* behind.
ReaderEnds ==
  \A r \in Readers :
    (rpc[r] # "none" /\ ~keepReading[r]) ~> (rpc[r] = "done" \/ crashed)

-----------------------------------------------------------------------------
(* What the repository says of the program, and the code does not keep.    *)

\* "This client is dead": nothing but a dead client disturbs a broadcast.
OnlyDeadClientsFail == ~crashed
=============================================================================
