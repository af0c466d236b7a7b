# Network Recorder: a TLA+ verification project

Network Recorder is an Android application that records the TCP traffic of one
installed application. With root rights it redirects the application's
connections to a small proxy, `tcproxy`, which forwards every byte and appends a
hex dump of it to a log file; the screen tails that file.

This directory holds TLA+ models of the program, TLC configurations that check
them on small instances, and TLAPS proofs of theorems about them. In what
follows `P` is `Network Recorder/src/main/java/com/blacksmithlabs/networkrecorder`.

## 1. Inventory

| Component | Source | State | Operations | Modelled in |
|---|---|---|---|---|
| Recorder service | `P/NetworkRecorderService.java` | `instance`, `handler`, the statics of the last request, `hasRoot`, `hasBinaries`, `logReader`; pid file and log files | `onCreate`, `onStartCommand`, the delayed message, `startRecording`, `onDestroy`, `stopRecording`, the notification's receiver | `RecorderService` |
| Log feed | `P/NetworkRecorderService.java` (303-420) | `clients`, `keepReading` and position of each reader thread | register, unregister, read a line, broadcast, `killLogger` | `LogFeed` |
| Connection pump | `jni/tcproxy/tcproxy.cpp` (139-287) | two buffers with offsets, two sockets | write, select, read, log | `TcProxyPump`, `TappedStream`, `HexDump` |
| Accept loop | `tcproxy.cpp` (41-137, 294-346) | listening socket, descriptors, children | bind, accept, connect, fork, reap | `TcProxyServer`; the kill by the service in `RecorderService` |
| Redirect rules | `P/helpers/IPTables.java` | the `netrec` chain of the kernel | `applyRules`, `removeRules` | as one call in `RecorderService`, command by command in `NatTable` |
| Log entry table | `P/db/LogEntryDatabase.java` | table `logentry` | create, delete, update length, queries | writes in `RecorderService`, the query in `Catalogs` |
| Recorder activity | `P/LogRecorderActivity.java` | static binding (`service`, `messenger`, `isBound`), the request | start, stop, bind, unbind, show lines | `ActivityBinding`; its requests in `RecorderService`, its lines in `LogFeed` |
| Script runner, binaries | `P/helpers/SysUtils.java`, `ShellCommand.java` | script files, installed binaries | `executeScript`, `installBinaries` | `ScriptRunner`, `BinaryInstall`; as calls that work or fail in `RecorderService` |
| Catalogs | `P/helpers/LogHelper.java`, `ApplicationHelper.java` | static caches | load, clear, delete | `Catalogs` |
| Settings screen | `P/LogSettingsActivity.java` | port selectors | add, remove, restore, filter input | `PortSelectors`, `PortInput` |
| List screens | `P/fragments/*`, `MainActivity`, `ViewLogActivity` | views | ask for lists, sort, show | partly, in `Catalogs` |
| iptables | `jni/iptables` | a copy of a table of the kernel | read, edit, commit | partly: `ChainIndex`, `NatTable` |
| grep, build files, resources | `jni/grep`, `src/main/res`, ... | - | - | not modelled |

How they interact. The activity calls `startService`/`stopService`; the activity
manager turns these into messages on the main thread of the application's
process. The service's `onStartCommand` fills *static* fields and posts a message
that is handled 100 ms later and records: it kills an old tcproxy by its pid
file, applies the iptables rules, inserts a table row, starts tcproxy and a
reader thread. All scripts run synchronously on the main thread. The reader
thread broadcasts lines to the activity's messenger. Rules, tcproxy, its
children and the pid file belong to root and survive the application's process;
the table and the logs are on flash.

What is hard here:

* *ordering and stale state*: everything between a request and its delayed
  message (another request, a stop, a destroy) acts on shared statics;
* *partial failure*: most scripts' outcomes are ignored, and a start has seven
  steps to undo;
* *crash recovery*: the process dies, rules and tcproxy do not, and
  `START_STICKY` brings the service back with a null intent;
* *threads*: the reader threads and the main thread share the client list and
  `keepReading` without synchronisation;
* *buffers*: the pump never blocks in a write, so partial writes, full buffers
  and half-closed ends meet in one loop.

* *what another program does*: every iptables command writes back a whole table
  that another program may have changed since it was read.

What makes each component correct. *Service*: what is redirected has a listener
that can be found again, an entry, a log and a visible notification; stopping
undoes all of it, and so does a failed start. *Log feed*: lines in order,
nothing lost for a client that stays, readers end. *Pump*: the bytes arrive and
are logged as they were sent; only real ends end it; a stalled direction does
not stop the other. *Accept loop*: one child per connection, no descriptor
leaked, no exit for a connection's sake. *Rules*: one application, OUTPUT linked
once. *Table and catalogs*: what is shown is what the table and the disk hold.
*Activity*: the bound instance is the registered one. *Binaries*: what is used
is complete and executable. *Settings*: the ports recorded are those on screen.

`PROJECT.json` lists the hazards line by line, with the properties that cover
each.

## 2. Modules

### RecorderService

One module for the service and the world it drives, since its hazards lie in
their interplay.

| State | Code |
|---|---|
| `record`, `sticky`, `intents`, `foreground` | the activity manager's service record: started or not, the last answer of `onStartCommand`, unhandled requests, the ongoing notification |
| `inbox` | the main thread's message queue. Messages keep their order, but a `start` message is due 100 ms after it was posted and may be overtaken (`Posted`) |
| `svc`, `health`, `handler` | the service object between `onCreate` and the end of `onDestroy`, what it found, and the static `handler` |
| `pc`, `job` | the next call inside the message that is being handled, its ports and the row it inserted |
| `logAppUID`, `logEntryID`, `logFile` | the statics of the same names |
| `reading` | services whose `logReader` has `keepReading = true` |
| `rules`, `pidFile`, `proxy`, `kids` | the `netrec` chain, tcproxy's pid file, the listening tcproxy, its forked children per log |
| `logs`, `rows` | the log files with their length, and the table |

Each action is one message handler, or one call of a handler that runs a script
or touches the table or a file: `HandleCreate` (`onCreate`), `RefuseArgs`,
`InvalidArgs` and `AcceptArgs` (`onStartCommand`), `StartRecording`, `KillOld`,
`ApplyRules`, `CreateLogEntry`, `StartLogger`, `OpenLog`, `AbortLogger`,
`StartFailed` (`startRecording` and its catch clause), `HandleStopSelf`,
`HandleDestroy`, `RemoveRules`, `KillLogger`, `UpdateSize` (`onDestroy`). Between
two of them the user, tcproxy and its children, the clock and crashes act. A
failure (`Fails`) is allowed wherever a script, an insert, an open or a creation
may fail; `UncaughtException` and the null statics of a restarted process
(`UpdateSize`) end in `ProcessDies`. A tcproxy that finds its port taken exits,
and its pid is written to the pid file all the same; a child keeps the
listening socket it was forked with (`StartLogger`).

`Patient` says how the user behaves: a patient one acts only when the main
thread is idle and has no message left, an impatient one at any time.

### LogFeed

One service object's client list and its reader threads. The main thread's
handlers (`Register`, `Unregister`, `StartLogger`, `KillLogger`) are atomic as
far as the list goes, since only that thread changes it; a reader interleaves at
every access: the test of `keepReading`, `readLine`, `size()`, each `get(i)`. A
line is its number; `feed[c]` is what client `c` was sent, `0` standing for
`MSG_BROADCAST_LOG_EXIT`. Clients live in the service's own process, so that
`send` does not throw `RemoteException`; at most one is registered at a time, as
`LogRecorderActivity` unregisters the last messenger before it binds a new one.
`keepReading` is not volatile; the model lets a reader see it at its next test.

### TappedStream, TcProxyPump

`TappedStream` is the abstract promise of one proxied connection: in each
direction the bytes arrive in order and without gaps until the connection is
cut, and the tape has what arrived. `TcProxyPump` is `service_client`: the loop
write C>S, write S>C, select, read C>S, read S>C with both buffers and their
offsets, partial and blocked writes, the `memmove` of the rest, EINTR and errors
of select. The two ends send, shut down, close or stop receiving whenever they
like. Bytes are numbered, so that a lost, repeated or swapped byte shows.
`TapsStream` says that the pump implements `TappedStream`, with `delivered <-
out`, `tape <- log`, `open <- (pc # "exited")`. What the buffers hold when one
end closes is dropped: the code does so, and `TappedStream` allows a cut at any
point. Writes to the log are taken to succeed.

### TcProxyServer

The parent process of tcproxy. `pc` is its next call in the loop of `main`
(`accept`, `create_proxy`, `fork`, `close`), `client` and `server` are its
locals; `fds` holds the descriptors of the parent and of each child, a child
being named after its connection. `Accept` is `wait_for_connection`,
`Connected`, `NotConnected` and `NoDestination` are the three ends of
`create_proxy`, `Fork` copies the parent's descriptors to the child, `Close` is
the end of the loop. An `accept` that fails hands -1 to `set_nonblock`, which
exits (`AcceptFails`, `OutOfDescriptors`). A descriptor is named after what it
was opened for, so that one that stays open shows. `sigreap` runs between two
calls of the parent (`Interrupt`, `Wait`, `Return`), SIGCHLD is one pending bit.

`create_proxy` answers 0 when it cannot tell the destination, and `main` takes 0
for a socket: the child then serves stdin and the parent closes it
(`NoDestination`). After that 0 could name another socket; a second failure of
that kind is left out. So are SIGINT, which nothing sends, and the service's
kill, which is in `RecorderService`.

### ActivityBinding

`service`, `messenger`, `isBound` and the connection of `LogRecorderActivity` are
static, and its instances overlap: a successor is on screen before `onDestroy` of
the one that was left has run, and a start binds only in a message delayed by
100 ms. Instances, binds and service objects are numbered; `dispatcher` and
`conns` are what the framework keeps of a `bindService`, `record`, `objects` and
`clients` the service and the messengers registered with it. Two variables
remember the two ways in which the statics go wrong, so that `RegistrationsAgree`
can say that there are no others: `late` (an instance was left before the messages
for it had run) and `overlapped` (opened before `onDestroy` of another).

### NatTable, ChainIndex

Every line of the scripts of `IPTables` is a process: it reads the nat table
(`TC_INIT`), edits the copy, and writes back entries and counters in two calls
(`TC_COMMIT`). `NatTable` runs the two scripts line by line with failing lines,
packets that count, and another program that edits the same table between any
two of those calls. The kernel refuses a table only for its number of entries, so
that a change of equal length is overwritten; `collided` remembers it.

`ChainIndex` is libiptc's index of the chains: a sorted circular list, an array
of pointers to the first chain of each bucket, the binary search, the moved or
rebuilt pointers on creation, deletion and renaming. `FindsExactly` compares its
search with a walk through the list.

### Catalogs

The static caches of `ApplicationHelper` and `LogHelper` with the messages that
fill them, shared by successive instances of `MainActivity`: reads that follow
each other, reads that fail half way, answers for a screen that is gone,
applications that are installed or removed and entries that are made or deleted
meanwhile. `causes` names what the code has no answer to.

### BinaryInstall, ScriptRunner

`BinaryInstall` is `installBinaries` buffer by buffer with every call failing and
the process dying in between, and updates of the application. `ScriptRunner` is
`ShellCommand` with its two callers: `executeScript` asks whether there is output
before it reads a line, `applyRules` reads at once. The script blocks on a full
pipe, and what it leaves in the background keeps the pipe open.

### PortSelectors, PortInput, HexDump

`PortSelectors` has the activity's list of selectors, the fragments that the
framework keeps across a restore and the tags that connect the two;
`PortInput` the length and range filters applied to any edit of the text;
`HexDump` the two moving write positions of `write_hex`.

### MC modules and proofs

`MCRecorderService` and `MCLogFeed` extend their modules for TLC,
`MCTcProxyPump` gives the pump its bytes; `TcProxyServer` needs none.
`Parts` puts the nine smaller modules side by side: `part` chooses one of them, and
the variables of the others keep their initial values. They share no state, so
nothing is lost by not interleaving them. `MCParts` gives it its constants.

A module `...Proofs` holds the theorems about the module before its suffix;
`PartsProofs` proves its theorems of `Parts`, from lemmas on the module of each
part; those on `ActivityBinding` and `NatTable`, the longest, have
`ActivityBindingProofs` and `NatTableProofs` to themselves. `PartsProofs` takes
these by INSTANCE and shows that every step of the part is a step there.
`SequenceLemmas` holds what several of them need of sequences and numbers. Definitions marked *Mistake* are deliberately wrong variants of the
definition that follows them; exchanging the two must break the property that
`PROJECT.json` pairs them with.

## 3. What is model-checked

Runs that pass:

| Run | Question | Bounds |
|---|---|---|
| `RecorderPatient` | `ReadersBelongToService`, `RecordingIsComplete` under failures and a crash; `NothingLeftBehind`, `RedirectIsShown`, `RedirectGoesFirst` as long as nothing has failed | 2 applications, 2 ports, 2 logs, 3 requests, 2 failures, 1 crash, 1 connection per log, 2 seconds |
| `RecorderImpatient` | types, `StartsHaveStatics`, `ProxyNamedByPidFile`, `OneAppRecorded`, `NoEntryWithoutLog` whatever the user does | 2 applications, 1 port, 2 logs, 2 requests, 1 failure, 1 crash |
| `RecorderUndoes` | liveness: `StopIsComplete`, `FailedStartIsUndone` | 2 applications, 3 requests, 1 failure, no crash |
| `TcProxyPump` | types (no buffer overrun), `BytesInOrder`, `ExitHasCause`, refinement of `TappedStream`, liveness `Forwarded` | buffers of 2 bytes, 3 bytes one way and 1 the other, 1 hindered call, 1 failure |
| `LogFeed` | `LinesInOrder`, `AtMostOneLate`, liveness `LinesShown`, `ReaderEnds` | 2 clients, 2 readers, 2 lines, 1 `killLogger`, 1 failing read |
| `TcProxyServer` | types and the limit of descriptors, `HeldByOwnChild`, `KeepsFailedOnly`, `ExitHasReason`, liveness `Answered`, `ZombiesReaped` | 4 connections, 3 descriptors, 1 failing call |
| `Parts` | the nine modules of `Parts`: types, and for each what its name says below | see the next table |

| Part of `Parts` | Properties | Bounds |
|---|---|---|
| `ActivityBinding` | `RegistrationsAgree` | 2 instances, 3 binds, 2 service objects |
| `ChainIndex` | `IndexFindsChains` | names 1 to 8, buckets of 2, 1 insertion before a rebuild |
| `NatTable` | `ScriptsWork`, `CommitsMerge` | 2 scripts, ports 80 and 443 of one application, 80 of another, 1 failure, 2 foreign edits, 1 packet |
| `Catalogs` | `ListsCorrect`, liveness `ListsShown` | 2 applications, 2 screens, 2 reads on their way, 1 change, 1 failure |
| `BinaryInstall` | `InstallCorrect` | 3 versions of 2, 3 and 2 buffers, 2 failures, 1 restart |
| `ScriptRunner` | `HeldWithinLine`, liveness `ScriptAwaited` | all scripts of up to 4 steps, a pipe of 2 pieces |
| `PortSelectors` | `SelectorsAgree` | 4 selectors, 2 restores |
| `PortInput` | `DigitsOfPort` | keys 0, 5 and 9, pastes of up to 2 digits, the 5 digits of the layout |
| `HexDump` | `DumpFits` | writes of 1 to 25 bytes: three full lines and one |

Why these bounds. Two applications, ports and logs make requests differ in each
of their parts. Two requests let one arrive at any point of another, three let a
stopped and restarted service be disturbed by a third. One connection per log is
enough to keep a socket and to write; further ones do the same. One failure
reaches every error path, the second one fails in the undoing of the first. With
a 2-byte buffer and 3 bytes a partial write is followed by a refill behind what
is left, and a buffer is full, empty and in between. Two readers let an old
thread outlive its stop beside a new one. With 3 descriptors two unreachable
servers use up what the parent has, and a third connection is in the queue when
it exits; four connections are more than could be served if a descriptor of a
served one leaked.

Two instances of the activity overlap in every way, and three binds let each of
them bind and one bind again. Eight chains with buckets of two give four buckets,
so that pointers before, in and behind the one that changes exist. Two scripts
let one find what any other has left. Versions one and three of a binary have the
same length, which is what the code cannot tell apart. `0`, `5` and `9` make
texts below, at and above 65535 in each position.

The properties with `Undisturbed` (or a count of failures or crashes) in them
are honest about what the code promises: scripts' outcomes are ignored, so with
a failure rules may stay, and a process that dies leaves them until the next
start. What holds *then* is said by the properties without it:
`ProxyNamedByPidFile`, `OneAppRecorded`, `RecordingIsComplete`,
`FailedStartIsUndone`.

Fairness. `RecorderService`: weak fairness of the main thread's actions taken
together: the looper runs while it has messages, and scripts are waited for.
Nothing is assumed of the user, of connections, of the clock. `LogFeed`: weak
fairness of each reader thread, which the VM schedules. `TcProxyPump`: weak
fairness of the process's own steps, justified by select's timeout: it never waits
for ever; interrupts and failures are not forced to happen.
Nothing is assumed of the two ends. `TcProxyServer`: weak fairness of the
parent's own steps; it is a running process, and a blocking `connect` ends by
TCP's own timeout. No child has to end and no call to fail. `Catalogs`: weak
fairness of the two posted reads, which the looper handles. `ScriptRunner`: weak
fairness of the script and of the thread that waits for it, two running
processes; a program in the background owes nothing.

Deadlock is not checked: a stopped service, an exited process and a finished
thread are proper ends.

Runs that find a disagreement (each is a finding in `PROJECT.json`):

| Run | What the repository says | What happens |
|---|---|---|
| `RecorderZombie` | "Are you sure you want to stop recording?" | A stop within 100 ms of a start is overtaken by the delayed message, which then records for a destroyed service: rules and tcproxy stay, without a notification |
| `RecorderPort` | "Recording application traffic" | A connection that outlives its recording keeps the listening socket; the next tcproxy cannot bind, exits, and nothing notices |
| `RecorderRows` | "the number of rows updated (should only be one)" | An invalid request overwrites the uid before it is refused; the recording's length is then saved to no row |
| `RecorderSameLog` | "a unique identifier for the log file" | Two recordings started from one activity make two entries for one log file |
| `FeedCrash` | "This client is dead" is all a broadcast expects | A client that unregisters between `size()` and `get(i)` makes the reader thread throw, which kills the process and leaves the recording on |

## 4. What is proved

All theorems hold for every value of the constants: any sets of applications,
ports, files and clients, any scripts, any lengths, any buffer size and limit of
descriptors, any number of screens, activities and selectors, any names of chains
and size of a bucket, any keys and pastes. Of the bounds only those of `LogFeed`
and of the smaller parts are assumed to be numbers. Every invariant that a passing
run checks is also proved.

`RecorderServiceProofs`

* `Invariance`: `Spec => []IndInv` with `IndInv` = `TypeOK`, `StartsHaveStatics`
  and `WritersHaveLogs`. Types alone are not inductive: `NetrecRules` has a uid
  only because a `start` message, or a `pc` inside `startRecording`, implies
  that the statics are set (a process death empties the queue with them), and a
  child's write adds to a length only because a writer's log exists.
* `TypeCorrect`, `StaticsAndLogs`: its parts.
* `PidFileCorrect`: `ProxyNamedByPidFile` is preserved because only
  `killLoggerScript` removes the file, after killing what it names, and only
  `startLogger`, which begins with that script, writes a new pid.
* `OneApplication`: `OneAppRecorded`, because `applyRules` flushes the chain
  before it adds rules of one uid.
* `NoEntryIsLeft`: `NoEntryWithoutLog`, by `EntryInv`. An entry without a log is
  the one `startRecording` is working on (`EntriesHaveLogs`); that one names the
  log to be opened (`RowNamesLog`), and a start without a log or given up has
  used up the one failure that the property allows (`FailureCounted`), so that
  taking the entry back cannot fail too.

The same module, for a user who waits for the main thread (`ASSUME Patient`);
requests, failures and deaths of the process are not limited, but where a theorem
says so:

* `PatientInvariance`: `Spec => []PatientInv`. The core is `Shape`: the message
  queue of a patient user, with the `pc` and the service record, has one of nine
  forms (`Idle`, `Created`, `Commanded`, `Refused`, `Starting`, `Setting`,
  `Failed`, `Leaving`, `Stopping`), each step leading from one to another. None of
  the properties below is inductive without it: a `start` message behind a
  `destroy` would break each of them, as `RecorderZombie` shows for an impatient
  user.
* `ReadersStopped`: `ReadersBelongToService`. `ReadersInv` adds that there is no
  reader at all while `startRecording` is past `killOld`, or the service is
  without health or stopped.
* `CompleteRecording`: `RecordingIsComplete`. `RecordingInv` follows
  `startRecording`: the statics agree until the entry is made, then the rules,
  the entry and the log are there; an invalid request that overwrites the uid
  afterwards leaves `logEntryID`, by which the property goes.
* `StoppedIsClean`, `RulesAreShown`, `RulesGoFirst`: `NothingLeftBehind`,
  `RedirectIsShown`, `RedirectGoesFirst`, by `UndisturbedInv`: without a service
  object there is nothing of the world left, at `killLogger` there are no rules,
  and a started service with rules is in the foreground. It needs
  `ProxyNamedByPidFile`, or else the kill could miss the listener.

`LogFeedProofs`

* `Invariance`: `Spec => []IndInv`. `LinesInOrder` and `AtMostOneLate` look at
  every pair and triple of messages a client got. What makes them inductive is
  the end of the sequence: `UpToDate` (the last line of a reader that the
  registered client got is the last one the reader has handled), `ClosedStops`
  (a reader whose end was told has its `keepReading` cleared) and `LateEnds` (one
  that sent a line after that is at its next test, and ends).
* `TypeCorrect`, `LinesComeInOrder`, `OneLateAtMost`: its parts.

`TcProxyPumpProofs`

* `Invariance`: `IndInv` = `TypeOK`, `BufferHoldsRest` (a buffer holds exactly
  the bytes that were read and not yet written, in order), `BytesInOrder`,
  `ReadyHasRoom` (a source that select reported is read into a buffer with
  room) and `ExitHasCause`. `BytesInOrder` needs `BufferHoldsRest`, which a
  partial write re-establishes through `Moved`; `ExitHasCause` needs
  `ReadyHasRoom`, or else a read of 0 bytes would pass for an end.
* `TypeCorrect`, `OrderKept`, `ExitJustified`: its parts.
* `Implementation`: `Spec => TapsStream`. `WriteSome` maps to `Forward`, a send
  to `Send`, each exit to `Cut`, everything else to a stutter.

`TcProxyServerProofs`

* `Invariance`: `IndInv` = `TypeOK`, `BusyWithOne` (between accept and close the
  parent has one connection), `OnePlace` (a connection is queued, with the
  parent, forked or failed), `MayHold` (what each process may have open),
  `FinitelyMany` and `ExitHasReason`. `MayHold` is needed because a fork copies
  what the parent has: `HeldByOwnChild` says nothing of connections that failed
  before, and would not survive it. `ExitHasReason` needs that a full parent
  between two connections holds only leaked clients, one per failed connection
  (`LeakedUpToLimit`, by an injection).
* `TypeCorrect`, `OwnChildHolds`, `OnlyFailedKept`, `NoOtherExit`: its parts and
  consequences.

`PartsProofs`, each theorem one of `Parts`

* `HeldOnlyWithinLine`: `HeldWithinLine`. A thread of `executeScript` that reads
  has begun a line or there is something to read (`ReadsWhatIsThere`); the script
  of `applyRules`, which reads without asking, leaves nothing in the background
  (`RulesForkNothing`).
* `InstallIsCorrect`: `InstallCorrect`. The binaries before the current one are
  there and whole (`InstalledSoFar`); a whole file is of this version or an update
  of equal length was missed (`OfThisVersion`); it is a program, or about to be
  made one, or an attempt was cut off there (`MarkedOrKnown`).
* `DumpIsRight`: `DumpFits`. Between two bytes, `hexpos` and `ploc` are a function
  of the number of bytes done (`InLine`, `BetweenLines`, `AtEnd`), and every byte
  before is in its columns (`Shown`).
* `ScreenIsAsked`: `SelectorsAgree`. Until a restore the list of selectors is what
  the screen shows, place by place (`Matches`), and no two fragments have the same
  id (`Numbered`), so that a removal takes the same one from both. After a restore
  the list has a null that no tag brings back (`HasLost`), and nothing can be asked
  for any more.
* `ListsAreCorrect`: `ListsCorrect`. Whoever has a read on its way is the screen of
  now, or was replaced (`OrphansKnown`); a read of the logs is posted only once the
  applications are known (`ReadBeforeLogs`), from the same read as the array
  (`OneRead`); and without an uninstall the log table has only applications that
  the map has, so that every group can be drawn (`AllDrawn`). A recording adds the
  one entry that the cached groups may miss, and its end clears them.
* `BindingTypes`, `RegistrationsAreRight`: `RegistrationsAgree`, from
  `ActivityBindingProofs`.
* `TableTypes`, `ScriptsDoTheirWork`, `CommitsKeepAll`: `ScriptsWork` and
  `CommitsMerge`, from `NatTableProofs`.
* `IndexTypes`, `IndexIsRight`: `IndexFindsChains`. `IndexInv` says that the list
  ascends and that its index is `Good`: its pointers go to chains of the list, in
  the order of the list, the first to the first chain (`InOrder`), or there is
  nothing to search (it is empty, or points to the head, or is short with a NULL at
  its end, which the search notices or stops at). Without the first pointer on the
  first chain a search that ends early would start behind its chain; without the
  order it would end in a wrong bucket. That the loop of the search ends for every
  array is not assumed: `Left` bounds the looks that are left (a look back lowers
  the end, a look ahead the distance to it), the function that the loop defines is
  built from the places with fewer looks left, and `SearchIs` says that `Search` is
  that function. A deletion is the hard step: either the pointer to the chain moves
  to the next one, which must be in the same bucket (`PointerMoves`), or the index
  is rebuilt. `IndexFindsChains`, which compares what is found with what is there,
  says nothing of where the pointers are.
* `InputTypes`, `PortHasDigits`: `DigitsOfPort`. `HasLowDigit`: five digits are
  never all above 5. It is inductive although the range filter looks at another
  text than the one that results: it joins the insertion and the whole old text.
  What it joins has six digits or more, and then the insertion begins with a low one,
  or it has the five that result. Five digits with a low one in front are a port, and
  five high ones are not (`FiveDigits`);
  the permutation that `DigitsOfPort` asks for swaps it with the first.
* `RunnerTypes`, `InstallTypes`, `DumpTypes`, `ListsTypes`, `TypesKept`: the types
  of these parts and of all of them, the invariant `TypeOK` of `Parts`.

`ActivityBindingProofs`

* `BindingInit`, `BindingStep`, `BindingSafe`: the inductive invariant `IInv` and
  what it implies. It is in three layers. `Core` holds whatever happens: which
  messages the main thread can have in its queue and in which order, what the
  framework keeps for each bind, whom a running service has heard of. `Timely`
  holds until an instance is left before its messages have run (`late`): no other
  instance than that on screen waits for a service (`OneHearer`), registering and
  unregistering alternate in the queue (`Alternate`), and whoever has left has
  given up its client (`AllGivenUp`). `Fed` holds until two instances overlap: the
  instance on screen that has the service is the bound one. `RegistrationsAgree`
  says nothing of the queue, but none of its parts survives a step without knowing
  what is in it.

`NatTableProofs`

* `InvInit`, `InvStep`: the inductive invariant `IInv`: types, and, until a table
  was written over one that was not read (`collided`), `Safe` and `Counting`.
  `Safe` says what the table looks like (`Formed`: the rules of OUTPUT, its
  policy, then netrec between its two entries, the error entry), what it has at
  each step of the script that runs (`Promised`), and the same of the copy that a
  command has not yet written: it is what the command wants, made from what is
  still in the kernel (`SessionOK`). `Carried` is what makes a commit count right:
  an entry of the copy that is not new has the place of its origin, and origins
  come in the order of the table. `Counting` adds to each counter what is on its way to
  it, so that it holds between the two calls of a commit too.
* `InvScripts`, `InvCommits`, `InvTypes`: what `IInv` implies. None of the
  properties is inductive: they speak of a script that has ended and of counters
  that have arrived.
* The sum of the counters of a rule is a recursive function. That it is one for
  every length (`SumsUpExists`, `SumsAreUnique`) is proved with a least
  counterexample (`LeastNumber` of `SequenceLemmas`), and `TotalOfMoved` that it
  does not change when entries without the rule come or go.

`SequenceLemmas`: sequences with an element more or less, and least and greatest
numbers of a set.

The only assumptions are those named in the modules: `PatientAssumption`,
`NoneAssumption`, `RequestAssumption` (a request is not the null intent),
`BoundsAssumption`, `BufSizeAssumption`, `NamesAssumption`, `LimitAssumption`, and
in `Parts` `BindingAssumption` and `AppsAssumption` (bounds are numbers, no
application has the uid 0 of root), `VersionsAssumption` (there is a first version
and lengths are numbers), `PortsAssumption` (an application that is recorded has
ports, as `onStartCommand` refuses a request without), `ScriptsAssumption` (scripts are sequences of the three
steps and the pipe has a size), `ChainsAssumption` (a name is above the empty one,
which an iterator at its end stands for, and a bucket has a chain),
`DigitsAssumption` (the layout of a selector takes digits only),
`SelectorsAssumption` and `LengthsAssumption`. TLC evaluates all of them in the runs.

Model-checked only:

* the liveness properties, and no other: `StopIsComplete`, `FailedStartIsUndone`,
  `Forwarded`, `LinesShown`, `ReaderEnds`, `Answered`, `ZombiesReaped`, `ListsShown`,
  `ScriptAwaited`. Their proofs need ENABLED, which is out of the prover's reach.

## 5. Observations

What the code does, met while modelling; the properties are stated so that they
allow it, and say that nothing else happens. Those that contradict a text of the
repository are the findings of section 3.

* *Activity.* An instance left or rotated before its service connected has given
  up nothing, since `isBound` was false; its connection and the next one both
  register the new messenger, and every line is shown twice. `onDestroy` of a
  left instance that comes after its successor bound unregisters the successor's
  messenger (`late`, `overlapped`).
* *Commands.* A change of equal length that another program made between read
  and commit is overwritten, or gets the wrong counters (`collided`). The counter
  of a policy is lost at each commit. The retry after `EAGAIN` uses a socket that
  was closed and fails. A listing of OUTPUT that fails is taken for a chain that
  is not linked, which links it twice (`blind`). A rename leaves a NULL in the
  index, since the chain is counted while it is out of the list (`renamed`); no
  script of the recorder renames.
* *Lists.* A group whose application was uninstalled or not read ends the process
  when its icon is loaded (`LogListAdapter.java:79`), and so does an answer for a
  fragment whose screen is gone (`causes`).
* *Binaries.* A file that was written and not made executable is never repaired,
  and one of equal length never updated: only the length is compared (`unmarked`,
  `unchanged`).
* *Settings.* After a restore the fragments, tagged from 1, are looked up from 0,
  and the start button meets a null. 27017 cannot be typed from left to right,
  since 7 before 2701 is too large; 80001 can be entered.

## 6. What is not modelled

* Texts, layout, drawables, progress dialogs, log output. A dialog that is
  refused because the service has no window is a failure (`UncaughtException`).
* Of the list screens, the order they sort in (comparators over labels and
  dates) and their rows: no state depends on them.
* `hasRoot` takes a script that ran for a root shell, whatever its exit status:
  in `RecorderService` the test succeeds or fails, and no property rests on what
  it found.
* `TcProxyPump` drops what the buffers hold when one end closes in order, as the
  code does; `TappedStream` allows a cut at any point, so that this loss is part
  of the promise. Writes to the log succeed; SIGPIPE on a closed socket is the
  write that fails (`WriteFails`).
* `removeRules` ignores the outcome of its script; `RecorderService` lets it fail
  and the service go all the same, which is why `NothingLeftBehind` and
  `RedirectIsShown` speak of runs without failures.
* iptables and grep are third-party programs, vendored whole: of the 42 thousand
  lines of code of the repository, 3.4 thousand are its own. Modelled is what the
  recorder's correctness rests on, the table session and the chain index of
  libiptc. Left out are the parsing of options, matches and targets, the output
  formats, IPv6, and the matching of grep, which the scripts use on one fixed
  word.
* Build files, resources, the support library: no behaviour of their own.

What could be added: an abstract recording session (off, on, undone) that
`RecorderService` implements for a patient user without failures, and
`ActivityBinding` composed with `LogFeed`, so that a line shown twice is followed
from the registration to the screen.
