---------------------------- MODULE ScriptRunner ----------------------------
(***************************************************************************)
(* ShellCommand: a script is run with its output in a pipe, and the thread *)
(* that started it waits for its end.  SysUtils.executeScript looks        *)
(* whether there is output before it reads a line; IPTables.applyRules     *)
(* reads right away.  The script blocks when the pipe is full, and a       *)
(* program it leaves in the background (tcproxy) keeps the pipe open.      *)
(***************************************************************************)
EXTENDS Naturals, Sequences

CONSTANTS
  Scripts, \* what a script does: a sequence of "line", "part" (output without
           \* the end of its line) and "fork" (leave a program behind)
  MaxPipe  \* what the pipe holds

VARIABLES
  caller,  \* "executeScript" or "applyRules"
  script,  \* what the script still has to do
  process, \* "none", "runs" or "exited"
  child,   \* a program in the background holds the pipe
  pipe,    \* unread output
  begun,   \* the thread has read a line without its end
  pc       \* where the thread is: "start", "check", "ready", "sleep", "read", "done"

vars == <<caller, script, process, child, pipe, begun, pc>>

TypeOK ==
  /\ caller \in {"executeScript", "applyRules"} /\ script \in Seq({"line", "part", "fork"})
  /\ process \in {"none", "runs", "exited"} /\ child \in BOOLEAN
  /\ pipe \in Seq({"line", "part"}) /\ Len(pipe) <= MaxPipe /\ begun \in BOOLEAN
  /\ pc \in {"start", "check", "ready", "sleep", "read", "done"}

Init ==
  /\ caller \in {"executeScript", "applyRules"} /\ script \in Scripts
  /\ caller = "applyRules" => \A i \in DOMAIN script : script[i] # "fork"
  /\ process = "none" /\ child = FALSE /\ pipe = <<>> /\ begun = FALSE /\ pc = "start"

-----------------------------------------------------------------------------
(* The script.                                                             *)

\* The next thing it does; a write waits for room in the pipe.
ScriptRuns ==
  /\ process = "runs" /\ script # <<>>
  /\ IF Head(script) = "fork" THEN child' = TRUE /\ UNCHANGED pipe
     ELSE Len(pipe) < MaxPipe /\ pipe' = Append(pipe, Head(script)) /\ UNCHANGED child
  /\ script' = Tail(script) /\ UNCHANGED <<caller, process, begun, pc>>

ScriptExits ==
  /\ process = "runs" /\ script = <<>> /\ process' = "exited"
  /\ UNCHANGED <<caller, script, child, pipe, begun, pc>>

ChildExits ==
  /\ child /\ child' = FALSE /\ UNCHANGED <<caller, script, process, pipe, begun, pc>>

-----------------------------------------------------------------------------
(* The thread.                                                             *)

\* start: there may be no su to run, and then no process to wait for.
Start ==
  /\ pc = "start"
  /\ \/ process' = "runs" /\ pc' = "check"
     \/ process' = "none" /\ pc' = "done"
  /\ UNCHANGED <<caller, script, child, pipe, begun>>

\* finish closes the pipe: what is unread is dropped.
Exited ==
  /\ pc = "check" /\ process = "exited" /\ pc' = "done" /\ pipe' = <<>>
  /\ UNCHANGED <<caller, script, process, child, begun>>

NotExited ==
  /\ pc = "check" /\ process # "exited"
  /\ pc' = IF caller = "applyRules" THEN "read" ELSE "ready"
  /\ UNCHANGED <<caller, script, process, child, pipe, begun>>

\* Mistake: wait for the end and leave the output where it is.
IgnoreOutput ==
  /\ pc = "ready" /\ pc' = "sleep" /\ UNCHANGED <<caller, script, process, child, pipe, begun>>

\* Mistake: read whether or not there is something to read.
ReadAnyway ==
  /\ pc = "ready" /\ pc' = "read" /\ UNCHANGED <<caller, script, process, child, pipe, begun>>

StdoutAvailable ==
  /\ pc = "ready" /\ pc' = IF pipe = <<>> THEN "sleep" ELSE "read"
  /\ UNCHANGED <<caller, script, process, child, pipe, begun>>

Sleep ==
  /\ pc = "sleep" /\ pc' = "check" /\ UNCHANGED <<caller, script, process, child, pipe, begun>>

\* readLine goes on until it has the end of a line.
ReadLine ==
  /\ pc = "read" /\ pipe # <<>> /\ pipe' = Tail(pipe)
  /\ pc' = IF Head(pipe) = "line" THEN "check" ELSE "read"
  /\ begun' = (Head(pipe) = "part") /\ UNCHANGED <<caller, script, process, child>>

\* Nobody holds the pipe any more: the end of the stream is the end of the line.
ReadEnd ==
  /\ pc = "read" /\ pipe = <<>> /\ process = "exited" /\ ~child /\ pc' = "check"
  /\ begun' = FALSE /\ UNCHANGED <<caller, script, process, child, pipe>>

Thread == Start \/ Exited \/ NotExited \/ StdoutAvailable \/ Sleep \/ ReadLine \/ ReadEnd

Next == ScriptRuns \/ ScriptExits \/ ChildExits \/ Thread

\* The script and the thread go on while they can; a program in the background
\* may run for ever.
Fairness == WF_vars(ScriptRuns) /\ WF_vars(ScriptExits) /\ WF_vars(Thread)

Spec == Init /\ [][Next]_vars /\ Fairness

-----------------------------------------------------------------------------
(* Properties.                                                             *)

\* The thread reads, and nothing but the program in the background could end
\* the line it has begun.
HeldByChild == pc = "read" /\ pipe = <<>> /\ process = "exited" /\ child

\* Every script is waited for to its end, however much it writes and however
\* little the pipe holds, unless a program that it left behind holds the thread.
ScriptAwaited == <>[](pc = "done" \/ HeldByChild)

\* And that can only be when the output of the script ended within a line: the
\* tcproxy that startLogger leaves behind does not stop the main thread.
HeldWithinLine == HeldByChild => begun
=============================================================================
