--------------------------- MODULE BinaryInstall ----------------------------
(***************************************************************************)
(* SysUtils.installBinaries: the programs that come with the application,  *)
(* unpacked into files when the service is created, with the process       *)
(* killed and calls failing at any point, and updates of the application.  *)
(* A file is there if its length is the one the code expects.              *)
(***************************************************************************)
EXTENDS Naturals, Sequences

CONSTANTS
  Size,                     \* version |-> length of each binary, in buffers
  MaxFailures, MaxRestarts  \* bounds

\* The order in which they are installed.
Binaries == <<"iptables", "tcproxy", "grep">>

VARIABLES
  version,   \* of the application
  file,      \* binary |-> versions its buffers are of, whether it is there and
             \* whether it may be run
  pc,        \* what the install does next: "idle", "check", "write", "chmod"
  at,        \* the binary it is at
  ready,     \* the last installBinaries returned true
  unchanged, \* an update brought a binary of the same length
  unmarked,  \* a binary was written and not marked as a program
  trouble    \* failures and restarts so far

vars == <<version, file, pc, at, ready, unchanged, unmarked, trouble>>

Files  == {Binaries[i] : i \in DOMAIN Binaries}
Absent == [there |-> FALSE, runs |-> FALSE, data |-> <<>>]
This   == Binaries[at]
Length == Size[version]

TypeOK ==
  /\ version \in DOMAIN Size /\ pc \in {"idle", "check", "write", "chmod"}
  /\ at \in DOMAIN Binaries
  /\ file \in [Files -> [there : BOOLEAN, runs : BOOLEAN, data : Seq(DOMAIN Size)]]
  /\ ready \in BOOLEAN /\ unchanged \in BOOLEAN /\ unmarked \in BOOLEAN

Init ==
  /\ version = 1 /\ file = [b \in Files |-> Absent]
  /\ pc = "idle" /\ at = 1 /\ ready = FALSE /\ unchanged = FALSE /\ unmarked = FALSE
  /\ trouble = [failures |-> 0, restarts |-> 0]

Spend(what, max) == trouble[what] < max /\ trouble' = [trouble EXCEPT ![what] = @ + 1]

\* onCreate of the service.
InstallBinaries ==
  /\ pc = "idle" /\ ~ready /\ pc' = "check" /\ at' = 1
  /\ UNCHANGED <<version, file, ready, unchanged, unmarked, trouble>>

\* This binary is done: on to the next, or true is returned.
Passed ==
  IF at < Len(Binaries) THEN pc' = "check" /\ at' = at + 1 /\ UNCHANGED ready
  ELSE pc' = "idle" /\ ready' = TRUE /\ UNCHANGED at

\* Mistake: any file will do.
IsThere == file[This].there

IsInstalled == file[This].there /\ Len(file[This].data) = Length

Skip ==
  /\ pc = "check" /\ IsInstalled /\ Passed
  /\ UNCHANGED <<version, file, unchanged, unmarked, trouble>>

\* The file is opened, which empties it and keeps its mode.
OpenFile ==
  /\ pc = "check" /\ ~IsInstalled /\ pc' = "write"
  /\ file' = [file EXCEPT ![This].there = TRUE, ![This].data = <<>>]
  /\ UNCHANGED <<version, at, ready, unchanged, unmarked, trouble>>

Write ==
  /\ pc = "write" /\ Len(file[This].data) < Length
  /\ file' = [file EXCEPT ![This].data = Append(@, version)]
  /\ UNCHANGED <<version, pc, at, ready, unchanged, unmarked, trouble>>

Close ==
  /\ pc = "write" /\ Len(file[This].data) = Length /\ pc' = "chmod"
  /\ UNCHANGED <<version, file, at, ready, unchanged, unmarked, trouble>>

\* Mistake: the mode is left as it is.
NoChmod == file

Marked == [file EXCEPT ![This].runs = TRUE]

\* chmod is run; how it ended is not looked at.
Chmod ==
  /\ pc = "chmod" /\ Passed
  /\ \/ file' = Marked /\ UNCHANGED <<unmarked, trouble>>
     \/ Spend("failures", MaxFailures) /\ unmarked' = TRUE /\ UNCHANGED file
  /\ UNCHANGED <<version, unchanged>>

\* Some file has its length and not its mode: no later attempt will see that.
WholeButUnmarked ==
  \E b \in DOMAIN file : file[b].there /\ Len(file[b].data) = Length /\ ~file[b].runs

\* An IOException: false is returned, and the service stops itself.
Fail ==
  /\ pc \in {"check", "write", "chmod"} /\ (pc = "check" => ~IsInstalled)
  /\ Spend("failures", MaxFailures) /\ pc' = "idle"
  /\ unmarked' = (unmarked \/ WholeButUnmarked)
  /\ UNCHANGED <<version, file, at, ready, unchanged>>

\* The process ends, and another service object will install again.
Restart ==
  /\ Spend("restarts", MaxRestarts) /\ pc' = "idle" /\ ready' = FALSE
  /\ unmarked' = (unmarked \/ WholeButUnmarked)
  /\ UNCHANGED <<version, file, at, unchanged>>

\* A new version of the application, which ends the process.
Update ==
  /\ version + 1 \in DOMAIN Size /\ version' = version + 1 /\ pc' = "idle" /\ ready' = FALSE
  /\ UNCHANGED <<file, at, trouble>>
  /\ unchanged' = (unchanged \/ \E b \in DOMAIN file :
                     file[b].there /\ Len(file[b].data) = Length')
  /\ unmarked' = (unmarked \/ WholeButUnmarked')

Next == InstallBinaries \/ Skip \/ OpenFile \/ Write \/ Close \/ Chmod \/ Fail \/ Restart \/ Update

Spec == Init /\ [][Next]_vars

-----------------------------------------------------------------------------
(* Properties.                                                             *)

\* Once the install has reported success, every binary is there in its length,
\* wherever earlier attempts were cut off.
ReadyMeansWhole ==
  ready => \A b \in DOMAIN file : file[b].there /\ Len(file[b].data) = Length

\* It is of this version and may be run, unless a version came with a binary of
\* the same length, or an attempt ended between the last byte and chmod: neither
\* is ever repaired.
ReadyMeansRuns ==
  ready =>
    /\ unchanged \/ \A b \in DOMAIN file : \A k \in DOMAIN file[b].data : file[b].data[k] = version
    /\ unmarked \/ \A b \in DOMAIN file : file[b].runs

\* Both of these: an install that has succeeded is complete but for what the
\* test of the length cannot see.
InstallCorrect == ReadyMeansWhole /\ ReadyMeansRuns
=============================================================================
