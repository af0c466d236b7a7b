---------------------------- MODULE PartsProofs -----------------------------
(***************************************************************************)
(* Theorems about the smaller parts, for every value of their constants:   *)
(* the script runner, the install of the binaries, the hex dump, the port  *)
(* selectors and their texts, the catalogs, libiptc's index of the chains, *)
(* the activities and their service, and the nat table.                    *)
(***************************************************************************)
EXTENDS Parts, SequenceLemmas, TLAPS

-----------------------------------------------------------------------------
(* The script runner.                                                      *)

\* applyRules, which reads without asking, runs nothing in the background.
RulesForkNothing ==
  caller = "applyRules" => ~child /\ \A i \in 1..Len(work) : work[i] # "fork"

\* Whoever asks before it reads has something to read, or has begun a line.
ReadsWhatIsThere == caller = "executeScript" /\ thread = "read" => begun \/ pipe # <<>>

\* The inductive invariant.
RunnerInv == Runner!TypeOK /\ RulesForkNothing /\ ReadsWhatIsThere

LEMMA RunnerInit == Runner!Init => RunnerInv
<1> SUFFICES ASSUME Runner!Init PROVE RunnerInv
  OBVIOUS
<1>1. work \in Seq({"line", "part", "fork"}) /\ DOMAIN work = 1..Len(work)
  BY LenProperties, ScriptsAssumption DEF Runner!Init
<1>2. pipe \in Seq({"line", "part"}) /\ Len(pipe) = 0 /\ Len(pipe) <= MaxPipe
  BY EmptySeq, ScriptsAssumption DEF Runner!Init
<1>3. Runner!TypeOK
  BY <1>1, <1>2 DEF Runner!Init, Runner!TypeOK
<1>4. RulesForkNothing
  BY <1>1 DEF Runner!Init, RulesForkNothing
<1>5. QED
  BY <1>3, <1>4 DEF Runner!Init, RunnerInv, ReadsWhatIsThere

\* Every step keeps it.
LEMMA RunnerStep == RunnerInv /\ [Runner!Next]_runnerVars => RunnerInv'
<1> SUFFICES ASSUME RunnerInv, [Runner!Next]_runnerVars PROVE RunnerInv'
  OBVIOUS
<1>1. CASE Runner!ScriptRuns
  <2>1. /\ work' \in Seq({"line", "part", "fork"}) /\ RulesForkNothing'
        /\ Head(work) \in {"line", "part", "fork"}
    BY <1>1, RestOfSequence DEF Runner!ScriptRuns, RunnerInv, Runner!TypeOK,
       RulesForkNothing
  <2>2. CASE Head(work) = "fork"
    BY <1>1, <2>1, <2>2 DEF Runner!ScriptRuns, RunnerInv, Runner!TypeOK, ReadsWhatIsThere
  <2>3. CASE Head(work) # "fork"
    <3>1. /\ Head(work) \in {"line", "part"} /\ pipe' = Append(pipe, Head(work))
          /\ Len(pipe) < MaxPipe /\ pipe \in Seq({"line", "part"})
      BY <1>1, <2>1, <2>3 DEF Runner!ScriptRuns, RunnerInv, Runner!TypeOK
    <3>2. /\ pipe' \in Seq({"line", "part"}) /\ Len(pipe') = Len(pipe) + 1
          /\ Len(pipe) \in Nat
      BY <3>1, AppendProperties, LenProperties
    <3>3. pipe' # <<>> /\ Len(pipe') <= MaxPipe
      BY <3>1, <3>2, EmptySeq, ScriptsAssumption
    <3>4. QED
      BY <1>1, <2>1, <2>3, <3>2, <3>3 DEF Runner!ScriptRuns, RunnerInv, Runner!TypeOK,
         ReadsWhatIsThere
  <2>4. QED
    BY <2>2, <2>3
<1>2. CASE Runner!ScriptExits \/ Runner!ChildExits \/ Runner!Start
      \/ Runner!NotExited \/ Runner!StdoutAvailable \/ Runner!Sleep
           \/ Runner!ReadEnd \/ UNCHANGED runnerVars
  <2>1. Runner!TypeOK'
    BY <1>2 DEF RunnerInv, Runner!TypeOK, Runner!ScriptExits, Runner!ChildExits,
       Runner!Start, Runner!NotExited,
       Runner!StdoutAvailable, Runner!Sleep, Runner!ReadEnd, runnerVars
  <2>2. RulesForkNothing'
    BY <1>2 DEF RunnerInv, RulesForkNothing, Runner!ScriptExits, Runner!ChildExits,
       Runner!Start, Runner!NotExited,
       Runner!StdoutAvailable, Runner!Sleep, Runner!ReadEnd, runnerVars
  <2>3. ReadsWhatIsThere'
    BY <1>2 DEF RunnerInv, ReadsWhatIsThere, Runner!ScriptExits, Runner!ChildExits,
       Runner!Start, Runner!NotExited,
       Runner!StdoutAvailable, Runner!Sleep, Runner!ReadEnd, runnerVars
  <2>4. QED
    BY <2>1, <2>2, <2>3 DEF RunnerInv
<1>3. CASE Runner!Exited
  <2>1. pipe' \in Seq({"line", "part"}) /\ Len(pipe') <= MaxPipe
    BY <1>3, EmptySeq, ScriptsAssumption DEF Runner!Exited
  <2>2. QED
    BY <1>3, <2>1 DEF Runner!Exited, RunnerInv, Runner!TypeOK, RulesForkNothing,
       ReadsWhatIsThere
<1>4. CASE Runner!ReadLine
  <2>1. /\ pipe' \in Seq({"line", "part"}) /\ Len(pipe') = Len(pipe) - 1
        /\ Len(pipe) \in Nat /\ Head(pipe) \in {"line", "part"}
    BY <1>4, RestOfSequence, LenProperties DEF Runner!ReadLine, RunnerInv, Runner!TypeOK
  <2>2. begun' \in BOOLEAN /\ ReadsWhatIsThere'
    BY <1>4, <2>1 DEF Runner!ReadLine, ReadsWhatIsThere
  <2>3. Len(pipe') <= MaxPipe
    BY <2>1, ScriptsAssumption DEF RunnerInv, Runner!TypeOK
  <2>4. Runner!TypeOK' /\ RulesForkNothing'
    BY <1>4, <2>1, <2>2, <2>3 DEF Runner!ReadLine, RunnerInv, Runner!TypeOK,
       RulesForkNothing
  <2>5. QED
    BY <2>2, <2>4 DEF RunnerInv
<1>5. QED
  BY <1>1, <1>2, <1>3, <1>4 DEF Runner!Next, Runner!Thread

LEMMA RunnerInvariance == Spec => []RunnerInv
<1>1. Init => Runner!Init
  BY DEF Init
<1>2. [Next]_vars => [Runner!Next]_runnerVars
  BY DEF Next, Only, vars, runnerVars
<1>3. QED
  BY <1>1, <1>2, RunnerInit, RunnerStep, PTL DEF Spec

\* Every variable keeps its type, and the pipe never holds more than it can.
THEOREM RunnerTypes == Spec => []Runner!TypeOK
<1>1. RunnerInv => Runner!TypeOK
  BY DEF RunnerInv
<1>2. QED
  BY <1>1, RunnerInvariance, PTL

\* A program that the script leaves behind holds the thread only when the
\* script ended within a line of its output: startLogger returns while the
\* tcproxy it started keeps the pipe open (ShellCommand.readStdout).
THEOREM HeldOnlyWithinLine == Spec => []HeldWithinLine
<1>1. RunnerInv => HeldWithinLine
  BY DEF RunnerInv, Runner!TypeOK, RulesForkNothing, ReadsWhatIsThere, HeldWithinLine,
     Runner!HeldWithinLine, Runner!HeldByChild
<1>2. QED
  BY <1>1, RunnerInvariance, PTL

-----------------------------------------------------------------------------
(* The install of the binaries.                                            *)

Installed(n) == file[n].there /\ Len(file[n].data) = Install!Length

\* The binaries before the one the install is at are there; that one is there
\* from when it is opened on, and whole from when it is closed on.
InstalledSoFar ==
  /\ installer # "idle" => ~ready /\ \A i \in 1..(at - 1) : Installed(Install!Binaries[i])
  /\ installer = "write" => file[Install!This].there
     /\ Len(file[Install!This].data) <= Install!Length
  /\ installer = "chmod" => Installed(Install!This)
  /\ ready => \A n \in Install!Files : Installed(n)

\* A file of the expected length is of this version, or an update was missed.
OfThisVersion ==
  /\ \A n \in Install!Files : Installed(n) =>
       unchanged \/ \A k \in 1..Len(file[n].data) : file[n].data[k] = version
  /\ installer = "write" => \A k \in 1..Len(file[Install!This].data) :
     file[Install!This].data[k] = version

\* A file of the expected length is a program, or is about to be made one, or an
\* attempt was cut off there.
MarkedOrKnown ==
  \A n \in Install!Files : Installed(n) /\ ~file[n].runs =>
    unmarked \/ (installer \in {"write", "chmod"} /\ n = Install!This)

\* The inductive invariant.
InstallInv == Install!TypeOK /\ InstalledSoFar /\ OfThisVersion /\ MarkedOrKnown

-----------------------------------------------------------------------------
(* The names.                                                              *)

LEMMA ThreeBinaries ==
  /\ DOMAIN Install!Binaries = 1..3 /\ Len(Install!Binaries) = 3
  /\ Install!Files = {"iptables", "tcproxy", "grep"}
  /\ Install!Binaries[1] = "iptables" /\ Install!Binaries[2] = "tcproxy"
  /\ Install!Binaries[3] = "grep"
  /\ \A i \in 1..3 : Install!Binaries[i] \in Install!Files
<1>1. DOMAIN Install!Binaries = 1..3 /\ Len(Install!Binaries) = 3
  BY DEF Install!Binaries
<1>2. Install!Binaries[1] = "iptables" /\ Install!Binaries[2] = "tcproxy"
      /\ Install!Binaries[3] = "grep"
  BY DEF Install!Binaries
<1>3. QED
  BY <1>1, <1>2 DEF Install!Files

LEMMA ThisIsOne ==
  ASSUME Install!TypeOK
  PROVE  at \in 1..3 /\ Install!This \in Install!Files
         /\ \A i \in 1..(at - 1) : Install!Binaries[i] # Install!This
  BY ThreeBinaries DEF Install!TypeOK, Install!This

LEMMA LengthType ==
  ASSUME Install!TypeOK
  PROVE  /\ Install!Length \in Nat
         /\ \A n \in Install!Files : /\ file[n].there \in BOOLEAN
            /\ file[n].runs \in BOOLEAN
                             /\ file[n].data \in Seq(DOMAIN Size)
                             /\ Len(file[n].data) \in Nat
<1>1. Install!Length \in Nat
  BY ElementOfSeq, LenProperties, VersionsAssumption DEF Install!TypeOK, Install!Length
<1>2. \A n \in Install!Files : file[n] \in [there : BOOLEAN, runs : BOOLEAN,
      data : Seq(DOMAIN Size)]
  BY DEF Install!TypeOK
<1>3. QED
  BY <1>1, <1>2, LenProperties

-----------------------------------------------------------------------------
(* The steps.                                                              *)

LEMMA InstallInit == Install!Init => InstallInv
<1> SUFFICES ASSUME Install!Init PROVE InstallInv
  OBVIOUS
<1>1. <<>> \in Seq(DOMAIN Size) /\ Len(<<>>) = 0
  BY EmptySeq
<1>2. \A n \in Install!Files : file[n] = Install!Absent
  BY DEF Install!Init
<1>3. Install!TypeOK
  <2>1. Install!Absent \in [there : BOOLEAN, runs : BOOLEAN, data : Seq(DOMAIN Size)]
    BY <1>1 DEF Install!Absent
  <2>2. file \in [Install!Files -> [there : BOOLEAN, runs : BOOLEAN,
        data : Seq(DOMAIN Size)]]
    BY <2>1 DEF Install!Init
  <2>3. version \in DOMAIN Size /\ at \in DOMAIN Install!Binaries
    BY ThreeBinaries, VersionsAssumption DEF Install!Init
  <2>4. QED
    BY <2>2, <2>3 DEF Install!Init, Install!TypeOK
<1>4. \A n \in Install!Files : ~Installed(n)
  BY <1>2 DEF Installed, Install!Absent
<1>5. QED
  BY <1>3, <1>4 DEF Install!Init, InstallInv, InstalledSoFar, OfThisVersion, MarkedOrKnown

\* A step that leaves the files and the version, and does not begin to write.
LEMMA FilesStay ==
  ASSUME UNCHANGED <<file, version>>
  PROVE  \A n \in Install!Files : Installed(n)' = Installed(n)
  BY DEF Installed, Install!Length

\* The binary it is at is installed, and the files stay: on to the next.
LEMMA PassedKeeps ==
  ASSUME Install!TypeOK, installer # "idle", InstalledSoFar, Install!Passed,
         NEW f, f = file', f \in [Install!Files -> [there : BOOLEAN, runs : BOOLEAN,
            data : Seq(DOMAIN Size)]],
         \A n \in Install!Files : f[n].there = file[n].there /\ f[n].data = file[n].data,
         Installed(Install!This), UNCHANGED version
  PROVE  InstalledSoFar' /\ installer' \in {"idle", "check"}
         /\ at' \in DOMAIN Install!Binaries
         /\ ready' \in BOOLEAN
<1>1. \A n \in Install!Files : Installed(n)' <=> Installed(n)
  BY DEF Installed, Install!Length
<1>2. at \in 1..3 /\ Install!This = Install!Binaries[at] /\ Install!This \in Install!Files
  BY ThisIsOne DEF Install!This
<1>3. \A i \in 1..at : Install!Binaries[i] \in Install!Files
      /\ Installed(Install!Binaries[i])
  BY <1>2, ThreeBinaries DEF InstalledSoFar
<1>4. CASE at < 3
  <2>1. installer' = "check" /\ at' = at + 1 /\ ready' = ready
    BY <1>4, ThreeBinaries DEF Install!Passed
  <2>2. \A i \in 1..(at' - 1) : Installed(Install!Binaries[i])'
    BY <1>1, <1>2, <1>3, <2>1
  <2>3. ~ready /\ ready = FALSE
    BY DEF InstalledSoFar, Install!TypeOK
  <2>4. at' \in DOMAIN Install!Binaries
    BY <1>2, <1>4, <2>1, ThreeBinaries
  <2>5. QED
    BY <2>1, <2>2, <2>3, <2>4 DEF InstalledSoFar
<1>5. CASE ~(at < 3)
  <2>1. installer' = "idle" /\ at' = at /\ ready' = TRUE /\ at = 3
    BY <1>2, <1>5, ThreeBinaries DEF Install!Passed
  <2>2. \A n \in Install!Files : Installed(n)'
    BY <1>1, <1>3, <2>1, ThreeBinaries
  <2>3. QED
    BY <1>2, <2>1, <2>2, ThreeBinaries DEF InstalledSoFar
<1>6. QED
  BY <1>4, <1>5
\* A binary that is installed is this one and is passed.
LEMMA SkipKeeps == InstallInv /\ Install!Skip => InstallInv'
<1> SUFFICES ASSUME InstallInv, Install!Skip PROVE InstallInv'
  OBVIOUS
<1>1. /\ Install!TypeOK /\ InstalledSoFar /\ OfThisVersion /\ MarkedOrKnown
      /\ installer = "check"
      /\ Install!Passed /\ Installed(Install!This) /\ UNCHANGED <<version, file,
         unchanged, unmarked>>
  BY DEF InstallInv, Install!Skip, Install!IsInstalled, Installed
<1>2. file' \in [Install!Files -> [there : BOOLEAN, runs : BOOLEAN,
      data : Seq(DOMAIN Size)]]
  BY <1>1 DEF Install!TypeOK
<1>3. /\ InstalledSoFar' /\ installer' \in {"idle", "check"}
      /\ at' \in DOMAIN Install!Binaries
      /\ ready' \in BOOLEAN
  BY <1>1, <1>2, PassedKeeps
<1>4. Install!TypeOK'
  BY <1>1, <1>2, <1>3 DEF Install!TypeOK
<1>5. \A n \in Install!Files : Installed(n)' = Installed(n)
  BY <1>1, FilesStay
<1>6. OfThisVersion' /\ MarkedOrKnown'
  BY <1>1, <1>3, <1>5 DEF OfThisVersion, MarkedOrKnown
<1>7. QED
  BY <1>3, <1>4, <1>6 DEF InstallInv

\* The files and the version stay, and nothing is being written.
LEMMA Begins == InstallInv /\ Install!InstallBinaries => InstallInv'
<1> SUFFICES ASSUME InstallInv, Install!InstallBinaries PROVE InstallInv'
  OBVIOUS
<1>1. \A n \in Install!Files : Installed(n)' = Installed(n)
  BY FilesStay DEF Install!InstallBinaries
<1>2. Install!TypeOK'
  BY ThreeBinaries DEF InstallInv, Install!TypeOK, Install!InstallBinaries
<1>3. InstalledSoFar'
  BY DEF InstallInv, InstalledSoFar, Install!InstallBinaries
<1>4. OfThisVersion' /\ MarkedOrKnown'
  BY <1>1 DEF InstallInv, OfThisVersion, MarkedOrKnown, Install!InstallBinaries
<1>5. QED
  BY <1>2, <1>3, <1>4 DEF InstallInv

\* The file it opens is not the expected one any more; the others stay.
LEMMA OpenKeeps == InstallInv /\ Install!OpenFile => InstallInv'
<1> SUFFICES ASSUME InstallInv, Install!OpenFile PROVE InstallInv'
  OBVIOUS
<1>1. /\ Install!TypeOK /\ at \in 1..3 /\ Install!This \in Install!Files
      /\ Install!Length \in Nat
      /\ \A i \in 1..(at - 1) : Install!Binaries[i] # Install!This
         /\ Install!Binaries[i] \in Install!Files
  BY ThisIsOne, LengthType, ThreeBinaries DEF InstallInv
<1>2. /\ file'[Install!This] = [there |-> TRUE, runs |-> file[Install!This].runs,
         data |-> <<>>]
      /\ \A n \in Install!Files \ {Install!This} : file'[n] = file[n]
      /\ DOMAIN file' = Install!Files
  BY <1>1 DEF Install!OpenFile, Install!TypeOK
<1>3. UNCHANGED <<version, at, Install!This, Install!Length, ready, unchanged,
      unmarked>> /\ installer' = "write"
  BY DEF Install!OpenFile, Install!This, Install!Length
<1>4. file' \in [Install!Files -> [there : BOOLEAN, runs : BOOLEAN,
      data : Seq(DOMAIN Size)]]
  <2>1. file'[Install!This] \in [there : BOOLEAN, runs : BOOLEAN, data : Seq(DOMAIN Size)]
    BY <1>1, <1>2, LengthType, EmptySeq
  <2>2. file' = [n \in Install!Files |-> file'[n]]
    BY <1>1 DEF Install!OpenFile, Install!TypeOK
  <2>3. \A n \in Install!Files : file'[n] \in [there : BOOLEAN, runs : BOOLEAN,
        data : Seq(DOMAIN Size)]
    BY <1>2, <2>1 DEF InstallInv, Install!TypeOK
  <2>4. QED
    BY <2>2, <2>3
<1>5. Install!TypeOK'
  BY <1>1, <1>3, <1>4 DEF Install!TypeOK
<1>6. \A n \in Install!Files \ {Install!This} : Installed(n)' <=> Installed(n)
  BY <1>2, <1>3 DEF Installed
<1>7. Len(file'[Install!This].data) = 0 /\ file'[Install!This].there
  BY <1>2
<1>8. installer = "check" /\ ~ready
      /\ \A i \in 1..(at - 1) : Installed(Install!Binaries[i])
  BY DEF Install!OpenFile, InstallInv, InstalledSoFar
<1>9. InstalledSoFar'
  BY <1>1, <1>3, <1>6, <1>7, <1>8 DEF InstalledSoFar
<1>10. OfThisVersion' /\ MarkedOrKnown'
  BY <1>2, <1>3, <1>6, <1>7, <1>8 DEF InstallInv, OfThisVersion, MarkedOrKnown
<1>11. QED
  BY <1>5, <1>9, <1>10 DEF InstallInv

\* One more buffer of this version.
LEMMA WriteKeeps == InstallInv /\ Install!Write => InstallInv'
<1> SUFFICES ASSUME InstallInv, Install!Write PROVE InstallInv'
  OBVIOUS
<1>1. /\ Install!TypeOK /\ at \in 1..3 /\ Install!This \in Install!Files
      /\ Install!Length \in Nat
      /\ \A i \in 1..(at - 1) : Install!Binaries[i] # Install!This
         /\ Install!Binaries[i] \in Install!Files
  BY ThisIsOne, LengthType, ThreeBinaries DEF InstallInv
<1>2. /\ file'[Install!This]
           = [file[Install!This] EXCEPT !.data = Append(file[Install!This].data, version)]
      /\ \A n \in Install!Files \ {Install!This} : file'[n] = file[n]
      /\ DOMAIN file' = Install!Files
  BY <1>1 DEF Install!Write, Install!TypeOK
<1>3. UNCHANGED <<version, at, installer, Install!This, Install!Length, ready,
      unchanged, unmarked>> /\ installer = "write"
  BY DEF Install!Write, Install!This, Install!Length
<1>4. /\ file[Install!This].data \in Seq(DOMAIN Size) /\ version \in DOMAIN Size
      /\ file[Install!This].there \in BOOLEAN /\ file[Install!This].runs \in BOOLEAN
      /\ file[Install!This] \in [there : BOOLEAN, runs : BOOLEAN, data : Seq(DOMAIN Size)]
  BY <1>1, LengthType DEF Install!TypeOK
<1>5. /\ file'[Install!This].data = Append(file[Install!This].data, version)
      /\ file'[Install!This].there = file[Install!This].there
      /\ file'[Install!This].runs = file[Install!This].runs
  BY <1>2, <1>4
<1>6. /\ file'[Install!This].data \in Seq(DOMAIN Size)
      /\ Len(file'[Install!This].data) = Len(file[Install!This].data) + 1
      /\ Len(file[Install!This].data) \in Nat
      /\ \A k \in 1..Len(file'[Install!This].data) :
           \/ file'[Install!This].data[k] = version
           \/ k \in 1..Len(file[Install!This].data)
              /\ file'[Install!This].data[k] = file[Install!This].data[k]
  BY <1>4, <1>5, AppendProperties, LenProperties
<1>7. file' \in [Install!Files -> [there : BOOLEAN, runs : BOOLEAN,
      data : Seq(DOMAIN Size)]]
  <2>1. file'[Install!This] \in [there : BOOLEAN, runs : BOOLEAN, data : Seq(DOMAIN Size)]
    BY <1>2, <1>4, <1>5, <1>6
  <2>2. file' = [n \in Install!Files |-> file'[n]]
    BY <1>1 DEF Install!Write, Install!TypeOK
  <2>3. \A n \in Install!Files : file'[n] \in [there : BOOLEAN, runs : BOOLEAN,
        data : Seq(DOMAIN Size)]
    BY <1>2, <2>1 DEF InstallInv, Install!TypeOK
  <2>4. QED
    BY <2>2, <2>3
<1>8. Install!TypeOK'
  BY <1>1, <1>3, <1>7 DEF Install!TypeOK
<1>9. \A n \in Install!Files \ {Install!This} : Installed(n)' <=> Installed(n)
  BY <1>2, <1>3 DEF Installed
<1>10. Len(file'[Install!This].data) <= Install!Length
  BY <1>1, <1>6 DEF Install!Write
<1>11. InstalledSoFar'
  BY <1>1, <1>3, <1>5, <1>9, <1>10 DEF InstallInv, InstalledSoFar
<1>12. OfThisVersion'
  <2>1. \A k \in 1..Len(file[Install!This].data) : file[Install!This].data[k] = version
    BY <1>3 DEF InstallInv, OfThisVersion
  <2>2. \A k \in 1..Len(file'[Install!This].data) : file'[Install!This].data[k] = version
    BY <1>6, <2>1
  <2>3. ASSUME NEW n \in Install!Files \ {Install!This}, Installed(n)'
        PROVE  unchanged' \/ \A k \in 1..Len(file'[n].data) : file'[n].data[k] = version
    BY <1>2, <1>3, <1>9, <2>3 DEF InstallInv, OfThisVersion
  <2>4. QED
    BY <1>3, <2>2, <2>3 DEF OfThisVersion
<1>13. MarkedOrKnown'
  BY <1>2, <1>3, <1>9 DEF InstallInv, MarkedOrKnown
<1>14. QED
  BY <1>8, <1>11, <1>12, <1>13 DEF InstallInv

\* The last buffer is written.
LEMMA CloseKeeps == InstallInv /\ Install!Close => InstallInv'
<1> SUFFICES ASSUME InstallInv, Install!Close PROVE InstallInv'
  OBVIOUS
<1>1. \A n \in Install!Files : Installed(n)' = Installed(n)
  BY FilesStay DEF Install!Close
<1>2. Install!This \in Install!Files
      /\ \A i \in 1..(at - 1) : Install!Binaries[i] \in Install!Files
  BY ThisIsOne, ThreeBinaries DEF InstallInv
<1>3. UNCHANGED <<Install!This, Install!Length>> /\ Installed(Install!This)
  BY DEF Install!Close, Install!This, Install!Length, Installed, InstallInv,
     InstalledSoFar
<1>4. Install!TypeOK'
  BY DEF InstallInv, Install!TypeOK, Install!Close
<1>5. InstalledSoFar'
  BY <1>1, <1>2, <1>3 DEF InstallInv, InstalledSoFar, Install!Close
<1>6. OfThisVersion' /\ MarkedOrKnown'
  BY <1>1, <1>3 DEF InstallInv, OfThisVersion, MarkedOrKnown, Install!Close
<1>7. QED
  BY <1>4, <1>5, <1>6 DEF InstallInv

\* The file is made a program, or it is known that it was not.
LEMMA ChmodKeeps == InstallInv /\ Install!Chmod => InstallInv'
<1> SUFFICES ASSUME InstallInv, Install!Chmod PROVE InstallInv'
  OBVIOUS
<1>1. /\ Install!TypeOK /\ at \in 1..3 /\ Install!This \in Install!Files
      /\ installer = "chmod" /\ Install!Passed
      /\ Installed(Install!This) /\ InstalledSoFar /\ UNCHANGED <<version, unchanged,
         Install!Length>>
  BY ThisIsOne DEF InstallInv, Install!Chmod, InstalledSoFar, Install!Length
<1>2. /\ file' \in [Install!Files -> [there : BOOLEAN, runs : BOOLEAN,
         data : Seq(DOMAIN Size)]]
      /\ \A n \in Install!Files : file'[n].there = file[n].there
         /\ file'[n].data = file[n].data
      /\ \A n \in Install!Files \ {Install!This} : file'[n].runs = file[n].runs
  <2>1. CASE UNCHANGED file
    BY <1>1, <2>1 DEF Install!TypeOK
  <2>2. CASE file' = Install!Marked
    <3>1. /\ file' = [n \in Install!Files |->
                     IF n = Install!This THEN [file[n] EXCEPT !.runs = TRUE] ELSE file[n]]
          /\ \A n \in Install!Files : file[n] \in [there : BOOLEAN, runs : BOOLEAN,
             data : Seq(DOMAIN Size)]
      BY <1>1, <2>2 DEF Install!Marked, Install!TypeOK
    <3>2. QED
      BY <3>1
  <2>3. QED
    BY <2>1, <2>2 DEF Install!Chmod
<1>3. unmarked' \in BOOLEAN /\ (unmarked => unmarked')
      /\ (unmarked' \/ file'[Install!This].runs)
  <2>1. CASE unmarked' = TRUE
    BY <2>1
  <2>2. CASE file' = Install!Marked /\ UNCHANGED unmarked
    <3>1. file'[Install!This] = [file[Install!This] EXCEPT !.runs = TRUE]
      BY <1>1, <2>2 DEF Install!Marked, Install!TypeOK
    <3>2. file[Install!This] \in [there : BOOLEAN, runs : BOOLEAN,
          data : Seq(DOMAIN Size)]
      BY <1>1 DEF Install!TypeOK
    <3>3. file'[Install!This].runs
      BY <3>1, <3>2
    <3>4. QED
      BY <1>1, <2>2, <3>3 DEF Install!TypeOK
  <2>3. QED
    BY <2>1, <2>2 DEF Install!Chmod
<1>4. /\ InstalledSoFar' /\ installer' \in {"idle", "check"}
      /\ at' \in DOMAIN Install!Binaries
      /\ ready' \in BOOLEAN
  BY <1>1, <1>2, PassedKeeps
<1>5. Install!TypeOK'
  BY <1>1, <1>2, <1>3, <1>4 DEF Install!TypeOK
<1>6. \A n \in Install!Files : Installed(n)' <=> Installed(n)
  BY <1>1, <1>2 DEF Installed
<1>7. OfThisVersion'
  <2>1. UNCHANGED <<unchanged, version>> /\ installer' # "write"
    BY <1>1, <1>4
  <2>2. \A n \in Install!Files : Installed(n) =>
          unchanged \/ \A k \in 1..Len(file[n].data) : file[n].data[k] = version
    BY DEF InstallInv, OfThisVersion
  <2>3. QED
    BY <1>2, <1>6, <2>1, <2>2 DEF OfThisVersion
<1>8. MarkedOrKnown'
  BY <1>2, <1>3, <1>6 DEF InstallInv, MarkedOrKnown
<1>9. QED
  BY <1>4, <1>5, <1>7, <1>8 DEF InstallInv

\* An attempt is cut off: what it leaves without its mode is known.
LEMMA CutOff ==
  ASSUME InstallInv, UNCHANGED <<version, file, at, unchanged>>, installer' = "idle",
         ready' \in BOOLEAN, ready' => ready,
            unmarked' = (unmarked \/ Install!WholeButUnmarked)
  PROVE  InstallInv'
<1>1. \A n \in Install!Files : Installed(n)' = Installed(n)
  BY FilesStay
<1>2. unmarked' \in BOOLEAN /\ (unmarked => unmarked')
      /\ (Install!WholeButUnmarked => unmarked')
  BY DEF InstallInv, Install!TypeOK
<1>3. Install!TypeOK'
  BY <1>2 DEF InstallInv, Install!TypeOK
<1>4. InstalledSoFar'
  BY <1>1 DEF InstallInv, InstalledSoFar
<1>5. OfThisVersion'
  BY <1>1 DEF InstallInv, OfThisVersion
<1>6. \A n \in Install!Files : Installed(n) /\ ~file[n].runs => Install!WholeButUnmarked
  BY DEF Installed, Install!WholeButUnmarked, InstallInv, Install!TypeOK
<1>7. MarkedOrKnown'
  BY <1>1, <1>2, <1>6 DEF MarkedOrKnown
<1>8. QED
  BY <1>3, <1>4, <1>5, <1>7 DEF InstallInv

\* A new version, whose lengths are other ones or known to be the same.
LEMMA UpdateKeeps == InstallInv /\ Install!Update => InstallInv'
<1> SUFFICES ASSUME InstallInv, Install!Update PROVE InstallInv'
  OBVIOUS
<1>1. UNCHANGED <<file, at>> /\ installer' = "idle" /\ ready' = FALSE
      /\ version' \in DOMAIN Size
  BY DEF Install!Update
<1>2. Install!TypeOK'
  BY <1>1 DEF InstallInv, Install!TypeOK, Install!Update
<1>3. DOMAIN file = Install!Files /\ DOMAIN file' = Install!Files
  BY <1>1 DEF InstallInv, Install!TypeOK
<1>4. \A n \in Install!Files : Installed(n)' => unchanged'
  BY <1>1, <1>3 DEF Installed, Install!Update, Install!Length
<1>5. \A n \in Install!Files : Installed(n)' /\ ~file'[n].runs => unmarked'
  BY <1>1, <1>3 DEF Installed, Install!Update, Install!WholeButUnmarked
<1>6. QED
  BY <1>1, <1>2, <1>4, <1>5 DEF InstallInv, InstalledSoFar, OfThisVersion, MarkedOrKnown

LEMMA InstallStep == InstallInv /\ [Install!Next]_installVars => InstallInv'
<1> SUFFICES ASSUME InstallInv, [Install!Next]_installVars PROVE InstallInv'
  OBVIOUS
<1>1. CASE Install!Fail
  BY <1>1, CutOff DEF Install!Fail, InstallInv, Install!TypeOK
<1>2. CASE Install!Restart
  BY <1>2, CutOff DEF Install!Restart
<1>3. CASE UNCHANGED installVars
  <2>1. \A n \in Install!Files : Installed(n)' = Installed(n)
    BY <1>3, FilesStay DEF installVars
  <2>2. UNCHANGED <<Install!This, Install!Length>>
    BY <1>3 DEF installVars, Install!This, Install!Length
  <2>3. QED
    BY <1>3, <2>1, <2>2, ThisIsOne, ThreeBinaries
       DEF installVars, InstallInv, Install!TypeOK, InstalledSoFar, OfThisVersion,
          MarkedOrKnown
<1>4. QED
  BY <1>1, <1>2, <1>3, SkipKeeps, Begins, OpenKeeps, WriteKeeps, CloseKeeps, ChmodKeeps,
     UpdateKeeps DEF Install!Next

LEMMA InstallInvariance == Spec => []InstallInv
<1>1. Init => Install!Init
  BY DEF Init
<1>2. [Next]_vars => [Install!Next]_installVars
  BY DEF Next, Only, vars, installVars
<1>3. QED
  BY <1>1, <1>2, InstallInit, InstallStep, PTL DEF Spec

-----------------------------------------------------------------------------
(* Theorems.                                                               *)

\* Every variable keeps its type.
THEOREM InstallTypes == Spec => []Install!TypeOK
<1>1. InstallInv => Install!TypeOK
  BY DEF InstallInv
<1>2. QED
  BY <1>1, InstallInvariance, PTL

\* After installBinaries has returned true every binary is there in its length,
\* is of this version and may be run, but for the two things that a test of the
\* length cannot see.
THEOREM InstallIsCorrect == Spec => []InstallCorrect
<1>1. ASSUME InstallInv PROVE InstallCorrect
  <2>1. /\ DOMAIN file = Install!Files
           /\ \A n \in Install!Files : DOMAIN file[n].data = 1..Len(file[n].data)
    BY <1>1, LengthType, LenProperties DEF InstallInv, Install!TypeOK
  <2>2. ready => \A n \in Install!Files : Installed(n)
    BY <1>1 DEF InstallInv, InstalledSoFar
  <2>3. ready => installer = "idle"
    BY <1>1 DEF InstallInv, InstalledSoFar
  <2>4. Install!ReadyMeansWhole
    BY <2>1, <2>2 DEF Install!ReadyMeansWhole, Installed
  <2>5. Install!ReadyMeansRuns
    BY <1>1, <2>1, <2>2, <2>3 DEF Install!ReadyMeansRuns, InstallInv, OfThisVersion,
       MarkedOrKnown
  <2>6. QED
    BY <2>4, <2>5 DEF InstallCorrect, Install!InstallCorrect
<1>2. QED
  BY <1>1, InstallInvariance, PTL

-----------------------------------------------------------------------------
(* The hex dump.                                                           *)

\* Where the line of the next byte begins, and the columns of byte k, with a gap
\* after the fourth byte of a line.
Line        == 41 * (bufpos \div 8)
Gap(c)      == IF c > 3 THEN 1 ELSE 0
NumberAt(k) == 41 * (k \div 8) + 5 + 3 * (k % 8) + Gap(k % 8)
CharAt(k)   == 41 * (k \div 8) + 31 + (k % 8) + Gap(k % 8)

\* There is something at these places, and it does not end the string.
Filled(h, places) == \A p \in places : p \in DOMAIN h /\ h[p] # Dump!NUL

\* Byte k is where it belongs.
Shown(h, k) ==
  /\ {NumberAt(k), NumberAt(k) + 1, CharAt(k)} \subseteq DOMAIN h
  /\ h[NumberAt(k)] = <<"number", k>> /\ h[NumberAt(k) + 1] = <<"number", k>>
  /\ h[CharAt(k)] = <<"char", k>>

\* Within a line: the numbers are written up to hexpos, the characters up to
\* their place ploc behind it.
InLine ==
  /\ bufpos < len /\ b = bufpos % 8 /\ ~done
  /\ hexpos = NumberAt(bufpos) /\ ploc = 25 - 2 * b
  /\ Filled(hex, (Line + 31)..(Line + 30 + b + Gap(b)))
  /\ DOMAIN hex \subseteq 0..(Line + 30 + b + Gap(b))

BetweenLines ==
  /\ bufpos % 8 = 0 /\ ~done /\ hexpos = Line
  /\ DOMAIN hex \subseteq 0..(Line - 1)

AtEnd ==
  /\ DOMAIN hex \subseteq 0..(IF done THEN hexpos ELSE hexpos - 1)
  /\ hexpos \in 0..(IF done THEN Dump!hexlen + 1 ELSE Dump!hexlen)

\* The inductive invariant.
DumpInv ==
  /\ len \in Nat /\ bufpos \in 0..len /\ b \in 0..8 /\ done \in BOOLEAN
  /\ Filled(hex, 0..(hexpos - 1))
  /\ \A k \in 0..(bufpos - 1) : Shown(hex, k)
  /\ b < 8 => InLine
  /\ b = 8 /\ bufpos < len => BetweenLines
  /\ b = 8 /\ bufpos = len => AtEnd

-----------------------------------------------------------------------------
(* Places.                                                                 *)

LEMMA DivMod ==
  ASSUME NEW k \in Nat
  PROVE  k \div 8 \in Nat /\ k % 8 \in 0..7 /\ k = 8 * (k \div 8) + (k % 8)
  OBVIOUS

LEMMA DivModIs ==
  ASSUME NEW k \in Nat, NEW n \in Nat, NEW c \in 0..7, k = 8 * n + c
  PROVE  k \div 8 = n /\ k % 8 = c
  OBVIOUS

\* The places of an earlier byte: before the line, or in the part of it that is
\* written.
LEMMA EarlierPlaces ==
  ASSUME NEW m \in Nat, NEW k \in 0..(m - 1)
  PROVE  /\ NumberAt(k) \in Nat /\ CharAt(k) \in Nat
         /\ NumberAt(k) + 1 < NumberAt(m) /\ NumberAt(k) + 1 < CharAt(k)
         /\ \/ CharAt(k) < 41 * (m \div 8)
            \/ CharAt(k) \in (41 * (m \div 8) + 31)..(CharAt(m) - 1)
<1>1. /\ k \in Nat /\ k \div 8 \in Nat /\ k % 8 \in 0..7 /\ k = 8 * (k \div 8) + (k % 8)
      /\ m \div 8 \in Nat /\ m % 8 \in 0..7 /\ m = 8 * (m \div 8) + (m % 8) /\ k < m
  BY DivMod
<1> DEFINE q == k \div 8
           r == k % 8
           s == m \div 8
           t == m % 8
<1>2. q \in Nat /\ r \in 0..7 /\ s \in Nat /\ t \in 0..7 /\ 8 * q + r < 8 * s + t
  BY <1>1
<1>3. /\ NumberAt(k) = 41 * q + 5 + 3 * r + Gap(r) /\ CharAt(k) = 41 * q + 31 + r + Gap(r)
      /\ NumberAt(m) = 41 * s + 5 + 3 * t + Gap(t) /\ CharAt(m) = 41 * s + 31 + t + Gap(t)
  BY DEF NumberAt, CharAt
<1>4. Gap(r) = (IF r > 3 THEN 1 ELSE 0) /\ Gap(t) = (IF t > 3 THEN 1 ELSE 0)
  BY DEF Gap
<1> HIDE DEF q, r, s, t
<1>5. q < s \/ (q = s /\ r < t)
  BY <1>2
<1>6. /\ NumberAt(k) \in Nat /\ CharAt(k) \in Nat /\ NumberAt(k) + 1 < NumberAt(m)
      /\ NumberAt(k) + 1 < CharAt(k)
      /\ CharAt(k) < 41 * s \/ CharAt(k) \in (41 * s + 31)..(CharAt(m) - 1)
  BY <1>2, <1>3, <1>4, <1>5
<1>7. QED
  BY <1>6 DEF s

\* What is put: the characters at their places, and all else stays.
IsPutOne(h2, h, pos, char) ==
  /\ DOMAIN h2 = {pos} \cup DOMAIN h
  /\ h2[pos] = char
  /\ \A p \in DOMAIN h \ {pos} : h2[p] = h[p]

LEMMA PutOne ==
  ASSUME NEW h, NEW pos, pos \in Int, NEW char
  PROVE  IsPutOne(Dump!Put(h, pos, <<char>>), h, pos, char)
<1>1. Len(<<char>>) = 1 /\ <<char>>[1] = char
  OBVIOUS
<1>2. pos..(pos + Len(<<char>>) - 1) = {pos} /\ pos - pos + 1 = 1
  BY <1>1
<1>3. QED
  BY <1>1, <1>2 DEF Dump!Put, IsPutOne

LEMMA NotTheEnd ==
  /\ Dump!Space # Dump!NUL /\ Dump!Newline # Dump!NUL /\ <<"offset">> # Dump!NUL
  /\ \A k : <<"number", k>> # Dump!NUL /\ <<"char", k>> # Dump!NUL
  BY DEF Dump!NUL, Dump!Space, Dump!Newline

LEMMA PutNumber ==
  ASSUME NEW h, NEW pos \in Int
  PROVE  /\ DOMAIN Dump!Put(h, pos, Dump!Number) = (pos..(pos + 3)) \cup DOMAIN h
         /\ Dump!Put(h, pos, Dump!Number)[pos] = <<"number", bufpos>>
         /\ Dump!Put(h, pos, Dump!Number)[pos + 1] = <<"number", bufpos>>
         /\ Dump!Put(h, pos, Dump!Number)[pos + 2] = Dump!Space
         /\ \A p \in DOMAIN h \ (pos..(pos + 3)) : Dump!Put(h, pos, Dump!Number)[p] = h[p]
<1>1. /\ Len(Dump!Number) = 4 /\ Dump!Number[1] = <<"number", bufpos>>
      /\ Dump!Number[2] = <<"number", bufpos>> /\ Dump!Number[3] = Dump!Space
  BY DEF Dump!Number
<1>2. /\ pos..(pos + Len(Dump!Number) - 1) = pos..(pos + 3)
      /\ pos - pos + 1 = 1 /\ pos + 1 - pos + 1 = 2 /\ pos + 2 - pos + 1 = 3
      /\ {pos, pos + 1, pos + 2} \subseteq pos..(pos + 3)
  BY <1>1
<1>3. \A p \in pos..(pos + 3) : Dump!Put(h, pos,
      Dump!Number)[p] = Dump!Number[p - pos + 1]
  BY <1>2 DEF Dump!Put
<1>4. /\ DOMAIN Dump!Put(h, pos, Dump!Number) = (pos..(pos + 3)) \cup DOMAIN h
      /\ \A p \in DOMAIN h \ (pos..(pos + 3)) : Dump!Put(h, pos, Dump!Number)[p] = h[p]
  BY <1>2 DEF Dump!Put
<1>5. QED
  BY <1>1, <1>2, <1>3, <1>4

LEMMA PutOffset ==
  ASSUME NEW h, NEW pos \in Int
  PROVE  /\ DOMAIN Dump!Put(h, pos, Dump!Offset) = (pos..(pos + 5)) \cup DOMAIN h
         /\ Filled(Dump!Put(h, pos, Dump!Offset), pos..(pos + 4))
         /\ \A p \in DOMAIN h \ (pos..(pos + 5)) : Dump!Put(h, pos, Dump!Offset)[p] = h[p]
<1>1. Len(Dump!Offset) = 6 /\ \A i \in 1..5 : Dump!Offset[i] # Dump!NUL
  <2>1. /\ Len(Dump!Offset) = 6 /\ Dump!Offset[1] = <<"offset">>
        /\ Dump!Offset[2] = <<"offset">>
        /\ Dump!Offset[3] = <<"offset">> /\ Dump!Offset[4] = Dump!Space
        /\ Dump!Offset[5] = Dump!Space
    BY DEF Dump!Offset
  <2>2. QED
    BY <2>1, NotTheEnd
<1>2. /\ pos..(pos + Len(Dump!Offset) - 1) = pos..(pos + 5)
      /\ \A p \in pos..(pos + 4) : p - pos + 1 \in 1..5 /\ p \in pos..(pos + 5)
  BY <1>1
<1>3. QED
  BY <1>1, <1>2 DEF Dump!Put, Filled

ArePutSpaces(h2, h, from, to) ==
  /\ DOMAIN h2 = (from..to) \cup DOMAIN h
  /\ \A p \in from..to : h2[p] = Dump!Space
  /\ \A p \in DOMAIN h \ (from..to) : h2[p] = h[p]

LEMMA PutSpaces ==
  ASSUME NEW h, NEW pos, pos \in Int, NEW n, n \in Nat
  PROVE  ArePutSpaces(Dump!Put(h, pos, Dump!Spaces(n)), h, pos, pos + n - 1)
<1>1. Dump!Spaces(n) \in [1..n -> {Dump!Space}]
      /\ \A i \in 1..n : Dump!Spaces(n)[i] = Dump!Space
  BY DEF Dump!Spaces
<1>2. Dump!Spaces(n) \in Seq({Dump!Space}) /\ Len(Dump!Spaces(n)) = n
  BY <1>1, IsASeq, LenProperties
<1>3. \A p \in pos..(pos + n - 1) : p - pos + 1 \in 1..n
  OBVIOUS
<1>4. QED
  BY <1>1, <1>2, <1>3 DEF Dump!Put, ArePutSpaces

-----------------------------------------------------------------------------
(* The steps.                                                              *)

LEMMA DumpInit == Dump!Init => DumpInv
<1> SUFFICES ASSUME Dump!Init PROVE DumpInv
  OBVIOUS
<1>1. len \in Nat /\ bufpos = 0 /\ b = 8 /\ done = FALSE /\ hexpos = 0 /\ Line = 0
      /\ bufpos % 8 = 0 /\ DOMAIN hex = {}
  BY LengthsAssumption DEF Dump!Init, Line
<1>2. Dump!hexlen \in Nat
  BY <1>1 DEF Dump!hexlen, Dump!lines
<1>3. BetweenLines /\ AtEnd
  BY <1>1, <1>2 DEF BetweenLines, AtEnd
<1>4. Filled(hex, 0..(hexpos - 1)) /\ \A k \in 0..(bufpos - 1) : Shown(hex, k)
  <2>1. 0..(hexpos - 1) = {} /\ 0..(bufpos - 1) = {}
    BY <1>1
  <2>2. QED
    BY <2>1 DEF Filled
<1>5. ~(b < 8) /\ b \in 0..8 /\ bufpos \in 0..len
  BY <1>1
<1>6. QED
  BY <1>1, <1>3, <1>4, <1>5 DEF DumpInv

\* The offset of a new line.
LEMMA StartLineKeeps == DumpInv /\ Dump!StartLine => DumpInv'
<1> SUFFICES ASSUME DumpInv, Dump!StartLine PROVE DumpInv'
  OBVIOUS
<1>1. /\ len \in Nat /\ bufpos \in Nat /\ bufpos < len /\ ~done /\ b' = 0 /\ ploc' = 25
      /\ bufpos % 8 = 0 /\ hexpos = Line /\ hexpos' = Line + 5 /\ UNCHANGED <<len,
         bufpos, done>>
      /\ Line \in Nat /\ UNCHANGED Line /\ DOMAIN hex \subseteq 0..(Line - 1)
      /\ hex' = Dump!Put(hex, Line, Dump!Offset) /\ done \in BOOLEAN
  BY DivMod DEF Dump!StartLine, DumpInv, BetweenLines, Line
<1>2. NumberAt(bufpos) = Line + 5 /\ CharAt(bufpos) = Line + 31
  BY <1>1 DEF NumberAt, CharAt, Gap, Line
<1>3. /\ DOMAIN hex' = (Line..(Line + 5)) \cup DOMAIN hex
      /\ Filled(hex', Line..(Line + 4))
      /\ \A p \in DOMAIN hex \ (Line..(Line + 5)) : hex'[p] = hex[p]
  <2>1. Line \in Int /\ hex' = Dump!Put(hex, Line, Dump!Offset)
    BY <1>1
  <2>2. QED
    BY <2>1, PutOffset
<1>4. Filled(hex', 0..(hexpos' - 1))
  BY <1>1, <1>3 DEF Filled, DumpInv
<1>5. ASSUME NEW k \in 0..(bufpos' - 1) PROVE Shown(hex', k)
  <2>1. bufpos \in Nat /\ k \in 0..(bufpos - 1)
    BY <1>1
  <2>2. /\ NumberAt(k) + 1 < CharAt(k) /\ NumberAt(k) \in Nat /\ CharAt(k) \in Nat
        /\ CharAt(k) < Line \/ CharAt(k) \in (Line + 31)..(CharAt(bufpos) - 1)
    BY <2>1, EarlierPlaces DEF Line
  <2>3. NumberAt(k) < Line /\ NumberAt(k) + 1 < Line /\ CharAt(k) < Line
    BY <1>1, <1>2, <2>2
  <2>4. \A p \in Nat : p < Line => p \notin Line..(Line + 5)
    BY <1>1
  <2>5. Shown(hex, k)
    BY <2>1 DEF DumpInv
  <2>6. QED
    BY <1>3, <2>2, <2>3, <2>4, <2>5 DEF Shown
<1>6. InLine'
  BY <1>1, <1>2, <1>3 DEF InLine, Filled, Gap, NumberAt, Line
<1>7. QED
  BY <1>1, <1>4, <1>5, <1>6 DEF DumpInv

\* The end of the dump.
LEMMA FinishKeeps == DumpInv /\ Dump!Finish => DumpInv'
<1> SUFFICES ASSUME DumpInv, Dump!Finish PROVE DumpInv'
  OBVIOUS
<1>1. /\ len \in Nat /\ bufpos = len /\ b = 8 /\ ~done /\ done' = TRUE /\ b' = 8
      /\ bufpos' = len
      /\ len' = len /\ Dump!hexlen \in Nat /\ UNCHANGED Dump!hexlen
      /\ DOMAIN hex \subseteq 0..(hexpos - 1) /\ hexpos \in 0..Dump!hexlen
      /\ hexpos' = hexpos + 1
      /\ hex' = Dump!Put(hex, hexpos, <<Dump!Newline, Dump!NUL>>)
      /\ \A k \in 0..(len - 1) : Shown(hex, k)
      /\ Filled(hex, 0..(hexpos - 1))
  BY DEF Dump!Finish, DumpInv, AtEnd, Dump!hexlen, Dump!lines
<1> DEFINE two == <<Dump!Newline, Dump!NUL>>
<1>2. Len(two) = 2 /\ two[1] = Dump!Newline
  OBVIOUS
<1> HIDE DEF two
<1>3. hexpos..(hexpos + Len(two) - 1) = {hexpos, hexpos + 1} /\ hexpos - hexpos + 1 = 1
  BY <1>1, <1>2
<1>4. /\ DOMAIN hex' = {hexpos, hexpos + 1} \cup DOMAIN hex
      /\ hex'[hexpos] = Dump!Newline
      /\ \A p \in DOMAIN hex \ {hexpos, hexpos + 1} : hex'[p] = hex[p]
  BY <1>1, <1>2, <1>3 DEF Dump!Put, two
<1>5. Filled(hex', 0..(hexpos' - 1))
  BY <1>1, <1>4, NotTheEnd DEF Filled
<1>6. AtEnd'
  BY <1>1, <1>4 DEF AtEnd
<1>7. ASSUME NEW k \in 0..(len - 1) PROVE Shown(hex', k)
  <2>1. Shown(hex, k)
    BY <1>1
  <2>2. {NumberAt(k), NumberAt(k) + 1, CharAt(k)} \subseteq 0..(hexpos - 1)
    BY <1>1, <2>1 DEF Shown
  <2>3. \A p \in 0..(hexpos - 1) : p \notin {hexpos, hexpos + 1}
    BY <1>1
  <2>4. QED
    BY <1>4, <2>1, <2>2, <2>3 DEF Shown
<1>8. QED
  BY <1>1, <1>5, <1>6, <1>7 DEF DumpInv

\* The buffer after each put of a byte: its number, its character, a gap after
\* both, and spaces.
One     == Dump!Put(Dump!Put(hex, hexpos, Dump!Number), hexpos + 3 + (ploc - 2),
   <<<<"char", bufpos>>>>)
Pos2    == IF b \in {3, 7} THEN hexpos + 3 + 1 ELSE hexpos + 3
Two     == IF b \in {3, 7} THEN Dump!Put(One, hexpos + 3, <<Dump!Space>>) ELSE One
Three   == IF b = 3 THEN Dump!Put(Two, Pos2 + (ploc - 2), <<Dump!Space>>) ELSE Two
Four(n) == Dump!Put(Three, Pos2, Dump!Spaces(n))

\* Where a byte goes, from the column of the line.
LEMMA PlacesInLine ==
  ASSUME DumpInv, b < 8
  PROVE  /\ bufpos \in Nat /\ Line \in Nat /\ b \in 0..7 /\ hexpos \in Nat /\ ploc \in Nat
         /\ hexpos = Line + 5 + 3 * b + Gap(b) /\ ploc = 25 - 2 * b
         /\ hexpos = NumberAt(bufpos) /\ hexpos + 3 + (ploc - 2) = CharAt(bufpos)
         /\ CharAt(bufpos) = Line + 31 + b + Gap(b)
         /\ Gap(b) = IF b > 3 THEN 1 ELSE 0
         /\ Dump!hexlen \in Nat /\ Line + 41 <= Dump!hexlen
<1>1. /\ len \in Nat /\ bufpos \in Nat /\ bufpos < len /\ b = bufpos % 8
      /\ hexpos = NumberAt(bufpos)
      /\ ploc = 25 - 2 * b /\ bufpos \div 8 \in Nat /\ b \in 0..7
      /\ bufpos = 8 * (bufpos \div 8) + b
  BY DivMod DEF DumpInv, InLine
<1>2. /\ NumberAt(bufpos) = Line + 5 + 3 * b + Gap(b)
      /\ CharAt(bufpos) = Line + 31 + b + Gap(b)
  BY <1>1 DEF NumberAt, CharAt, Line
<1>3. (len + 7) \div 8 \in Nat /\ (len + 7) \div 8 >= (bufpos \div 8) + 1
  <2>1. /\ len + 7 \in Nat /\ (len + 7) \div 8 \in Nat /\ (len + 7) % 8 \in 0..7
        /\ len + 7 = 8 * ((len + 7) \div 8) + ((len + 7) % 8)
    BY <1>1, DivMod
  <2>2. QED
    BY <1>1, <2>1
<1>4. Dump!hexlen \in Nat /\ Line + 41 <= Dump!hexlen
  BY <1>1, <1>3 DEF Line, Dump!hexlen, Dump!lines
<1>5. Gap(b) = IF b > 3 THEN 1 ELSE 0
  BY DEF Gap
<1>6. Line \in Nat
  BY <1>1 DEF Line
<1>7. QED
  BY <1>1, <1>2, <1>4, <1>5, <1>6

LEMMA OneIs ==
  ASSUME DumpInv, b < 8
  PROVE  LET new == (hexpos..(hexpos + 3)) \cup {CharAt(bufpos)}
         IN /\ DOMAIN One = new \cup DOMAIN hex
            /\ One[hexpos] = <<"number", bufpos>> /\ One[hexpos + 1] = <<"number",
               bufpos>>
            /\ One[hexpos + 2] = Dump!Space /\ One[CharAt(bufpos)] = <<"char", bufpos>>
            /\ \A p \in DOMAIN hex \ new : One[p] = hex[p]
<1> DEFINE num == Dump!Put(hex, hexpos, Dump!Number)
           place == CharAt(bufpos)
<1>1. /\ hexpos \in Nat /\ place \in Nat /\ hexpos + 3 < place
      /\ hexpos + 3 + (ploc - 2) = place
  BY PlacesInLine
<1>2. /\ DOMAIN num = (hexpos..(hexpos + 3)) \cup DOMAIN hex
      /\ num[hexpos] = <<"number", bufpos>> /\ num[hexpos + 1] = <<"number", bufpos>>
      /\ num[hexpos + 2] = Dump!Space
      /\ \A p \in DOMAIN hex \ (hexpos..(hexpos + 3)) : num[p] = hex[p]
  <2>1. hexpos \in Int
    BY <1>1
  <2>2. QED
    BY <2>1, PutNumber
<1>3. One = Dump!Put(num, place, <<<<"char", bufpos>>>>)
  BY <1>1 DEF One
<1> HIDE DEF num, place
<1>4. /\ DOMAIN One = {place} \cup DOMAIN num /\ One[place] = <<"char", bufpos>>
      /\ \A p \in DOMAIN num \ {place} : One[p] = num[p]
  <2>1. place \in Int
    BY <1>1
  <2>2. IsPutOne(One, num, place, <<"char", bufpos>>)
    BY <1>3, <2>1, PutOne
  <2>3. QED
    BY <2>2 DEF IsPutOne
<1>5. {hexpos, hexpos + 1, hexpos + 2} \subseteq (hexpos..(hexpos + 3)) \ {place}
  BY <1>1
<1>6. QED
  BY <1>1, <1>2, <1>4, <1>5 DEF place

LEMMA ThreeIs ==
  ASSUME DumpInv, b < 8
  PROVE  LET new == (IF b \in {3, 7} THEN {hexpos + 3} ELSE {})
                      \cup (IF b = 3 THEN {CharAt(bufpos) + 1} ELSE {})
         IN /\ DOMAIN Three = new \cup DOMAIN One
            /\ \A p \in new : Three[p] = Dump!Space
            /\ \A p \in DOMAIN One \ new : Three[p] = One[p]
<1>1. /\ hexpos \in Nat /\ CharAt(bufpos) \in Nat
      /\ hexpos + 3 + (ploc - 2) = CharAt(bufpos) /\ ploc \in Nat
      /\ hexpos + 3 < CharAt(bufpos)
  BY PlacesInLine
<1>2. CASE b = 3
  <2>1. Three = Dump!Put(Dump!Put(One, hexpos + 3, <<Dump!Space>>), CharAt(bufpos) + 1,
        <<Dump!Space>>)
    BY <1>1, <1>2 DEF Three, Two, Pos2
  <2>2. /\ DOMAIN Dump!Put(One, hexpos + 3, <<Dump!Space>>) = {hexpos + 3} \cup DOMAIN One
        /\ Dump!Put(One, hexpos + 3, <<Dump!Space>>)[hexpos + 3] = Dump!Space
        /\ \A p \in DOMAIN One \ {hexpos + 3} : Dump!Put(One, hexpos + 3,
           <<Dump!Space>>)[p] = One[p]
    <3>1. hexpos + 3 \in Int
      BY <1>1
    <3>2. IsPutOne(Dump!Put(One, hexpos + 3, <<Dump!Space>>), One, hexpos + 3, Dump!Space)
      BY <3>1, PutOne
    <3>3. QED
      BY <3>2 DEF IsPutOne
  <2> DEFINE gapped == Dump!Put(One, hexpos + 3, <<Dump!Space>>)
  <2> HIDE DEF gapped
  <2>3. /\ DOMAIN Three = {CharAt(bufpos) + 1} \cup DOMAIN gapped
        /\ Three[CharAt(bufpos) + 1] = Dump!Space
        /\ \A p \in DOMAIN gapped \ {CharAt(bufpos) + 1} : Three[p] = gapped[p]
    <3>1. /\ CharAt(bufpos) + 1 \in Int
          /\ Three = Dump!Put(gapped, CharAt(bufpos) + 1, <<Dump!Space>>)
      BY <1>1, <2>1 DEF gapped
    <3>2. IsPutOne(Three, gapped, CharAt(bufpos) + 1, Dump!Space)
      BY <3>1, PutOne
    <3>3. QED
      BY <3>2 DEF IsPutOne
  <2>4. QED
    BY <1>1, <1>2, <2>2, <2>3 DEF gapped
<1>3. CASE b = 7
  <2>1. Three = Dump!Put(One, hexpos + 3, <<Dump!Space>>)
    BY <1>3 DEF Three, Two
  <2>2. hexpos + 3 \in Int
    BY <1>1
  <2>3. /\ DOMAIN Three = {hexpos + 3} \cup DOMAIN One /\ Three[hexpos + 3] = Dump!Space
        /\ \A p \in DOMAIN One \ {hexpos + 3} : Three[p] = One[p]
    <3>1. IsPutOne(Three, One, hexpos + 3, Dump!Space)
      BY <2>1, <2>2, PutOne
    <3>2. QED
      BY <3>1 DEF IsPutOne
  <2>4. QED
    BY <1>3, <2>3
<1>4. CASE b \notin {3, 7}
  BY <1>4 DEF Three, Two
<1>5. QED
  BY <1>2, <1>3, <1>4

\* The last place of the line that is taken, behind the byte and its gap.
Top == CharAt(bufpos) + (IF b = 3 THEN 1 ELSE 0)

\* With spaces up to no further than the characters, all places before them and
\* all of the characters' so far are taken, and every byte is shown.
LEMMA FourIs ==
  ASSUME DumpInv, b < 8, NEW n \in Nat, Pos2 + n <= Line + 31
  PROVE  /\ DOMAIN Four(n) \subseteq 0..Top
         /\ Filled(Four(n), 0..(Pos2 + n - 1))
         /\ Filled(Four(n), (Line + 31)..Top)
         /\ \A k \in 0..bufpos : Shown(Four(n), k)
<1> DEFINE place == CharAt(bufpos)
           end   == Pos2 + n - 1
<1>1. /\ bufpos \in Nat /\ Line \in Nat /\ b \in 0..7 /\ hexpos \in Nat /\ place \in Nat
      /\ hexpos = Line + 5 + 3 * b + Gap(b) /\ place = Line + 31 + b + Gap(b)
      /\ hexpos = NumberAt(bufpos) /\ Gap(b) \in {0, 1} /\ (b = 3 => Gap(b) = 0)
  BY PlacesInLine
<1>2. /\ Pos2 = hexpos + 3 + (IF b \in {3, 7} THEN 1 ELSE 0) /\ Pos2 \in Nat
      /\ end <= Line + 30 /\ Pos2 - 1 <= end /\ end \in Int
  BY <1>1 DEF Pos2
<1>3. /\ Top = place + (IF b = 3 THEN 1 ELSE 0) /\ Top \in Nat /\ Line + 31 <= place
  BY <1>1 DEF Top
<1> HIDE DEF place, end
<1>4. /\ hexpos + 3 < Line + 31 /\ hexpos < Pos2 /\ hexpos + 2 < Pos2
       /\ \A p \in Int : p < hexpos \/ p >= Line + 31 =>
            p \notin hexpos..(hexpos + 3) /\ p # hexpos + 3 /\ p \notin Pos2..end
  BY <1>1, <1>2
<1>5. /\ DOMAIN Four(n) = (Pos2..end) \cup DOMAIN Three
      /\ \A p \in Pos2..end : Four(n)[p] = Dump!Space
      /\ \A p \in DOMAIN Three \ (Pos2..end) : Four(n)[p] = Three[p]
  <2>1. Pos2 \in Int /\ n \in Nat /\ Four(n) = Dump!Put(Three, Pos2, Dump!Spaces(n))
    BY <1>2 DEF Four
  <2>2. ArePutSpaces(Four(n), Three, Pos2, end)
    BY <2>1, PutSpaces DEF end
  <2>3. QED
    BY <2>2 DEF ArePutSpaces
<1>6. /\ DOMAIN Three = (IF b \in {3, 7} THEN {hexpos + 3} ELSE {})
                          \cup (IF b = 3 THEN {place + 1} ELSE {}) \cup DOMAIN One
      /\ b \in {3, 7} => Three[hexpos + 3] = Dump!Space
      /\ b = 3 => Three[place + 1] = Dump!Space
      /\ \A p \in DOMAIN One : p # hexpos + 3 /\ p # place + 1 => Three[p] = One[p]
      /\ b \notin {3, 7} => \A p \in DOMAIN One : Three[p] = One[p]
      /\ b # 3 => \A p \in DOMAIN One : p # hexpos + 3 => Three[p] = One[p]
  BY ThreeIs DEF place
<1>7. /\ DOMAIN One = (hexpos..(hexpos + 3)) \cup {place} \cup DOMAIN hex
      /\ One[hexpos] = <<"number", bufpos>> /\ One[hexpos + 1] = <<"number", bufpos>>
      /\ One[hexpos + 2] = Dump!Space /\ One[place] = <<"char", bufpos>>
      /\ \A p \in DOMAIN hex : p \notin hexpos..(hexpos + 3)
         /\ p # place => One[p] = hex[p]
  BY OneIs DEF place
<1>8. /\ Filled(hex, 0..(hexpos - 1)) /\ \A k \in 0..(bufpos - 1) : Shown(hex, k)
      /\ Filled(hex, (Line + 31)..(place - 1)) /\ DOMAIN hex \subseteq 0..(place - 1)
  <2>1. /\ Filled(hex, 0..(hexpos - 1)) /\ \A k \in 0..(bufpos - 1) : Shown(hex, k)
        /\ InLine
    BY DEF DumpInv
  <2>2. Line + 30 + b + Gap(b) = place - 1
    BY <1>1
  <2>3. QED
    BY <2>1, <2>2 DEF InLine
\* What is before this byte, and what is between its number and the characters.
<1>9. \A p \in DOMAIN hex : p < hexpos \/ (p >= Line + 31 /\ p < place)
        => p \in DOMAIN Four(n) /\ Four(n)[p] = hex[p]
  <2>1. ASSUME NEW p \in DOMAIN hex, p < hexpos \/ (p >= Line + 31 /\ p < place)
        PROVE  p \in DOMAIN Four(n) /\ Four(n)[p] = hex[p]
    <3>1. p \in Int /\ p # place /\ p # place + 1
      <4>1. p \in 0..(place - 1) /\ place \in Nat
        BY <1>1, <1>8
      <4>2. QED
        BY <4>1
    <3>2. p \notin hexpos..(hexpos + 3) /\ p # hexpos + 3 /\ p \notin Pos2..end
      BY <1>4, <2>1, <3>1
    <3>3. QED
      BY <1>5, <1>6, <1>7, <3>1, <3>2
  <2>2. QED
    BY <2>1
<1>10. /\ {hexpos, hexpos + 1, hexpos + 2, place} \subseteq DOMAIN Four(n)
      /\ Four(n)[hexpos] = <<"number", bufpos>> /\ Four(n)[hexpos + 1] = <<"number",
         bufpos>>
      /\ Four(n)[hexpos + 2] = Dump!Space /\ Four(n)[place] = <<"char", bufpos>>
  <2>1. \A p \in {hexpos, hexpos + 1, hexpos + 2, place} :
          p \in DOMAIN One /\ p # hexpos + 3 /\ p # place + 1 /\ p \notin Pos2..end
    BY <1>1, <1>2, <1>3, <1>7
  <2>2. QED
    BY <1>5, <1>6, <1>7, <2>1
<1>11. \A p \in (hexpos + 3)..end : p \in DOMAIN Four(n) /\ Four(n)[p] = Dump!Space
  <2>1. ASSUME NEW p \in (hexpos + 3)..end, p \notin Pos2..end
        PROVE  p \in DOMAIN Four(n) /\ Four(n)[p] = Dump!Space
    <3>1. p = hexpos + 3 /\ b \in {3, 7}
      BY <1>1, <1>2, <2>1
    <3>2. QED
      BY <1>5, <1>6, <2>1, <3>1
  <2>2. QED
    BY <1>5, <2>1
<1>12. b = 3 => place + 1 \in DOMAIN Four(n) /\ Four(n)[place + 1] = Dump!Space
  <2>1. place + 1 \notin Pos2..end
    BY <1>1, <1>2, <1>3
  <2>2. QED
    BY <1>5, <1>6, <2>1
<1>13. DOMAIN Four(n) \subseteq 0..Top
  <2>1. DOMAIN hex \subseteq 0..Top /\ place \in 0..Top
    <3>1. place \in Nat /\ Top \in Nat /\ place <= Top
      BY <1>1, <1>3
    <3>2. DOMAIN hex \subseteq 0..(place - 1)
      BY <1>8
    <3>3. QED
      BY <3>1, <3>2
  <2>2. hexpos..(hexpos + 3) \subseteq 0..Top /\ hexpos + 3 \in 0..Top
    BY <1>1, <1>3, <1>4
  <2>3. Pos2..end \subseteq 0..Top
    BY <1>1, <1>2, <1>3
  <2>4. b = 3 => place + 1 \in 0..Top
    BY <1>1, <1>3
  <2>5. QED
    BY <1>5, <1>6, <1>7, <2>1, <2>2, <2>3, <2>4
<1>14. Filled(Four(n), 0..end)
  <2>1. ASSUME NEW p \in 0..end PROVE p \in DOMAIN Four(n) /\ Four(n)[p] # Dump!NUL
    <3>1. p < hexpos \/ p \in {hexpos, hexpos + 1, hexpos + 2} \/ p \in (hexpos + 3)..end
      BY <1>1, <1>2, <2>1
    <3>2. CASE p < hexpos
      <4>1. p \in 0..(hexpos - 1)
        BY <1>1, <1>2, <2>1, <3>2
      <4>2. QED
        BY <1>8, <1>9, <3>2, <4>1 DEF Filled
    <3>3. CASE p >= hexpos
      BY <1>1, <1>10, <1>11, <3>1, <3>3, NotTheEnd
    <3>4. QED
      BY <1>1, <1>2, <3>2, <3>3
  <2>2. QED
    BY <2>1 DEF Filled
<1>15. Filled(Four(n), (Line + 31)..Top)
  <2>1. ASSUME NEW p \in (Line + 31)..Top
        PROVE p \in DOMAIN Four(n) /\ Four(n)[p] # Dump!NUL
    <3>1. p \in (Line + 31)..(place - 1) \/ p = place \/ (b = 3 /\ p = place + 1)
      BY <1>1, <1>3, <2>1
    <3>2. CASE p \in (Line + 31)..(place - 1)
      <4>1. p >= Line + 31 /\ p < place
        BY <1>1, <3>2
      <4>2. QED
        BY <1>8, <1>9, <3>2, <4>1 DEF Filled
    <3>3. CASE p = place \/ (b = 3 /\ p = place + 1)
      BY <1>10, <1>12, <3>3, NotTheEnd
    <3>4. QED
      BY <3>1, <3>2, <3>3
  <2>2. QED
    BY <2>1 DEF Filled
<1>16. ASSUME NEW k \in 0..bufpos PROVE Shown(Four(n), k)
  <2>1. CASE k = bufpos
    BY <1>1, <1>10, <2>1 DEF Shown, place
  <2>2. CASE k \in 0..(bufpos - 1)
    <3>1. /\ NumberAt(k) \in Nat /\ CharAt(k) \in Nat /\ NumberAt(k) + 1 < hexpos
          /\ CharAt(k) < Line \/ CharAt(k) \in (Line + 31)..(place - 1)
      BY <1>1, <2>2, EarlierPlaces DEF Line, place
    <3>2. /\ NumberAt(k) < hexpos
          /\ CharAt(k) < hexpos \/ (CharAt(k) >= Line + 31 /\ CharAt(k) < place)
      BY <1>1, <1>3, <3>1
    <3>3. Shown(hex, k)
      BY <1>8, <2>2
    <3>4. QED
      BY <1>9, <3>1, <3>2, <3>3 DEF Shown
  <2>3. QED
    BY <1>1, <2>1, <2>2
<1>17. QED
  BY <1>13, <1>14, <1>15, <1>16 DEF end

\* A byte that does not end its line.
LEMMA ByteWithin ==
  ASSUME DumpInv, Dump!Byte, b < 7, bufpos + 1 # len
  PROVE  DumpInv'
<1>1. /\ bufpos \in Nat /\ Line \in Nat /\ b \in 0..7 /\ hexpos \in Nat
      /\ hexpos = Line + 5 + 3 * b + Gap(b) /\ ploc = 25 - 2 * b
      /\ CharAt(bufpos) = Line + 31 + b + Gap(b) /\ Gap(b) = IF b > 3 THEN 1 ELSE 0
  BY PlacesInLine DEF Dump!Byte
<1>2. /\ hex' = Four(Pos2 - Pos2) /\ hexpos' = Pos2 /\ ploc' = ploc - 2 /\ b' = b + 1
      /\ bufpos' = bufpos + 1 /\ UNCHANGED <<len, done>>
  BY DEF Dump!Byte, Four, Three, Two, One, Pos2
<1>3. /\ Pos2 = hexpos + 3 + (IF b \in {3, 7} THEN 1 ELSE 0) /\ Pos2 \in Nat
      /\ Pos2 - Pos2 = 0 /\ Pos2 + 0 <= Line + 31 /\ Pos2 + 0 - 1 = Pos2 - 1
  BY <1>1 DEF Pos2
<1>4. /\ DOMAIN hex' \subseteq 0..Top /\ Filled(hex', 0..(Pos2 - 1))
      /\ Filled(hex', (Line + 31)..Top) /\ \A k \in 0..bufpos : Shown(hex', k)
  BY <1>2, <1>3, FourIs DEF Dump!Byte
<1>5. /\ len \in Nat /\ bufpos < len /\ ~done /\ bufpos % 8 = b
  BY DEF DumpInv, InLine, Dump!Byte
<1>6. bufpos' \div 8 = bufpos \div 8 /\ bufpos' % 8 = b'
  <2>1. bufpos \div 8 \in Nat /\ bufpos = 8 * (bufpos \div 8) + b
    BY <1>1, <1>5, DivMod
  <2>2. b + 1 \in 0..7 /\ bufpos + 1 \in Nat /\ bufpos + 1 = 8 * (bufpos \div 8) + (b + 1)
    BY <1>1, <2>1
  <2>3. QED
    BY <1>2, <2>1, <2>2, DivModIs
<1>7. Line' = Line /\ Gap(b)' = (IF b + 1 > 3 THEN 1 ELSE 0)
  BY <1>2, <1>6 DEF Line, Gap
<1>8. /\ hexpos' = Line' + 5 + 3 * b' + Gap(b)' /\ Top = Line' + 30 + b' + Gap(b)'
      /\ ploc' = 25 - 2 * b'
  <2>1. b \in 0..7 /\ Line \in Nat /\ Line' = Line /\ b' = b + 1
        /\ Gap(b)' = (IF b + 1 > 3 THEN 1 ELSE 0) /\ Gap(b) = (IF b > 3 THEN 1 ELSE 0)
    BY <1>1, <1>2, <1>7
  <2>2. hexpos' = Line' + 5 + 3 * b' + Gap(b)'
    BY <1>1, <1>2, <1>3, <2>1
  <2>3. Top = Line' + 30 + b' + Gap(b)'
    BY <1>1, <2>1 DEF Top
  <2>4. ploc' = 25 - 2 * b'
    BY <1>1, <1>2
  <2>5. QED
    BY <2>2, <2>3, <2>4
<1>9. NumberAt(bufpos)' = hexpos'
  BY <1>6, <1>8 DEF NumberAt, Line, Gap
<1>10. InLine'
  <2>1. (bufpos < len)' /\ (b = bufpos % 8)' /\ ~done'
    BY <1>1, <1>2, <1>5, <1>6
  <2>2. Line' + 30 + b' + Gap(b)' = Top /\ Line' + 31 = Line + 31
    BY <1>7, <1>8
  <2>3. /\ Filled(hex', (Line' + 31)..(Line' + 30 + b' + Gap(b)'))
        /\ DOMAIN hex' \subseteq 0..(Line' + 30 + b' + Gap(b)')
    BY <1>4, <2>2
  <2>4. QED
    BY <1>8, <1>9, <2>1, <2>3 DEF InLine, Filled
<1>11. b' \in 0..8 /\ bufpos' \in 0..len' /\ 0..(bufpos' - 1) = 0..bufpos /\ b' < 8
  BY <1>1, <1>2, <1>5
<1>12. QED
  BY <1>2, <1>4, <1>5, <1>10, <1>11 DEF DumpInv

\* A byte that ends its line, with spaces up to the characters.
LEMMA ByteAtEnd ==
  ASSUME DumpInv, Dump!Byte, b = 7 \/ bufpos + 1 = len
  PROVE  DumpInv'
<1> DEFINE n == IF b < 7 THEN 3 * (7 - b) + (IF b < 3 THEN 1 ELSE 0) + 1 ELSE 0
           after == Top + 1
<1>1. /\ bufpos \in Nat /\ Line \in Nat /\ b \in 0..7 /\ hexpos \in Nat
      /\ hexpos = Line + 5 + 3 * b + Gap(b) /\ ploc = 25 - 2 * b
      /\ CharAt(bufpos) = Line + 31 + b + Gap(b) /\ Gap(b) = (IF b > 3 THEN 1 ELSE 0)
      /\ Dump!hexlen \in Nat /\ Line + 41 <= Dump!hexlen
  BY PlacesInLine DEF Dump!Byte
<1>2. /\ Pos2 = hexpos + 3 + (IF b \in {3, 7} THEN 1 ELSE 0) /\ Pos2 \in Nat
      /\ n \in Nat /\ Pos2 + n = Line + 31
  BY <1>1 DEF Pos2
<1>3. /\ Top = CharAt(bufpos) + (IF b = 3 THEN 1 ELSE 0) /\ after \in Nat
      /\ after <= Line + 40 /\ (b = 7 => after = Line + 40)
  BY <1>1 DEF Top
<1>4. /\ hex' = Dump!Put(Four(n), after, <<Dump!Newline>>) /\ hexpos' = after + 1
      /\ b' = 8
      /\ bufpos' = bufpos + 1 /\ UNCHANGED <<len, done>>
  <2>1. CASE b = 7
    <3>1. /\ hex' = Dump!Put(Four(Pos2 - Pos2), Pos2 + (ploc - 2), <<Dump!Newline>>)
          /\ hexpos' = Pos2 + (ploc - 2) + 1 /\ b' = 8
          /\ bufpos' = bufpos + 1 /\ UNCHANGED <<len, done>>
      BY <2>1 DEF Dump!Byte, Four, Three, Two, One, Pos2
    <3>2. Pos2 - Pos2 = n /\ Pos2 + (ploc - 2) = after
      BY <1>1, <1>2, <1>3, <2>1
    <3>3. QED
      BY <3>1, <3>2
  <2>2. CASE b < 7
    <3>1. bufpos + 1 = len
      BY <2>2
    <3> DEFINE gap == IF b < 3 THEN 1 ELSE 0
               pos3 == Pos2 + 3 * (7 - b) + gap + 1
               loc3 == ploc - 2 - 3 * (7 - b) - gap
    <3>2. /\ hex' = Dump!Put(Four(pos3 - Pos2), pos3 + loc3, <<Dump!Newline>>)
          /\ hexpos' = pos3 + loc3 + 1 /\ b' = 8
          /\ bufpos' = bufpos + 1 /\ UNCHANGED <<len, done>>
      BY <2>2, <3>1 DEF Dump!Byte, Dump!Pad, Four, Three, Two, One, Pos2
    <3>3. pos3 - Pos2 = n /\ pos3 + loc3 = after
      BY <1>1, <1>2, <1>3, <2>2
    <3> HIDE DEF pos3, loc3
    <3>4. QED
      BY <3>2, <3>3
  <2>3. QED
    BY <1>1, <2>1, <2>2
<1> HIDE DEF n, after
<1>5. /\ DOMAIN Four(n) \subseteq 0..Top /\ Filled(Four(n), 0..(Line + 30))
      /\ Filled(Four(n), (Line + 31)..Top) /\ \A k \in 0..bufpos : Shown(Four(n), k)
  <2>1. Pos2 + n <= Line + 31 /\ Pos2 + n - 1 = Line + 30
    BY <1>1, <1>2
  <2>2. QED
    BY <1>2, <2>1, FourIs DEF Dump!Byte
<1>6. IsPutOne(hex', Four(n), after, Dump!Newline)
  BY <1>3, <1>4, PutOne
<1>7. /\ DOMAIN hex' = {after} \cup DOMAIN Four(n) /\ hex'[after] = Dump!Newline
      /\ \A p \in DOMAIN Four(n) : p # after => hex'[p] = Four(n)[p]
  BY <1>6 DEF IsPutOne
<1>8. after = Top + 1 /\ Top \in Nat /\ \A p \in 0..Top : p # after
  BY <1>1, <1>3 DEF after
<1>9. Filled(hex', 0..(hexpos' - 1))
  <2>1. ASSUME NEW p \in 0..(hexpos' - 1) PROVE p \in DOMAIN hex' /\ hex'[p] # Dump!NUL
    <3>1. p \in 0..(Line + 30) \/ p \in (Line + 31)..Top \/ p = after
      BY <1>1, <1>4, <1>8, <2>1
    <3>2. p = after \/ (p \in DOMAIN Four(n) /\ Four(n)[p] # Dump!NUL /\ p # after)
      BY <1>5, <1>8, <3>1 DEF Filled
    <3>3. QED
      BY <1>7, <3>2, NotTheEnd
  <2>2. QED
    BY <2>1 DEF Filled
<1>10. ASSUME NEW k \in 0..bufpos PROVE Shown(hex', k)
  <2>1. Shown(Four(n), k) /\ DOMAIN Four(n) \subseteq 0..Top
    BY <1>5
  <2>2. \A p \in {NumberAt(k), NumberAt(k) + 1, CharAt(k)} :
          p \in DOMAIN Four(n) /\ p \in DOMAIN hex' /\ hex'[p] = Four(n)[p]
    BY <1>7, <1>8, <2>1 DEF Shown
  <2>3. QED
    BY <2>1, <2>2 DEF Shown
<1>11. DOMAIN hex' \subseteq 0..(hexpos' - 1) /\ hexpos' \in 0..Dump!hexlen'
       /\ hexpos' <= Line + 41
  <2>1. Dump!hexlen' = Dump!hexlen
    BY <1>4 DEF Dump!hexlen, Dump!lines
  <2>2. hexpos' - 1 = after /\ hexpos' \in 0..Dump!hexlen /\ hexpos' <= Line + 41
    BY <1>1, <1>3, <1>4
  <2>3. 0..Top \subseteq 0..after /\ after \in 0..after
    BY <1>8
  <2>4. QED
    BY <1>5, <1>7, <2>1, <2>2, <2>3
<1>12. /\ len \in Nat /\ bufpos < len /\ ~done /\ bufpos % 8 = b /\ done \in BOOLEAN
  BY DEF DumpInv, InLine, Dump!Byte
<1>13. ASSUME bufpos' < len' PROVE BetweenLines'
  <2>1. b = 7 /\ hexpos' = Line + 41
    BY <1>1, <1>3, <1>4, <1>12, <1>13
  <2>2. bufpos \div 8 \in Nat /\ bufpos = 8 * (bufpos \div 8) + 7
    BY <1>1, <1>12, <2>1, DivMod
  <2>3. /\ bufpos + 1 \in Nat /\ (bufpos \div 8) + 1 \in Nat /\ 0 \in 0..7
        /\ bufpos + 1 = 8 * ((bufpos \div 8) + 1) + 0
    BY <1>1, <2>2
  <2>4. bufpos' % 8 = 0 /\ bufpos' \div 8 = (bufpos \div 8) + 1
    BY <1>4, <2>3, DivModIs
  <2>5. Line' = Line + 41
    BY <2>2, <2>4 DEF Line
  <2>6. QED
    BY <1>4, <1>11, <1>12, <2>1, <2>4, <2>5 DEF BetweenLines
<1>14. AtEnd'
  BY <1>4, <1>11, <1>12 DEF AtEnd
<1>15. bufpos' \in 0..len' /\ 0..(bufpos' - 1) = 0..bufpos /\ b' \in 0..8 /\ ~(b' < 8)
  BY <1>1, <1>4, <1>12
<1>16. QED
  BY <1>4, <1>9, <1>10, <1>12, <1>13, <1>14, <1>15 DEF DumpInv

LEMMA DumpStep == DumpInv /\ [Dump!Next]_dumpVars => DumpInv'
<1> SUFFICES ASSUME DumpInv, [Dump!Next]_dumpVars PROVE DumpInv'
  OBVIOUS
<1>1. CASE Dump!Byte
  <2>1. b \in 0..8 /\ b < 8
    BY <1>1 DEF DumpInv, Dump!Byte
  <2>2. (b < 7 /\ bufpos + 1 # len) \/ (b = 7 \/ bufpos + 1 = len)
    BY <2>1
  <2>3. QED
    BY <1>1, <2>2, ByteWithin, ByteAtEnd
<1>2. CASE UNCHANGED dumpVars
  <2>1. UNCHANGED <<len, hex, hexpos, ploc, bufpos, b, done>>
    BY <1>2 DEF dumpVars
  <2>2. Line' = Line /\ Dump!hexlen' = Dump!hexlen /\ Gap(b)' = Gap(b)
    BY <2>1 DEF Line, Dump!hexlen, Dump!lines, Gap
  <2>3. NumberAt(bufpos)' = NumberAt(bufpos)
    BY <2>1 DEF NumberAt, Gap
  <2>4. (InLine => InLine') /\ (BetweenLines => BetweenLines') /\ (AtEnd => AtEnd')
    <3>1. InLine => InLine'
      BY <2>1, <2>2, <2>3 DEF InLine, Filled
    <3>2. BetweenLines => BetweenLines'
      BY <2>1, <2>2 DEF BetweenLines
    <3>3. AtEnd => AtEnd'
      BY <2>1, <2>2 DEF AtEnd
    <3>4. QED
      BY <3>1, <3>2, <3>3
  <2>5. /\ Filled(hex, 0..(hexpos - 1))' <=> Filled(hex, 0..(hexpos - 1))
        /\ \A k : Shown(hex, k)' <=> Shown(hex, k)
    BY <2>1 DEF Filled, Shown, NumberAt, CharAt, Gap
  <2>6. QED
    BY <2>1, <2>4, <2>5 DEF DumpInv
<1>3. QED
  BY <1>1, <1>2, StartLineKeeps, FinishKeeps DEF Dump!Next

LEMMA DumpInvariance == Spec => []DumpInv
<1>1. Init => Dump!Init
  BY DEF Init
<1>2. [Next]_vars => [Dump!Next]_dumpVars
  BY DEF Next, Only, vars, dumpVars
<1>3. QED
  BY <1>1, <1>2, DumpInit, DumpStep, PTL DEF Spec

-----------------------------------------------------------------------------
(* The theorem.                                                            *)

LEMMA InvStaysInBuffer == DumpInv => Dump!InBuffer
<1> SUFFICES ASSUME DumpInv PROVE Dump!InBuffer
  OBVIOUS
<1>1. len \in Nat /\ bufpos \in 0..len /\ b \in 0..8 /\ done \in BOOLEAN
  BY DEF DumpInv
<1>2. Dump!hexlen \in Nat
  <2>1. len + 7 \in Nat
    BY <1>1
  <2>2. (len + 7) \div 8 \in Nat
    BY <2>1, DivMod
  <2>3. QED
    BY <2>2 DEF Dump!hexlen, Dump!lines
<1>3. CASE b < 8
  <2>1. /\ Line \in Nat /\ Line + 41 <= Dump!hexlen /\ b \in 0..7 /\ Gap(b) \in {0, 1}
        /\ DOMAIN hex \subseteq 0..(Line + 30 + b + Gap(b))
    BY <1>3, PlacesInLine DEF DumpInv, InLine
  <2>2. QED
    BY <1>2, <2>1 DEF Dump!InBuffer
<1>4. CASE b = 8 /\ bufpos < len
  <2>1. /\ bufpos \div 8 \in Nat /\ bufpos = 8 * (bufpos \div 8) + (bufpos % 8)
        /\ bufpos % 8 = 0 /\ DOMAIN hex \subseteq 0..(Line - 1)
    BY <1>1, <1>4, DivMod DEF DumpInv, BetweenLines
  <2>2. /\ (len + 7) \div 8 \in Nat /\ (len + 7) % 8 \in 0..7
        /\ len + 7 = 8 * ((len + 7) \div 8) + ((len + 7) % 8)
    BY <1>1, DivMod
  <2>3. (len + 7) \div 8 >= bufpos \div 8
    BY <1>1, <1>4, <2>1, <2>2
  <2>4. Line <= Dump!hexlen /\ Line \in Nat
    BY <2>1, <2>2, <2>3 DEF Line, Dump!hexlen, Dump!lines
  <2>5. QED
    BY <1>2, <2>1, <2>4 DEF Dump!InBuffer
<1>5. CASE b = 8 /\ bufpos = len
  <2>1. AtEnd
    BY <1>5 DEF DumpInv
  <2>2. QED
    BY <1>2, <2>1 DEF AtEnd, Dump!InBuffer
<1>6. QED
  BY <1>1, <1>3, <1>4, <1>5

LEMMA InvAligns == DumpInv => Dump!ColumnsAlign
<1> SUFFICES ASSUME DumpInv, done PROVE Dump!ColumnsAlign
  BY DEF Dump!ColumnsAlign
<1>1. b = 8 /\ bufpos = len /\ len \in Nat
  BY DEF DumpInv, InLine, BetweenLines
<1>2. \A p \in 0..(hexpos - 1) : p \in DOMAIN hex /\ hex[p] # Dump!NUL
  BY DEF DumpInv, Filled
<1>3. ASSUME NEW k \in 0..(len - 1)
      PROVE  LET line == 41 * (k \div 8)
                 col  == k % 8
                 gap  == IF col > 3 THEN 1 ELSE 0
             IN /\ hex[line + 5 + 3 * col + gap] = <<"number", k>>
                /\ hex[line + 6 + 3 * col + gap] = <<"number", k>>
                /\ hex[line + 31 + col + gap] = <<"char", k>>
  <2>1. k \in Nat /\ k \div 8 \in Nat /\ k % 8 \in 0..7
    BY <1>1, DivMod
  <2>2. Shown(hex, k)
    BY <1>1 DEF DumpInv
  <2> DEFINE line == 41 * (k \div 8)
             gap  == IF k % 8 > 3 THEN 1 ELSE 0
  <2>3. /\ NumberAt(k) = line + 5 + 3 * (k % 8) + gap
        /\ NumberAt(k) + 1 = line + 6 + 3 * (k % 8) + gap
        /\ CharAt(k) = line + 31 + (k % 8) + gap
    BY <2>1 DEF NumberAt, CharAt, Gap
  <2>4. QED
    BY <2>2, <2>3 DEF Shown
<1>4. QED
  BY <1>2, <1>3 DEF Dump!ColumnsAlign

\* For writes of any length, write_hex never leaves its buffer of 41 characters
\* a line and two more, and puts the digits and the character of every byte into
\* its columns, without a hole (tcproxy.cpp, write_hex).
THEOREM DumpIsRight == Spec => []DumpFits
<1>1. DumpInv => DumpFits
  BY InvStaysInBuffer, InvAligns DEF DumpFits, Dump!DumpFits
<1>2. QED
  BY <1>1, DumpInvariance, PTL


\* What the invariant leaves open: the lengths there may be, and the distance of
\* the characters between two lines.
DumpRest == len \in Lengths /\ ploc \in Int

LEMMA DumpRestStep == DumpInv /\ DumpRest /\ [Dump!Next]_dumpVars => DumpRest'
<1> SUFFICES ASSUME DumpInv, DumpRest, [Dump!Next]_dumpVars PROVE DumpRest'
  OBVIOUS
<1>1. CASE Dump!StartLine \/ Dump!Finish \/ UNCHANGED dumpVars
  BY <1>1 DEF DumpRest, Dump!StartLine, Dump!Finish, dumpVars
<1>2. CASE Dump!Byte
  <2>1. b \in 0..8 /\ ploc \in Int /\ ploc - 2 \in Int
    BY DEF DumpInv, DumpRest
  <2>2. \A pos : Dump!Pad(pos, ploc - 2).ploc \in Int
    BY <2>1 DEF Dump!Pad
  <2>3. len' = len /\ \E pos : ploc' \in {Dump!Pad(pos, ploc - 2).ploc, ploc - 2}
    BY <1>2, Zenon DEF Dump!Byte
  <2>4. QED
    BY <2>1, <2>2, <2>3 DEF DumpRest
<1>3. QED
  BY <1>1, <1>2 DEF Dump!Next

\* Every variable of the dump keeps its type.
THEOREM DumpTypes == Spec => []Dump!TypeOK
<1>1. Init => DumpRest
  BY DEF Init, Dump!Init, DumpRest
<1>2. [Next]_vars => [Dump!Next]_dumpVars
  BY DEF Next, Only, vars, dumpVars
<1>3. DumpInv /\ DumpRest => Dump!TypeOK
  <2> SUFFICES ASSUME DumpInv, DumpRest PROVE Dump!TypeOK
    OBVIOUS
  <2>1. len \in Nat /\ bufpos \in 0..len /\ b \in 0..8 /\ done \in BOOLEAN
    BY DEF DumpInv
  <2>2. DOMAIN hex \subseteq Int /\ hexpos \in Int
    <3>1. Line \in Int /\ Gap(b) \in Int /\ NumberAt(bufpos) \in Int /\ Dump!hexlen \in Int
      <4>1. bufpos \in Int /\ bufpos \div 8 \in Int /\ bufpos % 8 \in Int
        BY <2>1
      <4>2. Gap(b) \in Int /\ Gap(bufpos % 8) \in Int
        BY DEF Gap
      <4>3. Dump!hexlen \in Int
        BY <2>1 DEF Dump!hexlen, Dump!lines
      <4>4. QED
        BY <4>1, <4>2, <4>3 DEF Line, NumberAt
    <3>2. CASE b < 8
      BY <2>1, <3>1, <3>2 DEF DumpInv, InLine
    <3>3. CASE b = 8 /\ bufpos < len
      BY <2>1, <3>1, <3>3 DEF DumpInv, BetweenLines
    <3>4. CASE b = 8 /\ bufpos = len
      BY <2>1, <3>1, <3>4 DEF DumpInv, AtEnd
    <3>5. QED
      BY <2>1, <3>2, <3>3, <3>4
  <2>3. QED
    BY <2>1, <2>2 DEF DumpRest, Dump!TypeOK
<1>4. QED
  BY <1>1, <1>2, <1>3, DumpRestStep, DumpInvariance, PTL DEF Spec

-----------------------------------------------------------------------------
(* The port selectors.                                                     *)

\* What the list and the screen are made of.
ListItems   == 1..MaxSelectors \cup {NULL}
ScreenItems == [id : 1..MaxSelectors, tag : Nat]

\* The fragments of a view were numbered up to m, and tagged, when they were
\* added.
Numbered(view, m) ==
  /\ \A i \in 1..Len(view) : view[i].id <= m /\ view[i].tag > 0
  /\ \A i, j \in 1..Len(view) : view[i].id = view[j].id => i = j

\* Until the view is made anew the list is what the view shows.
Matches(list, view) ==
  Len(list) = Len(view) /\ \A i \in 1..Len(view) : list[i] = view[i].id

\* From then on it has a selector that no tag has brought back.
HasLost(list) == \E i \in 1..Len(list) : list[i] = NULL

\* The inductive invariant.
SelectorsInv ==
  /\ Selectors!TypeOK /\ Numbered(fragments, made) /\ portSelectors # <<>>
  /\ restores = 0 => ~settingsCrashed /\ Matches(portSelectors, fragments)
  /\ restores > 0 => HasLost(portSelectors)
  /\ asked # {} => restores = 0 /\ asked = Selectors!Fragments

LEMMA SelectorsInit == Selectors!Init => SelectorsInv
<1> SUFFICES ASSUME Selectors!Init PROVE SelectorsInv
  OBVIOUS
<1>1. /\ portSelectors = <<1>> /\ fragments = <<[id |-> 1, tag |-> 1]>> /\ made = 1
      /\ restores = 0 /\ asked = {} /\ settingsCrashed = FALSE
  BY DEF Selectors!Init
<1>2. /\ Len(portSelectors) = 1 /\ Len(fragments) = 1 /\ portSelectors[1] = 1
      /\ fragments[1] = [id |-> 1, tag |-> 1] /\ portSelectors # <<>>
  BY <1>1
<1>3. Selectors!TypeOK
  <2>1. 1 \in 1..MaxSelectors /\ 0 \in 0..MaxRestores /\ 1 \in 0..MaxSelectors
    BY SelectorsAssumption
  <2>2. portSelectors \in Seq(1..MaxSelectors \cup {NULL})
    BY <1>1, <2>1
  <2>3. fragments \in Seq([id : 1..MaxSelectors, tag : Nat])
    BY <1>1, <2>1
  <2>4. QED
    BY <1>1, <2>1, <2>2, <2>3 DEF Selectors!TypeOK
<1>4. QED
  BY <1>1, <1>2, <1>3 DEF SelectorsInv, Numbered, Matches

\* The types, in the terms of what follows.
LEMMA SelectorsTyped ==
  ASSUME Selectors!TypeOK
  PROVE  /\ portSelectors \in Seq(ListItems) /\ fragments \in Seq(ScreenItems)
         /\ Len(portSelectors) \in Nat /\ Len(fragments) \in Nat
         /\ DOMAIN portSelectors = 1..Len(portSelectors)
         /\ DOMAIN fragments = 1..Len(fragments)
         /\ \A i \in 1..Len(portSelectors) : portSelectors[i] \in ListItems
         /\ \A i \in 1..Len(fragments) : fragments[i] \in ScreenItems
<1>1. portSelectors \in Seq(ListItems) /\ fragments \in Seq(ScreenItems)
  BY DEF Selectors!TypeOK, ListItems, ScreenItems
<1>2. QED
  BY <1>1, LenProperties, ElementOfSeq

\* A selector is added behind a list and a view.
LEMMA AddKeeps ==
  ASSUME NEW list \in Seq(ListItems), NEW view \in Seq(ScreenItems),
         made \in 0..MaxSelectors, Numbered(view, made), Selectors!WithNew(list, view)
  PROVE  /\ made' \in 0..MaxSelectors /\ portSelectors' \in Seq(ListItems)
         /\ fragments' \in Seq(ScreenItems) /\ Numbered(fragments', made')
         /\ portSelectors' # <<>>
         /\ Matches(list, view) => Matches(portSelectors', fragments')
         /\ HasLost(list) => HasLost(portSelectors')
<1> DEFINE new == [id |-> made', tag |-> Len(list) + 1]
<1>1. /\ made < MaxSelectors /\ made' = made + 1 /\ portSelectors' = Append(list, made')
      /\ fragments' = Append(view, new) /\ made' \in 1..MaxSelectors
  BY SelectorsAssumption DEF Selectors!WithNew
<1>2. Len(list) \in Nat /\ Len(view) \in Nat
      /\ \A i \in 1..Len(view) : view[i] \in ScreenItems
  BY LenProperties, ElementOfSeq
<1>3. made' \in ListItems /\ new \in ScreenItems /\ new.id = made'
      /\ new.tag = Len(list) + 1
  BY <1>1, <1>2 DEF ListItems, ScreenItems
<1> HIDE DEF new
<1>4. /\ portSelectors' \in Seq(ListItems) /\ portSelectors' # <<>>
      /\ Len(portSelectors') = Len(list) + 1 /\ portSelectors'[Len(list) + 1] = made'
      /\ \A i \in 1..Len(list) : portSelectors'[i] = list[i]
  BY <1>1, <1>3, AppendProperties
<1>5. /\ fragments' \in Seq(ScreenItems)
      /\ Len(fragments') = Len(view) + 1 /\ fragments'[Len(view) + 1] = new
      /\ \A i \in 1..Len(view) : fragments'[i] = view[i]
  BY <1>1, <1>3, AppendProperties
<1>6. \A i \in 1..Len(fragments') : i \in 1..Len(view) \/ i = Len(view) + 1
  BY <1>2, <1>5
<1>7. Numbered(fragments', made')
  <2>1. \A i \in 1..Len(view) : view[i].id \in Nat /\ view[i].id <= made
        /\ view[i].tag > 0
    BY <1>2 DEF Numbered, ScreenItems
  <2>2. \A i \in 1..Len(fragments') : fragments'[i].id <= made' /\ fragments'[i].tag > 0
    BY <1>1, <1>2, <1>3, <1>5, <1>6, <2>1
  <2>3. \A i \in 1..Len(view) : fragments'[i].id # new.id
    BY <1>1, <1>3, <1>5, <2>1
  <2>4. \A i, j \in 1..Len(fragments') : fragments'[i].id = fragments'[j].id => i = j
    BY <1>5, <1>6, <2>3 DEF Numbered
  <2>5. QED
    BY <2>2, <2>4 DEF Numbered
<1>8. Matches(list, view) => Matches(portSelectors', fragments')
  BY <1>3, <1>4, <1>5, <1>6 DEF Matches
<1>9. HasLost(list) => HasLost(portSelectors')
  BY <1>2, <1>4 DEF HasLost
<1>10. made' \in 0..MaxSelectors
  BY <1>1
<1>11. QED
  BY <1>4, <1>5, <1>7, <1>8, <1>9, <1>10

\* A selector is taken out of the list where it is first,
LEMMA UnlistedIs ==
  ASSUME Selectors!TypeOK, NEW k, Selectors!Contains(portSelectors, k)
  PROVE  \E i \in 1..Len(portSelectors) :
           /\ portSelectors[i] = k
           /\ Selectors!Unlisted(k) = SubSeq(portSelectors, 1, i - 1)
                                        \o SubSeq(portSelectors, i + 1,
                                           Len(portSelectors))
<1> DEFINE I == {i \in 1..Len(portSelectors) : portSelectors[i] = k}
<1>1. I \subseteq Nat /\ I # {}
  BY DEF Selectors!Contains
<1>2. \E i \in I : \A j \in I : i <= j
  <2> HIDE DEF I
  <2> QED
    BY <1>1, LeastNumber
<1>3. Selectors!Min(I) \in I
  <2> HIDE DEF I
  <2> QED
    BY <1>2 DEF Selectors!Min
<1>4. Selectors!SelectInSeq(portSelectors, LAMBDA v : v = k) = Selectors!Min(I)
  BY <1>1 DEF Selectors!SelectInSeq
<1>5. Selectors!Unlisted(k) = Selectors!RemoveAt(portSelectors, Selectors!Min(I))
  BY <1>1, <1>4 DEF Selectors!Unlisted, Selectors!RemoveFirst
<1>6. Selectors!Min(I) \in 1..Len(portSelectors) /\ portSelectors[Selectors!Min(I)] = k
  BY <1>3
<1> HIDE DEF I
<1>7. QED
  BY <1>5, <1>6 DEF Selectors!RemoveAt

\* and off the screen.
LEMMA HiddenIs ==
  ASSUME Selectors!TypeOK, NEW k \in Selectors!Fragments
  PROVE  \E i \in 1..Len(fragments) :
           /\ fragments[i].id = k
           /\ Selectors!Hidden(k) = SubSeq(fragments, 1, i - 1)
                                      \o SubSeq(fragments, i + 1, Len(fragments))
<1> DEFINE I == {i \in 1..Len(fragments) : fragments[i].id = k}
<1>1. I \subseteq Nat /\ I # {}
  BY SelectorsTyped DEF Selectors!Fragments
<1>2. \E i \in I : \A j \in I : i <= j
  <2> HIDE DEF I
  <2> QED
    BY <1>1, LeastNumber
<1>3. Selectors!Min(I) \in I
  <2> HIDE DEF I
  <2> QED
    BY <1>2 DEF Selectors!Min
<1>4. Selectors!SelectInSeq(fragments, LAMBDA f : f.id = k) = Selectors!Min(I)
  BY <1>1 DEF Selectors!SelectInSeq
<1>5. Selectors!Hidden(k) = Selectors!RemoveAt(fragments, Selectors!Min(I))
  BY <1>1, <1>4 DEF Selectors!Hidden, Selectors!RemoveFirstMatch
<1>6. Selectors!Min(I) \in 1..Len(fragments) /\ fragments[Selectors!Min(I)].id = k
  BY <1>3
<1> HIDE DEF I
<1>7. QED
  BY <1>5, <1>6 DEF Selectors!RemoveAt

\* What is left of a list that matches the view still does; what it has lost
\* is not taken out.
LEMMA RemovalLeaves ==
  ASSUME SelectorsInv, NEW k \in Selectors!Fragments, Selectors!Contains(portSelectors, k)
  PROVE  /\ Selectors!Unlisted(k) \in Seq(ListItems)
         /\ Selectors!Hidden(k) \in Seq(ScreenItems)
         /\ Numbered(Selectors!Hidden(k), made)
         /\ restores = 0 => Matches(Selectors!Unlisted(k), Selectors!Hidden(k))
         /\ restores > 0 => HasLost(Selectors!Unlisted(k))
<1> DEFINE list == Selectors!Unlisted(k)
           view == Selectors!Hidden(k)
<1>1. Selectors!TypeOK /\ Numbered(fragments, made)
  BY DEF SelectorsInv
<1>2. /\ portSelectors \in Seq(ListItems) /\ fragments \in Seq(ScreenItems)
      /\ Len(portSelectors) \in Nat /\ Len(fragments) \in Nat
  BY <1>1, SelectorsTyped
<1>3. PICK i \in 1..Len(portSelectors) :
        /\ portSelectors[i] = k
        /\ list = SubSeq(portSelectors, 1, i - 1) \o SubSeq(portSelectors, i + 1,
           Len(portSelectors))
  BY <1>1, UnlistedIs
<1>4. PICK h \in 1..Len(fragments) :
        /\ fragments[h].id = k
        /\ view = SubSeq(fragments, 1, h - 1) \o SubSeq(fragments, h + 1,
           Len(fragments))
  BY <1>1, HiddenIs
<1> HIDE DEF list, view
<1>5. /\ list \in Seq(ListItems) /\ Len(list) = Len(portSelectors) - 1
      /\ \A j \in 1..Len(list) :
         list[j] = IF j < i THEN portSelectors[j] ELSE portSelectors[j + 1]
  BY <1>2, <1>3, RemoveAtProperties
<1>6. /\ view \in Seq(ScreenItems) /\ Len(view) = Len(fragments) - 1
      /\ \A j \in 1..Len(view) :
         view[j] = IF j < h THEN fragments[j] ELSE fragments[j + 1]
  BY <1>2, <1>4, RemoveAtProperties
<1>7. Numbered(view, made)
  <2> DEFINE from(j) == IF j < h THEN j ELSE j + 1
  <2>1. ASSUME NEW j \in 1..Len(view)
        PROVE  from(j) \in 1..Len(fragments) /\ view[j] = fragments[from(j)]
    <3>1. j \in 1..Len(fragments) /\ j + 1 \in 1..Len(fragments)
      BY <1>2, <1>6
    <3>2. QED
      BY <1>6, <3>1
  <2>2. \A j, l \in 1..Len(view) : from(j) = from(l) => j = l
    BY <1>2, <1>6
  <2> HIDE DEF from
  <2>3. \A j \in 1..Len(view) : view[j].id <= made /\ view[j].tag > 0
    BY <1>1, <2>1 DEF Numbered
  <2>4. \A j, l \in 1..Len(view) : view[j].id = view[l].id => from(j) = from(l)
    BY <1>1, <2>1 DEF Numbered
  <2>5. QED
    BY <2>2, <2>3, <2>4 DEF Numbered
<1>8. ASSUME restores = 0 PROVE Matches(list, view)
  <2>1. Matches(portSelectors, fragments)
    BY <1>8 DEF SelectorsInv
  <2>2. i = h
    BY <1>1, <1>3, <1>4, <2>1 DEF Matches, Numbered
  <2>3. \A j \in 1..Len(view) : j \in 1..Len(fragments) /\ j + 1 \in 1..Len(fragments)
    BY <1>2, <1>6
  <2>4. QED
    BY <1>5, <1>6, <2>1, <2>2, <2>3 DEF Matches
<1>9. ASSUME restores > 0 PROVE HasLost(list)
  <2>1. PICK n \in 1..Len(portSelectors) : portSelectors[n] = NULL
    BY <1>9 DEF SelectorsInv, HasLost
  <2>2. k \in Int
    <3>1. fragments[h] \in ScreenItems
      BY <1>2, ElementOfSeq
    <3>2. QED
      BY <1>4, <3>1 DEF ScreenItems
  <2>3. n # i
    BY <1>3, <2>1, <2>2, SelectorsAssumption
  <2>4. CASE n < i
    <3>1. n \in 1..Len(list) /\ list[n] = portSelectors[n]
      BY <1>2, <1>5, <2>4
    <3>2. QED
      BY <2>1, <3>1 DEF HasLost
  <2>5. CASE n > i
    <3>1. n - 1 \in 1..Len(list) /\ ~(n - 1 < i) /\ n - 1 + 1 = n
      BY <1>2, <1>5, <2>5
    <3>2. QED
      BY <1>5, <2>1, <3>1 DEF HasLost
  <2>6. QED
    BY <2>3, <2>4, <2>5
<1>10. QED
  BY <1>5, <1>6, <1>7, <1>8, <1>9 DEF list, view

\* findFragmentByTag gives a fragment or null, and null for the tag 0.
LEMMA ByTagType ==
  ASSUME Selectors!TypeOK, Numbered(fragments, made), NEW tag \in Nat
  PROVE  Selectors!ByTag(tag) \in ListItems /\ (tag = 0 => Selectors!ByTag(tag) = NULL)
<1> DEFINE with == {i \in DOMAIN fragments : fragments[i].tag = tag}
<1>1. /\ DOMAIN fragments = 1..Len(fragments) /\ Len(fragments) \in Nat
      /\ \A i \in 1..Len(fragments) : fragments[i] \in ScreenItems
  BY SelectorsTyped
<1>2. CASE with = {}
  BY <1>2 DEF Selectors!ByTag, ListItems
<1>3. CASE with # {}
  <2>1. with \subseteq 0..Len(fragments)
    BY <1>1
  <2>2. \E i \in with : \A j \in with : j <= i
    <3> HIDE DEF with
    <3> QED
      BY <1>1, <1>3, <2>1, GreatestNumber
  <2>3. (CHOOSE i \in with : \A j \in with : j <= i) \in with
    <3> HIDE DEF with
    <3> QED
      BY <2>2
  <2>4. Selectors!ByTag(tag) = fragments[CHOOSE i \in with : \A j \in with : j <= i].id
    BY <1>3 DEF Selectors!ByTag
  <2>5. tag # 0
    BY <1>1, <1>3 DEF Numbered
  <2>6. QED
    <3> DEFINE last == CHOOSE i \in with : \A j \in with : j <= i
    <3>1. last \in 1..Len(fragments) /\ fragments[last] \in ScreenItems
      BY <1>1, <2>3
    <3> HIDE DEF last
    <3>2. fragments[last].id \in ListItems
      BY <3>1 DEF ScreenItems, ListItems
    <3>3. QED
      BY <2>4, <2>5, <3>2 DEF last
<1>4. QED
  BY <1>2, <1>3

\* Every step keeps the invariant.
LEMMA SelectorsStep == SelectorsInv /\ [Selectors!Next]_selectorsVars => SelectorsInv'
<1> SUFFICES ASSUME SelectorsInv, [Selectors!Next]_selectorsVars PROVE SelectorsInv'
  OBVIOUS
<1>1. /\ Selectors!TypeOK /\ Numbered(fragments, made) /\ portSelectors # <<>>
      /\ made \in 0..MaxSelectors /\ restores \in 0..MaxRestores
      /\ asked \subseteq 1..MaxSelectors /\ settingsCrashed \in BOOLEAN
  BY DEF SelectorsInv, Selectors!TypeOK
<1>2. /\ portSelectors \in Seq(ListItems) /\ fragments \in Seq(ScreenItems)
      /\ Len(portSelectors) \in Nat /\ Len(fragments) \in Nat
      /\ DOMAIN portSelectors = 1..Len(portSelectors)
      /\ DOMAIN fragments = 1..Len(fragments)
      /\ \A i \in 1..Len(portSelectors) : portSelectors[i] \in ListItems
      /\ \A i \in 1..Len(fragments) : fragments[i] \in ScreenItems
  BY <1>1, SelectorsTyped
<1>3. CASE Selectors!AddPort
  <2>1. /\ asked = {} /\ ~settingsCrashed /\ Selectors!WithNew(portSelectors, fragments)
        /\ UNCHANGED <<restores, asked, settingsCrashed>>
    BY <1>3 DEF Selectors!AddPort, Selectors!Open
  <2>2. /\ made' \in 0..MaxSelectors /\ portSelectors' \in Seq(ListItems)
        /\ fragments' \in Seq(ScreenItems) /\ Numbered(fragments', made')
        /\ portSelectors' # <<>>
        /\ Matches(portSelectors, fragments) => Matches(portSelectors', fragments')
        /\ HasLost(portSelectors) => HasLost(portSelectors')
    BY <1>1, <1>2, <2>1, AddKeeps
  <2>3. QED
    BY <1>1, <2>1, <2>2 DEF SelectorsInv, Selectors!TypeOK, ListItems, ScreenItems
<1>4. ASSUME NEW k \in Selectors!Fragments, Selectors!RemovePort(k) PROVE SelectorsInv'
  <2>1. /\ asked = {} /\ ~settingsCrashed /\ Selectors!Contains(portSelectors, k)
        /\ UNCHANGED <<restores, asked, settingsCrashed>>
    BY <1>4 DEF Selectors!RemovePort, Selectors!Open
  <2>2. /\ Selectors!Unlisted(k) \in Seq(ListItems)
        /\ Selectors!Hidden(k) \in Seq(ScreenItems)
        /\ Numbered(Selectors!Hidden(k), made)
        /\ restores = 0 => Matches(Selectors!Unlisted(k), Selectors!Hidden(k))
        /\ restores > 0 => HasLost(Selectors!Unlisted(k))
    <3>1. Selectors!Contains(portSelectors, k) /\ SelectorsInv
      BY <2>1
    <3>2. QED
      BY <1>4, <3>1, RemovalLeaves
  <2>3. CASE Selectors!Unlisted(k) = <<>>
    <3>1. Selectors!WithNew(<<>>, Selectors!Hidden(k)) /\ <<>> \in Seq(ListItems)
      BY <1>4, <2>2, <2>3 DEF Selectors!RemovePort
    <3>2. /\ made' \in 0..MaxSelectors /\ portSelectors' \in Seq(ListItems)
          /\ fragments' \in Seq(ScreenItems) /\ Numbered(fragments', made')
          /\ portSelectors' # <<>>
          /\ Matches(<<>>, Selectors!Hidden(k)) => Matches(portSelectors', fragments')
          /\ HasLost(<<>>) => HasLost(portSelectors')
      BY <1>1, <2>2, <3>1, AddKeeps
    <3>3. QED
      BY <1>1, <2>1, <2>2, <2>3, <3>2 DEF SelectorsInv, Selectors!TypeOK, ListItems,
         ScreenItems
  <2>4. CASE Selectors!Unlisted(k) # <<>>
    <3>1. /\ portSelectors' = Selectors!Unlisted(k) /\ fragments' = Selectors!Hidden(k)
          /\ made' = made
      BY <1>4, <2>4 DEF Selectors!RemovePort
    <3>2. QED
      BY <1>1, <2>1, <2>2, <2>4, <3>1 DEF SelectorsInv, Selectors!TypeOK, ListItems,
         ScreenItems
  <2>5. QED
    BY <2>3, <2>4
<1>5. CASE Selectors!Restore
  <2>1. /\ asked = {} /\ ~settingsCrashed /\ restores' = restores + 1
        /\ restores' \in 0..MaxRestores
        /\ portSelectors' = [i \in 1..Len(portSelectors) |-> Selectors!ByTag(i - 1)]
        /\ UNCHANGED <<fragments, made, asked, settingsCrashed>>
    BY <1>1, <1>5, SelectorsAssumption DEF Selectors!Restore, Selectors!Open
  <2>2. /\ \A i \in 1..Len(portSelectors) : Selectors!ByTag(i - 1) \in ListItems
        /\ Selectors!ByTag(0) = NULL
    BY <1>1, <1>2, ByTagType
  <2>3. portSelectors' \in Seq(ListItems) /\ Len(portSelectors') = Len(portSelectors)
    <3>1. portSelectors' \in [1..Len(portSelectors) -> ListItems]
      BY <2>1, <2>2
    <3>2. QED
      BY <1>2, <3>1, SeqDef, LenProperties
  <2>4. 1 \in 1..Len(portSelectors)
    BY <1>1, <1>2, EmptySeq
  <2>5. portSelectors'[1] = NULL /\ portSelectors' # <<>>
    BY <2>1, <2>2, <2>3, <2>4
  <2>6. HasLost(portSelectors') /\ restores' # 0
    BY <1>1, <2>1, <2>3, <2>4, <2>5 DEF HasLost
  <2>7. QED
    BY <1>1, <2>1, <2>3, <2>5, <2>6 DEF SelectorsInv, Selectors!TypeOK, ListItems
<1>6. CASE Selectors!Toggle
  <2>1. /\ asked = {} /\ ~settingsCrashed /\ UNCHANGED <<portSelectors, fragments, made,
           restores>>
    BY <1>6 DEF Selectors!Toggle, Selectors!Open
  <2>2. CASE \A i \in DOMAIN portSelectors : portSelectors[i] \in Selectors!Fragments
    <3>1. /\ asked' = {portSelectors[i] : i \in DOMAIN portSelectors}
          /\ settingsCrashed' = settingsCrashed
      BY <1>6, <2>2 DEF Selectors!Toggle
    <3>2. NULL \notin Selectors!Fragments /\ Selectors!Fragments \subseteq 1..MaxSelectors
      BY <1>2, SelectorsAssumption DEF Selectors!Fragments, ScreenItems
    <3>3. restores = 0 /\ Matches(portSelectors, fragments)
      BY <1>1, <1>2, <2>2, <3>2 DEF SelectorsInv, HasLost
    <3>4. asked' = Selectors!Fragments
      BY <1>2, <3>1, <3>3 DEF Matches, Selectors!Fragments
    <3>5. Selectors!Fragments' = Selectors!Fragments
      BY <2>1 DEF Selectors!Fragments
    <3>6. QED
      BY <1>1, <2>1, <3>1, <3>2, <3>3, <3>4, <3>5 DEF SelectorsInv, Selectors!TypeOK
  <2>3. CASE ~(\A i \in DOMAIN portSelectors : portSelectors[i] \in Selectors!Fragments)
    <3>1. settingsCrashed' = TRUE /\ asked' = asked
      BY <1>6, <2>3 DEF Selectors!Toggle
    <3>2. restores # 0
      BY <1>2, <2>3 DEF SelectorsInv, Matches, Selectors!Fragments
    <3>3. QED
      BY <1>1, <2>1, <3>1, <3>2 DEF SelectorsInv, Selectors!TypeOK
  <2>4. QED
    BY <2>2, <2>3
<1>7. CASE UNCHANGED selectorsVars
  BY <1>7 DEF SelectorsInv, Selectors!TypeOK, Selectors!Fragments, selectorsVars
<1>8. QED
  BY <1>3, <1>4, <1>5, <1>6, <1>7 DEF Selectors!Next

LEMMA SelectorsInvariance == Spec => []SelectorsInv
<1>1. Init => Selectors!Init
  BY DEF Init
<1>2. [Next]_vars => [Selectors!Next]_selectorsVars
  BY DEF Next, Only, vars, selectorsVars
<1>3. QED
  BY <1>1, <1>2, SelectorsInit, SelectorsStep, PTL DEF Spec

\* Whatever is added, removed and restored, a recording is started with the ports
\* of all selectors on the screen or not at all, and the start button ends the
\* process only on a screen that was made anew (LogSettingsActivity).
THEOREM ScreenIsAsked == Spec => []SelectorsAgree
<1>1. ASSUME SelectorsInv PROVE SelectorsAgree
  <2>1. restores \in Nat
    BY <1>1, SelectorsAssumption DEF SelectorsInv, Selectors!TypeOK
  <2>2. QED
    BY <1>1, <2>1 DEF SelectorsInv, SelectorsAgree, Selectors!SelectorsAgree,
       Selectors!AsksWhatIsShown, Selectors!CrashNeedsRestore
<1>2. QED
  BY <1>1, SelectorsInvariance, PTL

-----------------------------------------------------------------------------
(* The catalogs.                                                           *)

\* Only a screen that was replaced while a read was on its way has a read on its
\* way and is not the screen of now.
OrphansKnown ==
  /\ \A k \in 1..Len(delayedReads) : delayedReads[k][2] # main => "orphan" \in causes
  /\ \A k \in 1..Len(posted) : posted[k] # main => "orphan" \in causes

\* A read of the logs is posted when the applications have been read.
ReadBeforeLogs ==
  posted # <<>> /\ "failure" \notin causes => applicationLookup # <<>>

\* The array and the map are of one read, or neither has been read.
OneRead == "failure" \notin causes => applicationLookup = applications

\* Until an application is uninstalled, every log is one of an application that is
\* installed, known when any is, and drawn with its icon.
AllDrawn ==
  causes = {} =>
    /\ rows \subseteq installed
    /\ applicationLookup # <<>> => rows \subseteq applicationLookup[1]
    /\ logs # <<>> => \A u \in DOMAIN logs[1] : logs[1][u]

\* What was spent is counted by kind.
Spending == spent \in [failures : 0..MaxReadFailures, changes : 0..MaxChanges]

\* The inductive invariant.
ListsInv ==
  /\ Lists!TypeOK /\ Spending /\ OrphansKnown /\ ReadBeforeLogs /\ OneRead /\ AllDrawn
  /\ Lists!CrashHasCause /\ Lists!LogsComplete

LEMMA ListsInit == Lists!Init => ListsInv
<1> SUFFICES ASSUME Lists!Init PROVE ListsInv
  OBVIOUS
<1>1. delayedReads = <<>> /\ posted = <<>> /\ main = 0
  BY DEF Lists!Init
<1>2. delayedReads \in Seq({"apps", "logs"} \X (1..main)) /\ posted \in Seq(1..main)
  BY <1>1
<1>3. /\ applications = <<>> /\ applicationLookup = <<>> /\ logs = <<>>
      /\ installed = Apps /\ rows \subseteq Apps /\ recording = 0
  BY DEF Lists!Init, Lists!Null
<1>4. Spending
  BY AppsAssumption DEF Lists!Init, Spending
<1>5. Lists!TypeOK
  <2>1. /\ resumed \in BOOLEAN /\ crashed \in BOOLEAN /\ causes = {}
        /\ shown \in [{"apps", "logs"} -> {"empty", "list", "error"}]
    BY DEF Lists!Init
  <2>2. main \in 0..MaxScreens
    BY <1>1, AppsAssumption
  <2>3. QED
    BY <1>2, <1>3, <1>4, <2>1, <2>2 DEF Lists!TypeOK, Lists!IsNull, Spending
<1>6. OrphansKnown
  BY <1>1 DEF OrphansKnown
<1>7. ReadBeforeLogs /\ OneRead /\ AllDrawn
  BY <1>1, <1>3 DEF ReadBeforeLogs, OneRead, AllDrawn
<1>8. Lists!CrashHasCause /\ Lists!LogsComplete
  BY <1>3 DEF Lists!Init, Lists!CrashHasCause, Lists!LogsComplete, Lists!IsNull
<1>9. QED
  BY <1>4, <1>5, <1>6, <1>7, <1>8 DEF ListsInv

\* What the invariant says of the lists of reads.
LEMMA ReadsTyped ==
  ASSUME ListsInv
  PROVE  /\ main \in 0..MaxScreens /\ MaxScreens \in Nat
         /\ delayedReads \in Seq({"apps", "logs"} \X (1..main)) /\ posted \in Seq(1..main)
         /\ Len(delayedReads) \in Nat /\ Len(posted) \in Nat
         /\ \A k \in 1..Len(delayedReads) : delayedReads[k] \in {"apps", "logs"} \X (1..main)
         /\ \A k \in 1..Len(posted) : posted[k] \in 1..main
<1>1. /\ main \in 0..MaxScreens /\ MaxScreens \in Nat
      /\ delayedReads \in Seq({"apps", "logs"} \X (1..main)) /\ posted \in Seq(1..main)
  BY AppsAssumption DEF ListsInv, Lists!TypeOK
<1>2. QED
  BY <1>1, LenProperties, ElementOfSeq

\* A screen comes to the front.
LEMMA ResumeKeeps ==
  ASSUME ListsInv, NEW i \in {main, main + 1}, i <= MaxScreens, Lists!Resume(i)
  PROVE  ListsInv'
<1>1. /\ main \in 0..MaxScreens /\ MaxScreens \in Nat
      /\ delayedReads \in Seq({"apps", "logs"} \X (1..main)) /\ posted \in Seq(1..main)
      /\ Len(delayedReads) \in Nat /\ Len(posted) \in Nat
      /\ \A k \in 1..Len(delayedReads) : delayedReads[k] \in {"apps", "logs"} \X (1..main)
      /\ \A k \in 1..Len(posted) : posted[k] \in 1..main
  BY ReadsTyped
<1>2. i \in 1..MaxScreens /\ main' = i /\ main <= i
  BY <1>1 DEF Lists!Resume
<1>3. /\ UNCHANGED <<installed, rows, recording, applications, applicationLookup, logs, spent>>
      /\ causes \subseteq causes' /\ causes' \subseteq causes \cup {"orphan"}
      /\ i # main /\ (delayedReads # <<>> \/ posted # <<>>) => "orphan" \in causes'
  BY DEF Lists!Resume, Lists!outside, Lists!caches
<1> DEFINE S == {"apps", "logs"} \X (1..i)
           a == <<"apps", i>>
           l == <<"logs", i>>
<1>4. a \in S /\ l \in S /\ i \in 1..i
  BY <1>2
<1>5. delayedReads \in Seq(S) /\ posted \in Seq(1..i)
  <2>1. {"apps", "logs"} \X (1..main) \subseteq S /\ 1..main \subseteq 1..i
    BY <1>1, <1>2
  <2> HIDE DEF S
  <2>2. QED
    BY <1>1, <2>1, SeqMonotonic
<1>6. delayedReads' \in {delayedReads, delayedReads \o <<a>>, delayedReads \o <<a>> \o <<l>>}
  <2>1. \A s \in Seq(S) : s \o <<>> = s
    BY ConcatEmptySeq
  <2>2. delayedReads \o <<a>> \in Seq(S)
    BY <1>4, <1>5
  <2>3. QED
    BY <2>1, <2>2 DEF Lists!Resume, Lists!Load
<1>7. posted' \in {posted, Append(posted, i)}
  BY DEF Lists!Resume, Lists!Load
<1> HIDE DEF S
<1>8. /\ delayedReads' \in Seq(S) /\ posted' \in Seq(1..i)
      /\ \A k \in 1..Len(delayedReads') :
           \/ delayedReads'[k] \in {a, l}
           \/ k \in 1..Len(delayedReads) /\ delayedReads'[k] = delayedReads[k]
      /\ \A k \in 1..Len(posted') :
           \/ posted'[k] = i
           \/ k \in 1..Len(posted) /\ posted'[k] = posted[k]
  <2>1. /\ delayedReads' \in Seq(S)
        /\ \A k \in 1..Len(delayedReads') :
             \/ delayedReads'[k] \in {a, l}
             \/ k \in 1..Len(delayedReads) /\ delayedReads'[k] = delayedReads[k]
    <3> HIDE DEF a, l
    <3>1. CASE delayedReads' = delayedReads
      BY <1>5, <3>1
    <3>2. CASE delayedReads' = delayedReads \o <<a>>
      BY <1>4, <1>5, <3>2, AppendedIs
    <3>3. CASE delayedReads' = delayedReads \o <<a>> \o <<l>>
      <4> DEFINE d == delayedReads \o <<a>>
      <4>1. /\ d \in Seq(S) /\ Len(d) = Len(delayedReads) + 1
            /\ \A k \in 1..Len(d) :
                 d[k] = IF k \in 1..Len(delayedReads) THEN delayedReads[k] ELSE a
        BY <1>4, <1>5, AppendedIs
      <4> HIDE DEF d
      <4>2. /\ d \o <<l>> \in Seq(S) /\ Len(d \o <<l>>) = Len(d) + 1 /\ Len(d) \in Nat
            /\ \A k \in 1..Len(d \o <<l>>) :
                 (d \o <<l>>)[k] = IF k \in 1..Len(d) THEN d[k] ELSE l
        BY <1>4, <4>1, AppendedIs
      <4>3. delayedReads' = d \o <<l>>
        BY <3>3 DEF d
      <4>4. QED
        BY <4>1, <4>2, <4>3
    <3>4. QED
      BY <1>6, <3>1, <3>2, <3>3
  <2>2. /\ posted' \in Seq(1..i)
        /\ \A k \in 1..Len(posted') :
             \/ posted'[k] = i
             \/ k \in 1..Len(posted) /\ posted'[k] = posted[k]
    <3>1. CASE posted' = posted
      BY <1>5, <3>1
    <3>2. CASE posted' = Append(posted, i)
      BY <1>4, <1>5, <3>2, AppendedIs
    <3>3. QED
      BY <1>7, <3>1, <3>2
  <2>3. QED
    BY <2>1, <2>2
<1>9. OrphansKnown'
  <2>1. ASSUME NEW k \in 1..Len(delayedReads'), delayedReads'[k][2] # i
        PROVE  "orphan" \in causes'
    <3>1. k \in 1..Len(delayedReads) /\ delayedReads'[k] = delayedReads[k]
      BY <1>8, <2>1
    <3>2. delayedReads # <<>>
      BY <3>1
    <3>3. CASE i = main
      BY <1>3, <2>1, <3>1, <3>3 DEF ListsInv, OrphansKnown
    <3>4. QED
      BY <1>3, <3>2, <3>3
  <2>2. ASSUME NEW k \in 1..Len(posted'), posted'[k] # i
        PROVE  "orphan" \in causes'
    <3>1. k \in 1..Len(posted) /\ posted'[k] = posted[k]
      BY <1>8, <2>2
    <3>2. posted # <<>>
      BY <3>1
    <3>3. CASE i = main
      BY <1>3, <2>2, <3>1, <3>3 DEF ListsInv, OrphansKnown
    <3>4. QED
      BY <1>3, <3>2, <3>3
  <2>3. QED
    BY <1>2, <2>1, <2>2 DEF OrphansKnown
<1>10. ReadBeforeLogs' /\ OneRead' /\ AllDrawn' /\ Lists!LogsComplete'
  <2>1. posted' # posted => applications # <<>>
    BY DEF Lists!Resume, Lists!Load, Lists!IsNull
  <2>2. "failure" \notin causes' => "failure" \notin causes
    BY <1>3
  <2>3. ReadBeforeLogs'
    BY <1>3, <2>1, <2>2 DEF ListsInv, ReadBeforeLogs, OneRead
  <2>4. OneRead' /\ AllDrawn' /\ Lists!LogsComplete'
    BY <1>3, <2>2 DEF ListsInv, OneRead, AllDrawn, Lists!LogsComplete, Lists!IsNull
  <2>5. QED
    BY <2>3, <2>4
<1>11. Lists!CrashHasCause'
  <2>1. crashed' => logs # <<>> /\ \E u \in DOMAIN logs[1] : ~logs[1][u]
    BY DEF Lists!Resume, Lists!IsNull, Lists!Undrawable
  <2>2. crashed' => causes # {}
    BY <2>1 DEF ListsInv, AllDrawn
  <2>3. QED
    BY <1>3, <2>2 DEF Lists!CrashHasCause
<1>12. Lists!TypeOK' /\ Spending'
  <2>1. shown' \in [{"apps", "logs"} -> {"empty", "list", "error"}]
    BY DEF ListsInv, Lists!TypeOK, Lists!Resume, Lists!Empty
  <2>2. resumed' \in BOOLEAN /\ crashed' \in BOOLEAN
    BY DEF Lists!Resume, Lists!Undrawable
  <2>3. causes' \subseteq {"orphan", "uninstall", "failure"}
    BY <1>3 DEF ListsInv, Lists!TypeOK
  <2>4. QED
    BY <1>2, <1>3, <1>8, <2>1, <2>2, <2>3 DEF ListsInv, Lists!TypeOK, Lists!IsNull,
       Spending, S
<1>13. QED
  BY <1>9, <1>10, <1>11, <1>12 DEF ListsInv

\* The list of applications leaves the front.
LEMMA PauseKeeps == ListsInv /\ Lists!Pause => ListsInv'
<1> SUFFICES ASSUME ListsInv, Lists!Pause PROVE ListsInv'
  OBVIOUS
<1>1. /\ UNCHANGED <<installed, rows, recording, applications, applicationLookup, logs>>
      /\ UNCHANGED <<delayedReads, posted, main, crashed, causes, spent>>
  BY DEF Lists!Pause, Lists!outside, Lists!caches
<1>2. /\ resumed' \in BOOLEAN
      /\ shown' \in [{"apps", "logs"} -> {"empty", "list", "error"}]
  BY DEF Lists!Pause, ListsInv, Lists!TypeOK
<1>3. Lists!TypeOK' /\ Spending'
  BY <1>1, <1>2 DEF ListsInv, Lists!TypeOK, Lists!IsNull, Spending
<1>4. OrphansKnown' /\ ReadBeforeLogs' /\ OneRead' /\ AllDrawn'
  BY <1>1 DEF ListsInv, OrphansKnown, ReadBeforeLogs, OneRead, AllDrawn
<1>5. Lists!CrashHasCause' /\ Lists!LogsComplete'
  BY <1>1 DEF ListsInv, Lists!CrashHasCause, Lists!LogsComplete, Lists!IsNull
<1>6. QED
  BY <1>3, <1>4, <1>5 DEF ListsInv

\* The applications are read, or fail to be, for whoever asked.
LEMMA HandleAppsKeeps == ListsInv /\ Lists!HandleApps => ListsInv'
<1> SUFFICES ASSUME ListsInv, Lists!HandleApps PROVE ListsInv'
  OBVIOUS
<1> DEFINE list == Head(delayedReads)[1]
           i    == Head(delayedReads)[2]
<1>1. /\ main \in 0..MaxScreens /\ MaxScreens \in Nat
      /\ delayedReads \in Seq({"apps", "logs"} \X (1..main)) /\ posted \in Seq(1..main)
      /\ Len(delayedReads) \in Nat /\ Len(posted) \in Nat
      /\ \A k \in 1..Len(delayedReads) : delayedReads[k] \in {"apps", "logs"} \X (1..main)
      /\ \A k \in 1..Len(posted) : posted[k] \in 1..main
  BY ReadsTyped
<1>2. /\ UNCHANGED <<installed, rows, recording, logs, main, resumed>>
      /\ ~crashed /\ delayedReads # <<>> /\ delayedReads' = Tail(delayedReads)
      /\ crashed' = (list = "apps" /\ i # main)
      /\ posted' = IF list = "logs" THEN Append(posted, i) ELSE posted
  BY DEF Lists!HandleApps, Lists!outside, Lists!Detached
<1>3. /\ Head(delayedReads) \in {"apps", "logs"} \X (1..main)
      /\ Head(delayedReads) = delayedReads[1] /\ 1 \in 1..Len(delayedReads)
      /\ delayedReads' \in Seq({"apps", "logs"} \X (1..main))
      /\ \A k \in 1..Len(delayedReads') :
           k + 1 \in 1..Len(delayedReads) /\ delayedReads'[k] = delayedReads[k + 1]
  BY <1>1, <1>2, RestOfSequence
<1>4. i \in 1..main /\ (i # main => "orphan" \in causes)
  BY <1>3 DEF ListsInv, OrphansKnown
<1> HIDE DEF list, i
<1>5. /\ posted' \in Seq(1..main)
      /\ \A k \in 1..Len(posted') :
           \/ posted'[k] = i
           \/ k \in 1..Len(posted) /\ posted'[k] = posted[k]
  <2>1. CASE posted' = posted
    BY <1>1, <2>1
  <2>2. CASE posted' = Append(posted, i)
    BY <1>1, <1>4, <2>2, AppendedIs
  <2>3. QED
    BY <1>2, <2>1, <2>2
<1>6. causes \subseteq causes' /\ causes' \subseteq causes \cup {"failure"}
  BY DEF Lists!HandleApps
<1>7. OrphansKnown'
  <2>1. ASSUME NEW k \in 1..Len(delayedReads'), delayedReads'[k][2] # main
        PROVE  "orphan" \in causes
    BY <1>3, <2>1 DEF ListsInv, OrphansKnown
  <2>2. ASSUME NEW k \in 1..Len(posted'), posted'[k] # main
        PROVE  "orphan" \in causes
    BY <1>4, <1>5, <2>2 DEF ListsInv, OrphansKnown
  <2>3. QED
    BY <1>2, <1>6, <2>1, <2>2 DEF OrphansKnown
<1>8. Lists!CrashHasCause'
  BY <1>2, <1>4, <1>6 DEF Lists!CrashHasCause
<1>9. Lists!LogsComplete'
  BY <1>2 DEF ListsInv, Lists!LogsComplete, Lists!IsNull
<1>10. shown' \in [{"apps", "logs"} -> {"empty", "list", "error"}]
  BY DEF ListsInv, Lists!TypeOK, Lists!HandleApps
<1>11. causes' \subseteq {"orphan", "uninstall", "failure"}
  BY <1>6 DEF ListsInv, Lists!TypeOK
<1>12. CASE applications' = <<installed>> /\ applicationLookup' = <<installed>>
            /\ causes' = causes /\ spent' = spent
  <2>1. applications' # <<>> /\ applicationLookup' # <<>> /\ applicationLookup'[1] = installed
        /\ applications'[1] = installed
    BY <1>12
  <2>2. ReadBeforeLogs' /\ OneRead'
    BY <1>12, <2>1 DEF ReadBeforeLogs, OneRead
  <2>3. AllDrawn'
    BY <1>2, <1>12, <2>1 DEF ListsInv, AllDrawn
  <2>4. installed \subseteq Apps
    BY DEF ListsInv, Lists!TypeOK
  <2>5. Lists!TypeOK' /\ Spending'
    BY <1>2, <1>3, <1>5, <1>10, <1>11, <1>12, <2>1, <2>4
       DEF ListsInv, Lists!TypeOK, Lists!IsNull, Spending
  <2>6. QED
    BY <1>7, <1>8, <1>9, <2>2, <2>3, <2>5 DEF ListsInv
<1>13. CASE /\ applications' = applications /\ "failure" \in causes'
            /\ \/ applicationLookup' = applicationLookup
               \/ \E read \in SUBSET installed : applicationLookup' = <<read>>
            /\ spent.failures < MaxReadFailures
            /\ spent' = [spent EXCEPT !.failures = @ + 1]
  <2>1. ReadBeforeLogs' /\ OneRead' /\ AllDrawn'
    BY <1>13 DEF ReadBeforeLogs, OneRead, AllDrawn
  <2>2. applicationLookup' = <<>> \/ applicationLookup'[1] \subseteq Apps
    <3>1. CASE applicationLookup' = applicationLookup
      BY <3>1 DEF ListsInv, Lists!TypeOK, Lists!IsNull
    <3>2. CASE \E read \in SUBSET installed : applicationLookup' = <<read>>
      BY <3>2 DEF ListsInv, Lists!TypeOK
    <3>3. QED
      BY <1>13, <3>1, <3>2
  <2>3. Spending'
    BY <1>13, AppsAssumption DEF ListsInv, Spending
  <2>4. Lists!TypeOK'
    BY <1>2, <1>3, <1>5, <1>10, <1>11, <1>13, <2>2, <2>3
       DEF ListsInv, Lists!TypeOK, Lists!IsNull, Spending
  <2>5. QED
    BY <1>7, <1>8, <1>9, <2>1, <2>3, <2>4 DEF ListsInv
<1>14. QED
  BY <1>12, <1>13
     DEF Lists!HandleApps, Lists!ReadApps, Lists!ReadAppsFails, Lists!Spend

\* The logs are read, or fail to be.
LEMMA HandleLogsKeeps == ListsInv /\ Lists!HandleLogs => ListsInv'
<1> SUFFICES ASSUME ListsInv, Lists!HandleLogs PROVE ListsInv'
  OBVIOUS
<1> DEFINE i == Head(posted)
<1>1. /\ main \in 0..MaxScreens /\ MaxScreens \in Nat
      /\ delayedReads \in Seq({"apps", "logs"} \X (1..main)) /\ posted \in Seq(1..main)
      /\ Len(delayedReads) \in Nat /\ Len(posted) \in Nat
      /\ \A k \in 1..Len(delayedReads) : delayedReads[k] \in {"apps", "logs"} \X (1..main)
      /\ \A k \in 1..Len(posted) : posted[k] \in 1..main
  BY ReadsTyped
<1>2. /\ UNCHANGED <<installed, rows, recording, applications, applicationLookup>>
      /\ UNCHANGED <<delayedReads, main, resumed>>
      /\ ~crashed /\ posted # <<>> /\ posted' = Tail(posted)
  BY DEF Lists!HandleLogs, Lists!outside
<1>3. /\ i \in 1..main /\ i = posted[1] /\ 1 \in 1..Len(posted)
      /\ posted' \in Seq(1..main)
      /\ \A k \in 1..Len(posted') :
           k + 1 \in 1..Len(posted) /\ posted'[k] = posted[k + 1]
  BY <1>1, <1>2, RestOfSequence
<1>4. causes \subseteq causes' /\ causes' \subseteq causes \cup {"failure"}
  BY DEF Lists!HandleLogs
<1>5. OrphansKnown'
  <2>1. ASSUME NEW k \in 1..Len(posted'), posted'[k] # main
        PROVE  "orphan" \in causes
    BY <1>3, <2>1 DEF ListsInv, OrphansKnown
  <2>2. QED
    BY <1>2, <1>4, <2>1 DEF ListsInv, OrphansKnown
<1>6. ReadBeforeLogs' /\ OneRead'
  BY <1>2, <1>4 DEF ListsInv, ReadBeforeLogs, OneRead
<1>7. shown' \in [{"apps", "logs"} -> {"empty", "list", "error"}]
  BY DEF ListsInv, Lists!TypeOK, Lists!HandleLogs, Lists!LogsFailed
<1>8. causes' \subseteq {"orphan", "uninstall", "failure"}
  BY <1>4 DEF ListsInv, Lists!TypeOK
<1>9. crashed' \in BOOLEAN
  BY DEF Lists!HandleLogs, Lists!LogsFailed, Lists!Detached, Lists!Undrawable
<1>10. CASE /\ logs' = <<Lists!Groups>> /\ causes' = causes /\ spent' = spent
            /\ crashed' => Lists!Undrawable(Lists!Groups)
  <2>1. /\ logs' # <<>> /\ DOMAIN logs'[1] = rows
        /\ \A u \in rows :
             logs'[1][u] <=> applicationLookup # <<>> /\ u \in applicationLookup[1]
        /\ \A u \in rows : logs'[1][u] \in BOOLEAN
    BY <1>10 DEF Lists!Groups, Lists!IsNull
  <2>2. causes = {} => \A u \in rows : logs'[1][u]
    BY <1>2, <2>1 DEF ListsInv, ReadBeforeLogs, AllDrawn
  <2>3. AllDrawn'
    BY <1>2, <1>10, <2>1, <2>2 DEF ListsInv, AllDrawn
  <2>4. Lists!CrashHasCause'
    BY <1>10, <2>1, <2>2 DEF Lists!CrashHasCause, Lists!Undrawable
  <2>5. Lists!LogsComplete'
    BY <1>2, <2>1 DEF Lists!LogsComplete
  <2>6. rows \subseteq Apps
    BY DEF ListsInv, Lists!TypeOK
  <2>7. Lists!TypeOK' /\ Spending'
    BY <1>2, <1>3, <1>7, <1>8, <1>9, <1>10, <2>1, <2>6
       DEF ListsInv, Lists!TypeOK, Lists!IsNull, Spending
  <2>8. QED
    BY <1>5, <1>6, <2>3, <2>4, <2>5, <2>7 DEF ListsInv
<1>11. CASE /\ logs' = logs /\ "failure" \in causes'
            /\ spent.failures < MaxReadFailures
            /\ spent' = [spent EXCEPT !.failures = @ + 1]
  <2>1. AllDrawn' /\ Lists!CrashHasCause'
    BY <1>11 DEF AllDrawn, Lists!CrashHasCause
  <2>2. Lists!LogsComplete'
    BY <1>2, <1>11 DEF ListsInv, Lists!LogsComplete, Lists!IsNull
  <2>3. Spending'
    BY <1>11, AppsAssumption DEF ListsInv, Spending
  <2>4. Lists!TypeOK'
    BY <1>2, <1>3, <1>7, <1>8, <1>9, <1>11, <2>3
       DEF ListsInv, Lists!TypeOK, Lists!IsNull, Spending
  <2>5. QED
    BY <1>5, <1>6, <2>1, <2>2, <2>3, <2>4 DEF ListsInv
<1>12. QED
  BY <1>10, <1>11 DEF Lists!HandleLogs, Lists!Spend

\* A recording starts, stops, and what is installed changes.
LEMMA StartRecordingKeeps ==
  ASSUME ListsInv, NEW u \in Apps, Lists!StartRecording(u)
  PROVE  ListsInv'
<1>1. /\ UNCHANGED <<installed, applications, applicationLookup, logs>>
      /\ UNCHANGED <<delayedReads, posted, main, resumed, shown, crashed, causes, spent>>
      /\ recording = 0 /\ recording' = u /\ rows' = rows \cup {u} /\ u \in installed
      /\ applications # <<>> /\ u \in applications[1]
  BY DEF Lists!StartRecording, Lists!caches, Lists!IsNull
<1>2. rows \subseteq Apps /\ 0 \notin rows
  BY AppsAssumption DEF ListsInv, Lists!TypeOK
<1>3. AllDrawn'
  BY <1>1 DEF ListsInv, AllDrawn, OneRead
<1>4. Lists!LogsComplete'
  BY <1>1, <1>2 DEF ListsInv, Lists!LogsComplete, Lists!IsNull
<1>5. OrphansKnown' /\ ReadBeforeLogs' /\ OneRead' /\ Lists!CrashHasCause'
  BY <1>1 DEF ListsInv, OrphansKnown, ReadBeforeLogs, OneRead, Lists!CrashHasCause
<1>6. Lists!TypeOK' /\ Spending'
  BY <1>1, <1>2 DEF ListsInv, Lists!TypeOK, Lists!IsNull, Spending
<1>7. QED
  BY <1>3, <1>4, <1>5, <1>6 DEF ListsInv

LEMMA StopRecordingKeeps == ListsInv /\ Lists!StopRecording => ListsInv'
<1> SUFFICES ASSUME ListsInv, Lists!StopRecording PROVE ListsInv'
  OBVIOUS
<1>1. /\ UNCHANGED <<installed, rows, applications, applicationLookup>>
      /\ UNCHANGED <<delayedReads, posted, main, resumed, shown, crashed, causes, spent>>
      /\ recording' = 0 /\ logs' = <<>>
  BY DEF Lists!StopRecording, Lists!CacheCleared, Lists!Null
<1>2. AllDrawn' /\ Lists!LogsComplete'
  BY <1>1 DEF ListsInv, AllDrawn, Lists!LogsComplete, Lists!IsNull
<1>3. OrphansKnown' /\ ReadBeforeLogs' /\ OneRead' /\ Lists!CrashHasCause'
  BY <1>1 DEF ListsInv, OrphansKnown, ReadBeforeLogs, OneRead, Lists!CrashHasCause
<1>4. Lists!TypeOK' /\ Spending'
  BY <1>1 DEF ListsInv, Lists!TypeOK, Lists!IsNull, Spending
<1>5. QED
  BY <1>2, <1>3, <1>4 DEF ListsInv

LEMMA ChangeKeeps ==
  ASSUME ListsInv, NEW u \in Apps, Lists!Change(u)
  PROVE  ListsInv'
<1>1. /\ UNCHANGED <<rows, recording, applications, applicationLookup, logs>>
      /\ UNCHANGED <<delayedReads, posted, main, resumed, shown, crashed>>
      /\ spent.changes < MaxChanges /\ spent' = [spent EXCEPT !.changes = @ + 1]
      /\ \/ installed' = installed \cup {u} /\ causes' = causes
         \/ installed' = installed \ {u} /\ causes' = causes \cup {"uninstall"}
  BY DEF Lists!Change, Lists!caches, Lists!Spend
<1>2. AllDrawn'
  BY <1>1 DEF ListsInv, AllDrawn
<1>3. OrphansKnown' /\ ReadBeforeLogs' /\ OneRead' /\ Lists!CrashHasCause'
  BY <1>1 DEF ListsInv, OrphansKnown, ReadBeforeLogs, OneRead, Lists!CrashHasCause
<1>4. Lists!LogsComplete'
  BY <1>1 DEF ListsInv, Lists!LogsComplete, Lists!IsNull
<1>5. Spending'
  BY <1>1, AppsAssumption DEF ListsInv, Spending
<1>6. Lists!TypeOK'
  <2>1. installed' \subseteq Apps /\ causes' \subseteq {"orphan", "uninstall", "failure"}
    BY <1>1 DEF ListsInv, Lists!TypeOK
  <2>2. QED
    BY <1>1, <1>5, <2>1 DEF ListsInv, Lists!TypeOK, Lists!IsNull, Spending
<1>7. QED
  BY <1>2, <1>3, <1>4, <1>5, <1>6 DEF ListsInv

\* Every step keeps the invariant.
LEMMA ListsStep == ListsInv /\ [Lists!Next]_catalogsVars => ListsInv'
<1> SUFFICES ASSUME ListsInv, [Lists!Next]_catalogsVars PROVE ListsInv'
  OBVIOUS
<1>1. CASE \E i \in {main, main + 1} : i <= MaxScreens /\ Lists!Resume(i)
  BY <1>1, ResumeKeeps
<1>2. CASE Lists!Pause
  BY <1>2, PauseKeeps
<1>3. CASE Lists!HandleApps
  BY <1>3, HandleAppsKeeps
<1>4. CASE Lists!HandleLogs
  BY <1>4, HandleLogsKeeps
<1>5. CASE Lists!StopRecording
  BY <1>5, StopRecordingKeeps
<1>6. CASE \E u \in Apps : Lists!StartRecording(u) \/ Lists!Change(u)
  BY <1>6, StartRecordingKeeps, ChangeKeeps
<1>7. CASE UNCHANGED catalogsVars
  <2>1. /\ UNCHANGED <<installed, rows, recording, applications, applicationLookup, logs>>
        /\ UNCHANGED <<delayedReads, posted, main, resumed, shown, crashed, causes, spent>>
    BY <1>7 DEF catalogsVars
  <2>2. Lists!TypeOK' /\ Spending'
    BY <2>1 DEF ListsInv, Lists!TypeOK, Lists!IsNull, Spending
  <2>3. OrphansKnown' /\ ReadBeforeLogs' /\ OneRead' /\ AllDrawn'
    BY <2>1 DEF ListsInv, OrphansKnown, ReadBeforeLogs, OneRead, AllDrawn
  <2>4. Lists!CrashHasCause' /\ Lists!LogsComplete'
    BY <2>1 DEF ListsInv, Lists!CrashHasCause, Lists!LogsComplete, Lists!IsNull
  <2>5. QED
    BY <2>2, <2>3, <2>4 DEF ListsInv
<1>8. QED
  BY <1>1, <1>2, <1>3, <1>4, <1>5, <1>6, <1>7 DEF Lists!Next

LEMMA ListsInvariance == Spec => []ListsInv
<1>1. Init => ListsInv
  BY ListsInit DEF Init
<1>2. ListsInv /\ [Next]_vars => ListsInv'
  <2>1. [Next]_vars => [Lists!Next]_catalogsVars
    BY DEF Next, Only, vars, catalogsVars
  <2>2. QED
    BY <2>1, ListsStep
<1>3. QED
  BY <1>1, <1>2, PTL DEF Spec

\* Every variable of the catalogs keeps its type.
THEOREM ListsTypes == Spec => []Lists!TypeOK
<1>1. ListsInv => Lists!TypeOK
  BY DEF ListsInv
<1>2. QED
  BY <1>1, ListsInvariance, PTL

\* However screens come and go while reads are on their way, the array and the map
\* of applications are of one read unless a read failed, the cached logs miss at
\* most that of the recording under way, and the lists end the process only after a
\* screen was replaced under a read, an uninstall, or a failure (loadApps, loadLogs
\* and the adapters of the lists).
THEOREM ListsAreCorrect == Spec => []ListsCorrect
<1>1. ListsInv => ListsCorrect
  BY DEF ListsInv, OneRead, ListsCorrect, Lists!ListsCorrect, Lists!CatalogsAgree,
     Lists!IsNull
<1>2. QED
  BY <1>1, ListsInvariance, PTL

-----------------------------------------------------------------------------
(* The text of a port selector.  Value is defined by recursion: it is what *)
(* a function that is known to exist says of the whole sequence.           *)

\* The value of every prefix of the first m digits of t.
ValuesOf(f, t, m) ==
  /\ f \in [0..m -> Nat] /\ f[0] = 0
  /\ \A n \in 1..m : f[n] = 10 * f[n - 1] + t[n]

LEMMA ValuesExist ==
  ASSUME NEW t \in Seq(Nat)
  PROVE  \E f : ValuesOf(f, t, Len(t))
<1> DEFINE sz == Len(t)
           Missing == {m \in 0..sz : ~\E f : ValuesOf(f, t, m)}
<1>1. sz \in Nat /\ \A n \in 1..sz : t[n] \in Nat
  BY LenProperties, ElementOfSeq
<1> HIDE DEF sz
<1>2. Missing = {}
  <2> SUFFICES ASSUME Missing # {} PROVE FALSE
    OBVIOUS
  <2>1. PICK m \in Missing : \A l \in Missing : m <= l
    <3>1. Missing \subseteq Nat
      BY <1>1
    <3> HIDE DEF Missing
    <3> QED
      BY <3>1, LeastNumber
  <2>2. m \in 0..sz /\ m \in Nat
    BY <1>1
  <2>3. CASE m = 0
    <3>1. ValuesOf([n \in 0..0 |-> 0], t, 0)
      BY DEF ValuesOf
    <3>2. QED
      BY <2>3, <3>1
  <2>4. CASE m # 0
    <3>1. m - 1 \in 0..sz /\ m - 1 \in Nat /\ ~(m <= m - 1)
      BY <1>1, <2>2, <2>4
    <3>2. PICK f : ValuesOf(f, t, m - 1)
      BY <2>1, <3>1
    <3> DEFINE g == [n \in 0..m |-> IF n = m THEN 10 * f[m - 1] + t[m] ELSE f[n]]
    <3>3. 10 * f[m - 1] + t[m] \in Nat
      BY <1>1, <2>2, <2>4, <3>1, <3>2 DEF ValuesOf
    <3>4. ValuesOf(g, t, m)
      <4>1. g \in [0..m -> Nat] /\ g[0] = 0
        BY <2>2, <2>4, <3>1, <3>2, <3>3 DEF ValuesOf
      <4>2. ASSUME NEW n \in 1..m PROVE g[n] = 10 * g[n - 1] + t[n]
        <5>1. n - 1 \in 0..m /\ n - 1 # m /\ n \in 0..m
          BY <2>2
        <5>2. CASE n = m
          BY <2>2, <5>1, <5>2
        <5>3. CASE n # m
          <6>1. n \in 1..(m - 1)
            BY <2>2, <5>3
          <6>2. QED
            BY <3>2, <5>1, <5>3, <6>1 DEF ValuesOf
        <5>4. QED
          BY <5>2, <5>3
      <4>3. QED
        BY <4>1, <4>2 DEF ValuesOf
    <3>5. QED
      BY <3>4
  <2>5. QED
    BY <2>3, <2>4
<1>3. sz \in 0..sz
  BY <1>1
<1>4. QED
  BY <1>2, <1>3 DEF sz

LEMMA ValueIs ==
  ASSUME NEW t \in Seq(Nat)
  PROVE  \E f : ValuesOf(f, t, Len(t)) /\ Input!Value(t) = f[Len(t)]
<1> DEFINE Is(f) == f = [n \in 0..Len(t) |-> IF n = 0 THEN 0 ELSE 10 * f[n - 1] + t[n]]
           g == CHOOSE f : Is(f)
<1>1. Len(t) \in Nat /\ \A n \in 1..Len(t) : t[n] \in Nat
  BY LenProperties, ElementOfSeq
<1>2. \E f : Is(f)
  <2>1. PICK f : ValuesOf(f, t, Len(t))
    BY ValuesExist
  <2>2. \A n \in 0..Len(t) : f[n] = IF n = 0 THEN 0 ELSE 10 * f[n - 1] + t[n]
    BY <1>1, <2>1 DEF ValuesOf
  <2>3. f = [n \in 0..Len(t) |-> f[n]]
    BY <2>1 DEF ValuesOf
  <2>4. Is(f)
    BY <2>2, <2>3
  <2>5. QED
    BY <2>4
<1>3. Input!Value(t) = g[Len(t)]
  BY Zenon DEF Input!Value
<1>4. Is(g)
  <2> HIDE DEF Is
  <2> QED
    BY <1>2
<1> HIDE DEF g
<1>5. \A n \in 0..Len(t) : g[n] = IF n = 0 THEN 0 ELSE 10 * g[n - 1] + t[n]
  BY <1>4
<1>6. \A n \in 0..Len(t) : g[n] \in Nat
  <2> DEFINE Bad == {n \in 0..Len(t) : g[n] \notin Nat}
  <2> SUFFICES ASSUME Bad # {} PROVE FALSE
    OBVIOUS
  <2>1. Bad \subseteq Nat
    BY <1>1
  <2>2. PICK m \in Bad : \A l \in Bad : m <= l
    <3> HIDE DEF Bad
    <3> QED
      BY <2>1, LeastNumber
  <2>3. m # 0
    BY <1>1, <1>5
  <2>4. m - 1 \in 0..Len(t) /\ ~(m <= m - 1) /\ m \in 1..Len(t)
    BY <1>1, <2>3
  <2>5. g[m - 1] \in Nat
    BY <2>2, <2>4
  <2>6. g[m] = 10 * g[m - 1] + t[m] /\ t[m] \in Nat
    BY <1>1, <1>5, <2>3, <2>4
  <2>7. g[m] \in Nat
    BY <2>5, <2>6
  <2>8. QED
    BY <2>7
<1>7. ValuesOf(g, t, Len(t))
  <2>1. g \in [0..Len(t) -> Nat]
    BY <1>4, <1>6
  <2>2. g[0] = 0 /\ \A n \in 1..Len(t) : g[n] = 10 * g[n - 1] + t[n]
    BY <1>1, <1>5
  <2>3. QED
    BY <2>1, <2>2 DEF ValuesOf
<1>8. QED
  BY <1>3, <1>7

\* n is written with the five digits of t.
Written(n, t) == n = 10 * (10 * (10 * (10 * t[1] + t[2]) + t[3]) + t[4]) + t[5]

\* What is known of a value without its digits being put together.
LEMMA ValueBounds ==
  ASSUME NEW t \in Seq(0..9)
  PROVE  /\ Input!Value(t) \in Nat
         /\ Len(t) < 5 => Input!Value(t) <= 9999
         /\ Len(t) = 5 => Written(Input!Value(t), t)
         /\ Len(t) > 5 /\ t[1] > 5 => Input!Value(t) >= 600000
<1> DEFINE sz == Len(t)
<1>1. sz \in Nat /\ \A n \in 1..sz : t[n] \in 0..9
  BY LenProperties, ElementOfSeq
<1>2. t \in Seq(Nat)
  <2>1. \A n \in 1..sz : t[n] \in Nat
    BY <1>1
  <2>2. QED
    BY <2>1
<1>3. PICK f : ValuesOf(f, t, sz) /\ Input!Value(t) = f[sz]
  BY <1>2, ValueIs
<1>4. /\ f[0] = 0 /\ \A n \in 0..sz : f[n] \in Nat
      /\ \A n \in 1..sz : f[n] = 10 * f[n - 1] + t[n]
  BY <1>3 DEF ValuesOf
<1> HIDE DEF sz
<1>5. PICK d1 \in 0..9 : sz >= 1 => t[1] = d1
  <2>1. (IF sz >= 1 THEN t[1] ELSE 0) \in 0..9
    BY <1>1
  <2>2. QED
    BY <2>1
<1>6. PICK d2 \in 0..9 : sz >= 2 => t[2] = d2
  <2>1. (IF sz >= 2 THEN t[2] ELSE 0) \in 0..9
    BY <1>1
  <2>2. QED
    BY <2>1
<1>7. PICK d3 \in 0..9 : sz >= 3 => t[3] = d3
  <2>1. (IF sz >= 3 THEN t[3] ELSE 0) \in 0..9
    BY <1>1
  <2>2. QED
    BY <2>1
<1>8. PICK d4 \in 0..9 : sz >= 4 => t[4] = d4
  <2>1. (IF sz >= 4 THEN t[4] ELSE 0) \in 0..9
    BY <1>1
  <2>2. QED
    BY <2>1
<1>9. PICK d5 \in 0..9 : sz >= 5 => t[5] = d5
  <2>1. (IF sz >= 5 THEN t[5] ELSE 0) \in 0..9
    BY <1>1
  <2>2. QED
    BY <2>1
<1>10. PICK v \in Nat : v = 10 * d1 + d2
  OBVIOUS
<1>11. PICK w \in Nat : w = 10 * v + d3
  OBVIOUS
<1>12. PICK x \in Nat : x = 10 * w + d4
  OBVIOUS
<1>13. PICK y \in Nat : y = 10 * x + d5
  OBVIOUS
<1>14. \A n \in 1..5 : n <= sz => f[n] = 10 * f[n - 1] + t[n]
  BY SMT, <1>1, <1>4
<1>15. sz >= 1 => f[1] = d1
  BY SMT, <1>1, <1>4, <1>5, <1>14
<1>16. sz >= 2 => f[2] = v
  BY SMT, <1>1, <1>6, <1>10, <1>14, <1>15
<1>17. sz >= 3 => f[3] = w
  BY SMT, <1>1, <1>7, <1>11, <1>14, <1>16
<1>18. sz >= 4 => f[4] = x
  BY SMT, <1>1, <1>8, <1>12, <1>14, <1>17
<1>19. sz >= 5 => f[5] = y
  BY SMT, <1>1, <1>9, <1>13, <1>14, <1>18
<1>20. sz < 5 => f[sz] <= 9999
  <2>1. sz < 5 => sz = 0 \/ sz = 1 \/ sz = 2 \/ sz = 3 \/ sz = 4
    BY SMT, <1>1
  <2>2. sz < 5 => f[sz] = 0 \/ f[sz] = d1 \/ f[sz] = v \/ f[sz] = w \/ f[sz] = x
    BY SMT, <1>4, <1>15, <1>16, <1>17, <1>18, <2>1
  <2>3. 0 <= 9999 /\ d1 <= 9999 /\ v <= 9999 /\ w <= 9999 /\ x <= 9999
    BY SMT, <1>10, <1>11, <1>12
  <2>4. QED
    BY SMT, <2>2, <2>3
<1>21. sz = 5 => Written(f[sz], t)
  <2> SUFFICES ASSUME sz = 5 PROVE Written(f[sz], t)
    OBVIOUS
  <2>1. f[1] = t[1]
    BY <1>15, <1>5
  <2>2. /\ f[2] = 10 * f[1] + t[2] /\ f[3] = 10 * f[2] + t[3]
        /\ f[4] = 10 * f[3] + t[4] /\ f[5] = 10 * f[4] + t[5]
    BY <1>14
  <2> HIDE DEF sz
  <2>3. QED
    BY <2>1, <2>2 DEF Written
<1>22. ASSUME sz > 5, d1 > 5 PROVE f[sz] >= 600000
  <2> DEFINE Less == {n \in 6..sz : ~(f[n] >= 600000)}
  <2>1. f[5] >= 60000
    <3>1. y >= 60000
      BY SMT, <1>10, <1>11, <1>12, <1>13, <1>22
    <3>2. QED
      BY SMT, <1>1, <1>19, <1>22, <3>1
  <2>2. ASSUME NEW n \in 6..sz, f[n - 1] >= 60000 PROVE f[n] >= 600000
    <3>1. n \in 1..sz /\ n - 1 \in 0..sz
      BY SMT, <1>1
    <3>2. f[n - 1] \in Nat /\ t[n] \in 0..9 /\ f[n] = 10 * f[n - 1] + t[n]
      BY SMT, <1>1, <1>4, <3>1
    <3>3. PICK a \in Nat : a = f[n - 1]
      BY SMT, <3>2
    <3>4. PICK c \in 0..9 : c = t[n]
      BY SMT, <3>2
    <3>5. a >= 60000
      BY SMT, <2>2, <3>3
    <3>6. 10 * a + c >= 600000
      BY SMT, <3>5
    <3>7. QED
      BY SMT, <3>2, <3>3, <3>4, <3>6
  <2>3. ASSUME NEW n \in 6..sz, f[n] >= 600000 PROVE f[n] >= 60000
    <3>1. PICK a \in Nat : a = f[n]
      BY SMT, <1>1, <1>4
    <3>2. QED
      BY SMT, <2>3, <3>1
  <2>4. Less = {}
    <3> SUFFICES ASSUME Less # {} PROVE FALSE
      BY SMT
    <3>1. PICK m \in Less : \A l \in Less : m <= l
      <4>1. Less \subseteq Nat /\ Less # {}
        BY SMT
      <4> HIDE DEF Less
      <4>2. QED
        BY <4>1, LeastNumber
    <3>2. m \in 6..sz /\ m - 1 \notin Less
      <4>1. m \in 6..sz /\ ~(m <= m - 1)
        BY SMT, <1>1
      <4> HIDE DEF Less
      <4>2. QED
        BY <3>1, <4>1
    <3>3. m = 6 \/ m - 1 \in 6..sz
      BY SMT, <1>1, <3>2
    <3>4. f[m - 1] >= 60000
      <4>1. CASE m = 6
        <5>1. m - 1 = 5
          BY SMT, <4>1
        <5>2. QED
          BY SMT, <2>1, <5>1
      <4>2. CASE m - 1 \in 6..sz
        BY SMT, <2>3, <3>2, <4>2
      <4>3. QED
        BY SMT, <3>3, <4>1, <4>2
    <3>5. QED
      BY SMT, <2>2, <3>2, <3>4
  <2>5. sz \in 6..sz
    BY SMT, <1>1, <1>22
  <2>6. QED
    BY SMT, <2>4, <2>5
<1>23. f[sz] \in Nat
  BY <1>1, <1>4
<1>24. sz > 5 /\ t[1] > 5 => f[sz] >= 600000
  BY SMT, <1>1, <1>5, <1>22
<1>25. QED
  BY SMT, <1>3, <1>20, <1>21, <1>23, <1>24 DEF sz

\* Five digits are never all above 5.
HasLowDigit == Len(text) = 5 => \E i \in 1..5 : text[i] <= 5

\* The invariant.
InputInv == Input!TypeOK /\ HasLowDigit

LEMMA InputTyped ==
  InputInv => /\ text \in Seq(0..9) /\ Len(text) \in 0..5
              /\ \A i \in 1..Len(text) : text[i] \in 0..9
<1> SUFFICES ASSUME InputInv
             PROVE  /\ text \in Seq(0..9) /\ Len(text) \in 0..5
                    /\ \A i \in 1..Len(text) : text[i] \in 0..9
  OBVIOUS
<1>1. text \in Seq(0..9) /\ Len(text) <= 5
  BY DEF InputInv, Input!TypeOK, Input!MAX_LENGTH
<1>2. Len(text) \in Nat
  BY <1>1, LenProperties
<1>3. \A i \in 1..Len(text) : text[i] \in 0..9
  BY <1>1, ElementOfSeq
<1>4. Len(text) \in 0..5
  <2> DEFINE n == Len(text)
  <2>1. n \in Nat /\ n <= 5
    BY <1>1, <1>2
  <2> HIDE DEF n
  <2>2. n \in 0..5
    BY <2>1
  <2>3. QED
    BY <2>2 DEF n
<1>5. QED
  BY <1>1, <1>3, <1>4

\* What a number with five digits is, by how low they are.
LEMMA FiveDigits ==
  ASSUME NEW t, \A i \in 1..5 : t[i] \in 0..9, NEW n, Written(n, t)
  PROVE  /\ t[1] <= 5 => n <= Input!MAX_PORT
         /\ (\E i \in 1..5 : t[i] <= 5) => n <= Input!HIGHEST
         /\ (\A i \in 1..5 : t[i] > 5) => n > Input!MAX_PORT
<1>1. PICK a \in 0..9 : t[1] = a
  OBVIOUS
<1>2. PICK g \in 0..9 : t[2] = g
  OBVIOUS
<1>3. PICK c \in 0..9 : t[3] = c
  OBVIOUS
<1>4. PICK d \in 0..9 : t[4] = d
  OBVIOUS
<1>5. PICK e \in 0..9 : t[5] = e
  OBVIOUS
<1>6. n = 10 * (10 * (10 * (10 * a + g) + c) + d) + e
  BY <1>1, <1>2, <1>3, <1>4, <1>5 DEF Written
<1>7. a <= 5 => n <= Input!MAX_PORT
  BY SMT, <1>6 DEF Input!MAX_PORT
<1>8. a <= 5 \/ g <= 5 \/ c <= 5 \/ d <= 5 \/ e <= 5 => n <= Input!HIGHEST
  BY SMT, <1>6 DEF Input!HIGHEST
<1>9. a > 5 /\ g > 5 /\ c > 5 /\ d > 5 /\ e > 5 => n > Input!MAX_PORT
  BY SMT, <1>6 DEF Input!MAX_PORT
<1>10. (\E i \in 1..5 : t[i] <= 5) => a <= 5 \/ g <= 5 \/ c <= 5 \/ d <= 5 \/ e <= 5
  <2> SUFFICES ASSUME NEW i \in 1..5, t[i] <= 5
               PROVE  a <= 5 \/ g <= 5 \/ c <= 5 \/ d <= 5 \/ e <= 5
    OBVIOUS
  <2>1. i = 1 \/ i = 2 \/ i = 3 \/ i = 4 \/ i = 5
    OBVIOUS
  <2>2. QED
    BY <1>1, <1>2, <1>3, <1>4, <1>5, <2>1
<1>11. (\A i \in 1..5 : t[i] > 5) => a > 5 /\ g > 5 /\ c > 5 /\ d > 5 /\ e > 5
  BY <1>1, <1>2, <1>3, <1>4, <1>5
<1>12. QED
  BY SMT, <1>1, <1>7, <1>8, <1>9, <1>10, <1>11

\* With a low digit in front they are a port.
LEMMA InputSafe == InputInv => Input!DigitsOfPort
<1> SUFFICES ASSUME InputInv PROVE Input!DigitsOfPort
  OBVIOUS
<1> DEFINE sz == Len(text)
           In(order) == [i \in 1..sz |-> text[order[i]]]
<1>1. text \in Seq(0..9) /\ sz \in 0..5 /\ \A i \in 1..sz : text[i] \in 0..9
  BY InputTyped
<1>2. Input!Value(text) <= Input!HIGHEST
  <2>1. CASE sz < 5
    <3>1. Input!Value(text) <= 9999 /\ Input!Value(text) \in Nat
      BY SMT, <1>1, <2>1, ValueBounds
    <3>2. QED
      BY SMT, <3>1 DEF Input!HIGHEST
  <2>2. CASE sz = 5
    <3>1. Written(Input!Value(text), text)
      BY <1>1, <2>2, ValueBounds
    <3>2. \E i \in 1..5 : text[i] <= 5
      BY <2>2 DEF InputInv, HasLowDigit
    <3>3. \A i \in 1..5 : text[i] \in 0..9
      BY <1>1, <2>2
    <3>4. QED
      BY SMT, <3>1, <3>2, <3>3, FiveDigits
  <2>3. QED
    BY SMT, <1>1, <2>1, <2>2
<1>3. Input!getPort <= Input!HIGHEST
  <2>1. -1 <= Input!HIGHEST
    BY SMT DEF Input!HIGHEST
  <2>2. QED
    BY <1>2, <2>1 DEF Input!getPort
<1>4. \E order \in Input!Bijection(1..sz, 1..sz) : Input!Value(In(order)) <= Input!MAX_PORT
  <2>1. ASSUME NEW order \in [1..sz -> 1..sz] PROVE In(order) \in Seq(0..9) /\ Len(In(order)) = sz
    <3>1. \A i \in 1..sz : text[order[i]] \in 0..9
      BY <1>1
    <3>2. sz \in Nat
      BY <1>1
    <3> HIDE DEF sz
    <3>3. In(order) \in Seq(0..9)
      BY ONLY <3>1, <3>2, IsASeq
    <3>4. QED
      BY ONLY <3>2, <3>3
  <2>2. CASE sz < 5
    <3> DEFINE same == [i \in 1..sz |-> i]
    <3>1. same \in Input!Bijection(1..sz, 1..sz)
      BY DEF Input!Bijection, Input!Injection, Input!Surjection, Input!IsInjective
    <3>2. In(same) \in Seq(0..9) /\ Len(In(same)) = sz
      BY <2>1
    <3> HIDE DEF same
    <3>3. Input!Value(In(same)) <= Input!MAX_PORT
      <4> HIDE DEF In, sz
      <4>1. Input!Value(In(same)) <= 9999 /\ Input!Value(In(same)) \in Nat
        BY SMT, <2>2, <3>2, ValueBounds
      <4>2. QED
        BY SMT, <4>1 DEF Input!MAX_PORT
    <3>4. QED
      BY <3>1, <3>3
  <2>3. CASE sz = 5
    <3>1. PICK low \in 1..5 : text[low] <= 5
      BY <2>3 DEF InputInv, HasLowDigit
    <3> DEFINE swap == [i \in 1..5 |-> IF i = 1 THEN low ELSE IF i = low THEN 1 ELSE i]
    <3>2. swap \in Input!Bijection(1..5, 1..5)
      <4>1. swap \in [1..5 -> 1..5]
        OBVIOUS
      <4>2. \A i \in 1..5 : swap[swap[i]] = i
        OBVIOUS
      <4> HIDE DEF swap
      <4>3. swap \in Input!Injection(1..5, 1..5)
        BY ONLY <4>1, <4>2 DEF Input!Injection, Input!IsInjective
      <4>4. swap \in Input!Surjection(1..5, 1..5)
        BY ONLY <4>1, <4>2 DEF Input!Surjection
      <4>5. QED
        BY <4>3, <4>4 DEF Input!Bijection
    <3> DEFINE u == In(swap)
    <3>3. u \in Seq(0..9) /\ Len(u) = 5
      BY <2>1, <2>3, <3>2 DEF Input!Bijection, Input!Injection
    <3>4. u[1] <= 5
      BY <2>3, <3>1
    <3> HIDE DEF u
    <3>5. \A i \in 1..5 : u[i] \in 0..9
      BY <3>3, ElementOfSeq
    <3>6. Written(Input!Value(u), u)
      BY <3>3, ValueBounds
    <3>7. Input!Value(u) <= Input!MAX_PORT
      BY <3>4, <3>5, <3>6, FiveDigits
    <3>8. swap \in Input!Bijection(1..sz, 1..sz) /\ Input!Value(In(swap)) <= Input!MAX_PORT
      BY <2>3, <3>2, <3>7 DEF u
    <3> HIDE DEF swap, In
    <3>9. QED
      BY <3>8
  <2>4. sz < 5 \/ sz = 5
    BY <1>1
  <2> HIDE DEF In, sz
  <2>5. QED
    BY <2>2, <2>3, <2>4
<1>5. QED
  <2>1. PICK order \in Input!Bijection(1..sz, 1..sz) :
          Input!Value(In(order)) <= Input!MAX_PORT
    BY <1>4
  <2>2. QED
    BY ONLY <1>3, <2>1, Zenon DEF Input!DigitsOfPort

\* The filters and the keys keep the invariant.
LEMMA FittingIs ==
  ASSUME NEW typed \in Seq(0..9), NEW kept \in 0..5
  PROVE  LET new == Input!Fitting(typed, kept) IN
         new \in Seq(0..9) /\ Len(new) \in Nat /\ Len(new) + kept <= 5
<1> DEFINE T == {Len(typed), 5 - kept}
           m == Input!Min(T)
<1>1. /\ Len(typed) \in Nat /\ \A i \in 1..Len(typed) : typed[i] \in 0..9
      /\ 5 - kept \in 0..5
  BY LenProperties, ElementOfSeq
<1>2. m \in Nat /\ m <= Len(typed) /\ m <= 5 - kept
  <2>1. T \subseteq Nat /\ T # {}
    BY <1>1
  <2>2. PICK l \in T : \A k \in T : l <= k
    <3> HIDE DEF T
    <3> QED
      BY <2>1, LeastNumber
  <2>3. m \in T /\ \A k \in T : m <= k
    <3> HIDE DEF T
    <3> QED
      BY <2>2 DEF Input!Min
  <2> HIDE DEF m
  <2>4. QED
    BY <1>1, <2>3
<1> HIDE DEF m
<1>3. Input!Fitting(typed, kept) = SubSeq(typed, 1, m)
  BY DEF Input!Fitting, Input!MAX_LENGTH, m
<1>4. \A i \in 1..m : typed[i] \in 0..9
  BY <1>1, <1>2
<1>5. SubSeq(typed, 1, m) \in Seq(0..9) /\ Len(SubSeq(typed, 1, m)) = m
  BY <1>2, <1>4, SubSeqProperties
<1>6. QED
  BY <1>2, <1>3, <1>5

\* What the text is after an edit.
LEMMA EditedIs ==
  ASSUME NEW t \in Seq(0..9), NEW new \in Seq(0..9), NEW to \in 0..Len(t), NEW from \in 0..to
  PROVE  LET r == SubSeq(t, 1, from) \o new \o SubSeq(t, to + 1, Len(t)) IN
         /\ r \in Seq(0..9) /\ Len(r) = Len(t) - (to - from) + Len(new)
         /\ \A i \in 1..Len(r) : r[i] = IF i <= from THEN t[i]
                                       ELSE IF i <= from + Len(new) THEN new[i - from]
                                       ELSE t[i - from - Len(new) + to]
<1> DEFINE u == SubSeq(t, 1, from)
           w == SubSeq(t, to + 1, Len(t))
           n == Len(t)
           k == Len(new)
<1>1. /\ n \in Nat /\ k \in Nat /\ to \in 0..n /\ from \in 0..n /\ from <= to
      /\ \A i \in 1..n : t[i] \in 0..9
  BY LenProperties, ElementOfSeq
<1>2. u \in Seq(0..9) /\ Len(u) = from /\ \A i \in 1..from : u[i] = t[i]
  <2>1. \A i \in 1..from : t[i] \in 0..9
    BY <1>1
  <2>2. /\ u \in Seq(0..9) /\ Len(u) = IF 1 <= from THEN from - 1 + 1 ELSE 0
        /\ \A i \in 1..(from - 1 + 1) : u[i] = t[1 + i - 1]
    BY <1>1, <2>1, SubSeqProperties
  <2> HIDE DEF u
  <2>3. QED
    BY <1>1, <2>2
<1>3. w \in Seq(0..9) /\ Len(w) = n - to /\ \A i \in 1..(n - to) : w[i] = t[to + i]
  <2>1. \A i \in (to + 1)..n : t[i] \in 0..9
    BY <1>1
  <2>2. /\ w \in Seq(0..9) /\ Len(w) = IF to + 1 <= n THEN n - (to + 1) + 1 ELSE 0
        /\ \A i \in 1..(n - (to + 1) + 1) : w[i] = t[to + 1 + i - 1]
    BY <1>1, <2>1, SubSeqProperties
  <2> HIDE DEF w, n
  <2>3. QED
    BY <1>1, <2>2
<1> HIDE DEF u, w, n, k
<1> DEFINE v == u \o new
           r == v \o w
<1>4. /\ v \in Seq(0..9) /\ Len(v) = from + k
      /\ \A i \in 1..(from + k) : v[i] = IF i <= from THEN t[i] ELSE new[i - from]
  <2>1. /\ v \in Seq(0..9) /\ Len(v) = Len(u) + Len(new)
        /\ \A i \in 1..Len(u) + Len(new) :
             v[i] = IF i <= Len(u) THEN u[i] ELSE new[i - Len(u)]
    BY <1>2, ConcatProperties
  <2> HIDE DEF v
  <2>2. QED
    BY <1>1, <1>2, <2>1 DEF k
<1> HIDE DEF v
<1>5. /\ r \in Seq(0..9) /\ Len(r) = from + k + (n - to)
      /\ \A i \in 1..(from + k + (n - to)) :
           r[i] = IF i <= from THEN t[i] ELSE IF i <= from + k THEN new[i - from]
                  ELSE t[i - from - k + to]
  <2>1. /\ r \in Seq(0..9) /\ Len(r) = Len(v) + Len(w)
        /\ \A i \in 1..Len(v) + Len(w) :
             r[i] = IF i <= Len(v) THEN v[i] ELSE w[i - Len(v)]
    BY <1>3, <1>4, ConcatProperties
  <2> HIDE DEF r
  <2>2. Len(r) = from + k + (n - to)
    BY <1>3, <1>4, <2>1
  <2>3. ASSUME NEW i \in 1..(from + k + (n - to))
        PROVE  r[i] = IF i <= from THEN t[i] ELSE IF i <= from + k THEN new[i - from]
                      ELSE t[i - from - k + to]
    <3>1. r[i] = IF i <= from + k THEN v[i] ELSE w[i - (from + k)]
      BY <1>3, <1>4, <2>1
    <3>2. CASE i <= from + k
      BY <1>1, <1>4, <3>1, <3>2
    <3>3. CASE ~(i <= from + k)
      <4>1. i - (from + k) \in 1..(n - to) /\ to + (i - (from + k)) = i - from - k + to
        BY <1>1, <3>3
      <4>2. ~(i <= from)
        BY <1>1, <3>3
      <4>3. QED
        BY <1>3, <3>1, <3>3, <4>1, <4>2
    <3>4. QED
      BY <3>2, <3>3
  <2>4. QED
    BY <2>1, <2>2, <2>3
<1>6. Len(r) = n - (to - from) + k
  BY <1>1, <1>5
<1>7. QED
  BY <1>5, <1>6 DEF r, v, u, w, n, k

LEMMA EditKeeps ==
  ASSUME InputInv, NEW to \in 0..Len(text), NEW from \in 0..to, NEW typed \in Seq(0..9),
         Input!Edit(from, to, typed)
  PROVE  InputInv'
<1> DEFINE sz   == Len(text)
           kept == sz - (to - from)
           new  == Input!Fitting(typed, kept)
           in   == IF Input!Accepted(new) THEN new ELSE <<>>
           L    == Len(in)
<1>1. /\ text \in Seq(0..9) /\ sz \in 0..5 /\ to \in 0..sz /\ from \in 0..to
      /\ \A i \in 1..sz : text[i] \in 0..9
  BY InputTyped
<1>2. kept \in 0..5 /\ kept <= sz /\ from <= kept
  <2> HIDE DEF sz
  <2> QED
    BY <1>1
<1>3. new \in Seq(0..9) /\ Len(new) \in Nat /\ Len(new) + kept <= 5
  <2> HIDE DEF kept
  <2> QED
    BY <1>2, FittingIs
<1>4. in \in Seq(0..9) /\ L \in Nat /\ L + kept <= 5
  <2>1. <<>> \in Seq(0..9) /\ Len(<<>>) = 0
    OBVIOUS
  <2> HIDE DEF new, kept
  <2>2. QED
    BY <1>2, <1>3, <2>1
<1>5. text' = SubSeq(text, 1, from) \o in \o SubSeq(text, to + 1, Len(text))
  BY Zenon DEF Input!Edit
<1>6. /\ text' \in Seq(0..9) /\ Len(text') = sz - (to - from) + L
      /\ \A i \in 1..Len(text') : text'[i] = IF i <= from THEN text[i]
                                            ELSE IF i <= from + L THEN in[i - from]
                                            ELSE text[i - from - L + to]
  <2> DEFINE r == SubSeq(text, 1, from) \o in \o SubSeq(text, to + 1, Len(text))
  <2> HIDE DEF in
  <2>1. /\ r \in Seq(0..9) /\ Len(r) = Len(text) - (to - from) + Len(in)
        /\ \A i \in 1..Len(r) : r[i] = IF i <= from THEN text[i]
                                      ELSE IF i <= from + Len(in) THEN in[i - from]
                                      ELSE text[i - from - Len(in) + to]
    <3>1. /\ text \in Seq(0..9) /\ in \in Seq(0..9)
          /\ to \in 0..Len(text) /\ from \in 0..to
      BY <1>1, <1>4
    <3>2. QED
      BY ONLY <3>1, EditedIs, Zenon
  <2>2. text' = r
    BY <1>5
  <2> HIDE DEF r
  <2>3. QED
    BY ONLY <2>1, <2>2
<1>7. Len(text') = kept + L
  BY <1>6
<1>8. Input!TypeOK'
  <2> HIDE DEF kept, L
  <2>1. Len(text') <= 5
    BY <1>2, <1>4, <1>7
  <2>2. QED
    BY <1>6, <2>1 DEF Input!TypeOK, Input!MAX_LENGTH
<1>9. HasLowDigit'
  <2> SUFFICES ASSUME Len(text') = 5, \A i \in 1..5 : ~(text'[i] <= 5)
               PROVE  FALSE
    BY DEF HasLowDigit
  <2>1. \A i \in 1..5 : text'[i] > 5
    <3>1. \A i \in 1..5 : text'[i] \in 0..9
      BY <1>6, ElementOfSeq
    <3>2. QED
      BY <3>1
  <2>2. \A i \in 1..5 : text'[i] = IF i <= from THEN text[i]
                                  ELSE IF i <= from + L THEN in[i - from]
                                  ELSE text[i - from - L + to]
    BY <1>6
  <2>3. sz = kept + (to - from) /\ kept + L = 5
    <3>1. kept + L = 5
      BY <1>7
    <3>2. kept = sz - (to - from)
      OBVIOUS
    <3> HIDE DEF sz, kept, L
    <3>3. QED
      BY <1>1, <3>1, <3>2
  <2>4. CASE L = 0
    <3>1. to = from /\ sz = 5
      <4> HIDE DEF sz, L, kept
      <4> QED
        BY <1>1, <1>2, <2>3, <2>4
    <3>2. PICK i \in 1..5 : text[i] <= 5
      BY <3>1 DEF InputInv, HasLowDigit
    <3>3. text'[i] = text[i]
      <4>1. i - from - L + to = i /\ (i <= from + L => i <= from)
        <5> HIDE DEF L
        <5> QED
          BY <1>1, <2>4, <3>1
      <4>2. QED
        BY <2>2, <4>1
    <3>4. QED
      BY <3>2, <3>3
  <2>5. CASE L # 0
    <3> DEFINE s == new \o text
    <3>1. Input!Accepted(new) /\ in = new /\ L = Len(new)
      <4> HIDE DEF new
      <4> QED
        BY <2>5
    <3>2. Input!Value(s) <= Input!MAX_PORT
      BY <3>1 DEF Input!Accepted
    <3>3. /\ s \in Seq(0..9) /\ Len(s) = L + sz
          /\ \A i \in 1..(L + sz) : s[i] = IF i <= L THEN in[i] ELSE text[i - L]
      <4>1. /\ s \in Seq(0..9) /\ Len(s) = Len(new) + Len(text)
            /\ \A i \in 1..Len(new) + Len(text) :
                 s[i] = IF i <= Len(new) THEN new[i] ELSE text[i - Len(new)]
        <5> HIDE DEF new
        <5> QED
          BY <1>1, <1>3, ConcatProperties
      <4> HIDE DEF s, new
      <4>2. QED
        BY <3>1, <4>1
    <3> HIDE DEF s, new, in, L, kept, sz
    <3>4. \A i \in 1..L : s[i] > 5
      <4> TAKE i \in 1..L
      <4>1. from + i \in 1..5 /\ ~(from + i <= from) /\ from + i <= from + L /\ from + i - from = i
        BY <1>1, <1>2, <1>4, <2>3
      <4>2. text'[from + i] = in[i]
        BY <2>2, <4>1
      <4>3. i \in 1..(L + sz) /\ i <= L
        BY <1>1, <1>4
      <4>4. s[i] = in[i]
        BY <3>3, <4>3
      <4>5. QED
        BY <2>1, <4>1, <4>2, <4>4
    <3>5. Input!Value(s) \in Nat
      BY <3>3, ValueBounds
    <3>6. CASE L + sz = 5
      <4>1. to = from /\ sz = kept
        <5>1. sz = kept
          BY <1>1, <1>2, <1>4, <2>3, <3>6
        <5>2. to - from = 0
          BY <1>1, <1>2, <2>3, <5>1
        <5>3. QED
          BY <1>1, <5>1, <5>2
      <4>2. ASSUME NEW i \in 1..5, ~(i <= L) PROVE s[i] > 5
        <5>1. s[i] = text[i - L]
          BY <3>3, <3>6, <4>2
        <5>2. CASE i - L <= from
          <6>1. i - L \in 1..5
            BY <1>4, <4>2
          <6>2. text'[i - L] = text[i - L]
            BY <2>2, <5>2, <6>1
          <6>3. QED
            BY <2>1, <5>1, <6>1, <6>2
        <5>3. CASE ~(i - L <= from)
          <6>1. ~(i <= from) /\ ~(i <= from + L) /\ i - from - L + to = i - L
            BY <1>1, <1>4, <4>1, <5>3
          <6>2. text'[i] = text[i - L]
            BY <2>2, <6>1
          <6>3. QED
            BY <2>1, <5>1, <6>2
        <5>4. QED
          BY <5>2, <5>3
      <4>3. \A i \in 1..5 : s[i] > 5
        <5> TAKE i \in 1..5
        <5>1. i <= L => i \in 1..L
          BY <1>4
        <5>2. QED
          BY <3>4, <4>2, <5>1
      <4>4. Len(s) = 5 /\ \A i \in 1..5 : s[i] \in 0..9
        BY <3>3, <3>6, ElementOfSeq
      <4>5. Written(Input!Value(s), s)
        BY <3>3, <4>4, ValueBounds
      <4>6. Input!Value(s) > Input!MAX_PORT
        BY <4>3, <4>4, <4>5, FiveDigits
      <4>7. Input!MAX_PORT \in Nat
        BY SMT DEF Input!MAX_PORT
      <4>8. QED
        BY <3>2, <3>5, <4>6, <4>7
    <3>7. CASE L + sz > 5
      <4>1. 1 \in 1..L
        BY <1>4, <2>5
      <4>2. Len(s) > 5 /\ s[1] > 5
        BY <3>3, <3>4, <3>7, <4>1
      <4>3. Input!Value(s) >= 600000
        BY SMT, <3>3, <4>2, ValueBounds
      <4>4. QED
        BY SMT, <3>2, <3>5, <4>3 DEF Input!MAX_PORT
    <3>8. L + sz = 5 \/ L + sz > 5
      BY <1>1, <1>2, <1>4, <2>3
    <3>9. QED
      BY <3>6, <3>7, <3>8
  <2>6. QED
    BY <2>4, <2>5
<1>10. QED
  BY <1>8, <1>9 DEF InputInv

LEMMA InputInit == Input!Init => InputInv
<1> SUFFICES ASSUME text = <<>> PROVE InputInv
  BY DEF Input!Init
<1>1. text \in Seq(0..9) /\ Len(text) = 0
  OBVIOUS
<1>2. QED
  BY <1>1 DEF InputInv, Input!TypeOK, Input!MAX_LENGTH, HasLowDigit

LEMMA InputStep == InputInv /\ (Input!Next \/ UNCHANGED text) => InputInv'
<1>1. ASSUME InputInv, UNCHANGED text PROVE InputInv'
  BY <1>1 DEF InputInv, Input!TypeOK, HasLowDigit
<1>2. ASSUME InputInv, NEW to \in 0..Len(text), NEW from \in 0..to,
             NEW n \in 0..MaxPaste, NEW typed \in [1..n -> Digits],
             Input!Edit(from, to, typed)
      PROVE  InputInv'
  <2>1. n \in Nat /\ \A i \in 1..n : typed[i] \in 0..9
    <3>1. n \in Nat
      BY DigitsAssumption
    <3>2. \A i \in 1..n : typed[i] \in Digits
      OBVIOUS
    <3>3. \A d \in Digits : d \in 0..9
      BY DigitsAssumption
    <3>4. QED
      BY <3>1, <3>2, <3>3
  <2>2. typed = [i \in 1..n |-> typed[i]]
    OBVIOUS
  <2>3. typed \in Seq(0..9)
    BY ONLY <2>1, <2>2, IsASeq
  <2>4. QED
    BY <1>2, <2>3, EditKeeps
<1>3. ASSUME InputInv, Input!Restore PROVE InputInv'
  <2>1. text' = text \/ text' = <<>>
    BY <1>3 DEF Input!Restore
  <2>2. ASSUME text' = <<>> PROVE InputInv'
    <3>1. text' \in Seq(0..9) /\ Len(text') = 0
      BY <2>2
    <3>2. QED
      BY <3>1 DEF InputInv, Input!TypeOK, Input!MAX_LENGTH, HasLowDigit
  <2>3. QED
    BY <1>1, <1>3, <2>1, <2>2
<1>4. QED
  BY <1>1, <1>2, <1>3 DEF Input!Next

LEMMA InputInvariance == Spec => []InputInv
<1>1. Init => InputInv
  BY InputInit DEF Init
<1>2. [Next]_vars => Input!Next \/ UNCHANGED text
  BY DEF Next, Only, vars, inputVars
<1>3. QED
  BY <1>1, <1>2, InputStep, PTL DEF Spec

\* The text of a port selector is five digits at most (its length filter).
THEOREM InputTypes == Spec => []Input!TypeOK
<1>1. InputInv => Input!TypeOK
  BY DEF InputInv
<1>2. QED
  BY <1>1, InputInvariance, PTL

\* However a port is typed, pasted, cut and restored, its digits are, in some
\* order, those of a port, and it is 99995 at most (the length filter of the layout
\* and the range filter of LogSettingsActivity, which looks at the insertion in
\* front of the whole old text).
THEOREM PortHasDigits == Spec => []DigitsOfPort
<1>1. InputInv => DigitsOfPort
  BY InputSafe DEF DigitsOfPort
<1>2. QED
  BY <1>1, InputInvariance, PTL

-----------------------------------------------------------------------------
(* The search in the chain index.  The function that Search defines exists: *)
(* what it is at a place is given by what it is at one place with a lower   *)
(* end, or the same end and a higher position, at most.                     *)

\* Where the search may be: a position and an end behind it.
Places(sz) == {q \in (0..sz) \X (0..sz) : q[1] < q[2]}

\* What the search is at a place, if f says what it is at the others.
Looked(name, index, f, p) ==
  LET sz == Len(index)
      At(i) == index[i + 1]
      pos == p[1]
      end == p[2] IN
  CASE At(pos) = NULL -> Index!Stop(0, -1)
    [] At(pos) # NULL /\ name <= At(pos) /\ (name = At(pos) \/ pos = 0)
         -> Index!Stop(At(pos), pos)
    [] At(pos) # NULL /\ name < At(pos) /\ pos > 0
         -> f[<<pos \div 2, pos>>]
    [] OTHER ->
         IF pos = sz - 1 THEN Index!Stop(At(pos), pos)
         ELSE IF At(pos + 1) = NULL THEN Index!Fault
         ELSE IF name < At(pos + 1) THEN Index!Stop(At(pos), pos)
         ELSE f[<<(pos + end) \div 2, end>>]

\* How many looks are left at most.
Left(sz, p) == (sz + 1) * p[2] + (p[2] - p[1])

\* A look back, or ahead, is at a place, with fewer looks left; a look ahead may
\* be at the same place.
LEMMA LooksBack ==
  ASSUME NEW sz \in Nat, NEW p \in Places(sz), p[1] > 0
  PROVE  LET q == <<p[1] \div 2, p[1]>> IN
         q \in Places(sz) /\ Left(sz, q) < Left(sz, p) /\ Left(sz, p) \in Nat
<1> DEFINE pos == p[1]
           end == p[2]
           half == pos \div 2
           a == (sz + 1) * pos
           h == (sz + 1) * end
<1>1. pos \in 0..sz /\ end \in 0..sz /\ pos < end /\ pos > 0 /\ pos \in Nat /\ end \in Nat
  BY DEF Places
<1> HIDE DEF pos, end
<1>2. half \in Nat /\ half < pos
  BY <1>1
<1>3. a \in Nat /\ h \in Nat /\ a + (sz + 1) <= h
  BY <1>1
<1>4. <<half, pos>> \in Places(sz)
  <2> HIDE DEF half
  <2>1. half \in 0..sz
    BY <1>1, <1>2
  <2>2. QED
    BY <1>1, <1>2, <2>1 DEF Places
<1> HIDE DEF half, a, h
<1>5. a + (pos - half) < h + (end - pos) /\ h + (end - pos) \in Nat
  BY <1>1, <1>2, <1>3
<1>6. Left(sz, <<half, pos>>) = a + (pos - half) /\ Left(sz, p) = h + (end - pos)
  BY DEF Left, a, h, pos, end
<1>7. QED
  BY <1>4, <1>5, <1>6 DEF half, pos

LEMMA LooksAhead ==
  ASSUME NEW sz \in Nat, NEW p \in Places(sz)
  PROVE  LET q == <<(p[1] + p[2]) \div 2, p[2]>> IN
         /\ q \in Places(sz) /\ Left(sz, q) <= Left(sz, p) /\ Left(sz, p) \in Nat
         /\ p[1] + 1 < p[2] => Left(sz, q) < Left(sz, p)
         /\ q # p => p[1] + 1 < p[2]
         /\ p[1] <= q[1]
<1> DEFINE pos == p[1]
           end == p[2]
           half == (pos + end) \div 2
           h == (sz + 1) * end
<1>1. /\ pos \in 0..sz /\ end \in 0..sz /\ pos < end /\ pos \in Nat /\ end \in Nat
      /\ p = <<pos, end>>
  BY DEF Places
<1> HIDE DEF pos, end
<1>2. /\ half \in Nat /\ half < end /\ pos <= half /\ (pos + 1 < end => pos < half)
      /\ (pos + 1 = end => half = pos)
  BY <1>1
<1>3. h \in Nat
  BY <1>1
<1>4. <<half, end>> \in Places(sz)
  <2> HIDE DEF half
  <2>1. half \in 0..sz
    BY <1>1, <1>2
  <2>2. QED
    BY <1>1, <1>2, <2>1 DEF Places
<1> HIDE DEF half, h
<1>5. /\ h + (end - half) <= h + (end - pos) /\ h + (end - pos) \in Nat
      /\ pos + 1 < end => h + (end - half) < h + (end - pos)
  BY <1>1, <1>2, <1>3
<1>6. Left(sz, <<half, end>>) = h + (end - half) /\ Left(sz, p) = h + (end - pos)
  BY DEF Left, h, pos, end
<1>7. <<half, end>> # p => pos + 1 < end
  BY <1>1, <1>2
<1>8. pos <= <<half, end>>[1]
  BY <1>2
<1>9. QED
  BY <1>4, <1>5, <1>6, <1>7, <1>8 DEF half, pos, end

\* What a place depends on.
LEMMA LookDependsOn ==
  ASSUME NEW name, NEW index, Len(index) \in Nat, NEW p \in Places(Len(index))
  PROVE  \/ \A f, g : Looked(name, index, f, p) = Looked(name, index, g, p)
         \/ \A f : Looked(name, index, f, p) = f[p]
         \/ \E q \in Places(Len(index)) :
              /\ Left(Len(index), q) < Left(Len(index), p)
              /\ \A f : Looked(name, index, f, p) = f[q]
<1> DEFINE back == <<p[1] \div 2, p[1]>>
           ahead == <<(p[1] + p[2]) \div 2, p[2]>>
<1>1. \/ \A f, g : Looked(name, index, f, p) = Looked(name, index, g, p)
      \/ p[1] > 0 /\ \A f : Looked(name, index, f, p) = f[back]
      \/ \A f : Looked(name, index, f, p) = f[ahead]
  BY DEF Looked
<1>2. p[1] > 0 => back \in Places(Len(index)) /\ Left(Len(index), back) < Left(Len(index), p)
  BY LooksBack
<1>3. /\ ahead \in Places(Len(index))
      /\ ahead # p => Left(Len(index), ahead) < Left(Len(index), p)
  BY LooksAhead
<1> HIDE DEF back, ahead
<1>4. QED
  BY <1>1, <1>2, <1>3

\* There is such a function, made of those that are right where few looks are
\* left.
LEMMA SearchExists ==
  ASSUME NEW name, NEW index, Len(index) \in Nat
  PROVE  \E f : f = [p \in Places(Len(index)) |-> Looked(name, index, f, p)]
<1> DEFINE sz == Len(index)
           D == Places(sz)
           Look(f, p) == Looked(name, index, f, p)
           Right(f, n) == \A p \in D : Left(sz, p) < n => f[p] = Look(f, p)
           Missing == {n \in Nat : ~\E f : DOMAIN f = D /\ f = [p \in D |-> f[p]] /\ Right(f, n)}
<1>1. \A p \in D : Left(sz, p) \in Nat /\ Left(sz, p) < (sz + 1) * sz + sz + 1
  <2> SUFFICES ASSUME NEW p \in D
               PROVE  Left(sz, p) \in Nat /\ Left(sz, p) < (sz + 1) * sz + sz + 1
    OBVIOUS
  <2> DEFINE a == p[1]
             h == p[2]
             c == (sz + 1) * h
             d == (sz + 1) * sz
  <2>1. a \in 0..sz /\ h \in 0..sz /\ a < h
    BY DEF Places
  <2> HIDE DEF a, h
  <2>2. c \in Nat /\ d \in Nat /\ c <= d /\ sz \in Nat
    BY <2>1
  <2>3. Left(sz, p) = c + (h - a)
    BY DEF Left, a, h
  <2> HIDE DEF c, d, sz
  <2>4. c + (h - a) \in Nat /\ c + (h - a) < d + sz + 1
    BY <2>1, <2>2
  <2>5. QED
    BY <2>3, <2>4 DEF d
<1>2. ASSUME NEW p \in D
      PROVE  \/ \A f, g : Look(f, p) = Look(g, p)
             \/ \A f : Look(f, p) = f[p]
             \/ \E q \in D : Left(sz, q) < Left(sz, p) /\ \A f : Look(f, p) = f[q]
  BY LookDependsOn
<1> HIDE DEF Look, D
<1>3. Missing = {}
  <2> SUFFICES ASSUME Missing # {} PROVE FALSE
    OBVIOUS
  <2>1. PICK m \in Missing : \A l \in Missing : m <= l
    <3>1. Missing \subseteq Nat
      OBVIOUS
    <3> HIDE DEF Missing
    <3> QED
      BY <3>1, LeastNumber
  <2>2. CASE m = 0
    <3> DEFINE g == [p \in D |-> 0]
    <3>1. DOMAIN g = D /\ g = [p \in D |-> g[p]] /\ Right(g, 0)
      BY <1>1
    <3>2. QED
      BY <2>2, <3>1
  <2>3. CASE m # 0
    <3>1. m - 1 \in Nat /\ m \in Nat /\ m - 1 \notin Missing
      <4>1. m - 1 \in Nat /\ ~(m <= m - 1) /\ m \in Nat
        BY <2>3
      <4> HIDE DEF Missing
      <4>2. QED
        BY <2>1, <4>1
    <3>2. PICK f : DOMAIN f = D /\ f = [p \in D |-> f[p]] /\ Right(f, m - 1)
      BY <3>1
    <3> DEFINE g == [p \in D |-> IF Left(sz, p) = m - 1 THEN Look(f, p) ELSE f[p]]
    <3>3. ASSUME NEW p \in D, Left(sz, p) < m
          PROVE  g[p] = Look(g, p)
      <4>1. Left(sz, p) < m - 1 \/ Left(sz, p) = m - 1
        BY <1>1, <3>1, <3>3
      <4>2. g[p] = Look(f, p)
        BY <3>2, <4>1
      <4>3. \A q \in D : Left(sz, q) < Left(sz, p) => g[q] = f[q]
        BY <1>1, <3>1, <3>3
      <4>4. QED
        <5> HIDE DEF g
        <5> QED
          BY <1>2, <4>2, <4>3
    <3>4. DOMAIN g = D /\ g = [p \in D |-> g[p]] /\ Right(g, m)
      <4>1. DOMAIN g = D /\ g = [p \in D |-> g[p]]
        OBVIOUS
      <4> HIDE DEF g
      <4>2. QED
        BY <3>3, <4>1
    <3>5. QED
      <4> HIDE DEF g
      <4> QED
        BY <3>4
  <2>4. QED
    BY <2>2, <2>3
<1>4. (sz + 1) * sz + sz + 1 \in Nat
  OBVIOUS
<1> DEFINE N == (sz + 1) * sz + sz + 1
<1> HIDE DEF N, sz
<1>5. PICK f : DOMAIN f = D /\ f = [p \in D |-> f[p]] /\ Right(f, N)
  BY <1>3, <1>4 DEF N
<1>6. \A p \in D : f[p] = Look(f, p)
  BY <1>1, <1>5 DEF N
<1>7. f = [p \in D |-> Look(f, p)]
  BY <1>5, <1>6
<1>8. QED
  BY <1>7 DEF D, Look, sz

\* Search is one.
LEMMA SearchIs ==
  ASSUME NEW name, NEW index, Len(index) \in Nat, NEW p \in Places(Len(index))
  PROVE  Index!Search(name, index)[p] = Looked(name, index, Index!Search(name, index), p)
<1> DEFINE Is(f) == f = [q \in Places(Len(index)) |-> Looked(name, index, f, q)]
<1>1. Index!Search(name, index) = CHOOSE f : Is(f)
  BY Zenon DEF Index!Search, Looked, Places, Index!HEAD
<1>2. \E f : Is(f)
  BY SearchExists
<1>3. Is(Index!Search(name, index))
  <2> HIDE DEF Is
  <2> QED
    BY <1>1, <1>2
<1>4. QED
  BY <1>3

\* The index has no NULL, or one at its end.
NullsAtEnd(index) == \A i \in 1..Len(index) : index[i] = NULL => i = Len(index)

\* Between an entry that is not NULL and one that is above, or the end.
Ready(name, index, p) ==
  /\ index[p[1] + 1] # NULL
  /\ p[2] = Len(index) \/ (index[p[2] + 1] # NULL /\ name < index[p[2] + 1])

\* The entry k is the last that is not above the name; nothing is known of
\* what follows it if it is the name.
Closest(name, index, k) ==
  /\ k \in 1..Len(index) /\ index[k] # NULL
  /\ \/ name = index[k]
     \/ k = 1 /\ name < index[k]
     \/ /\ index[k] < name
        /\ k = Len(index) \/ (index[k + 1] # NULL /\ name < index[k + 1])

\* A search that is not ended early ends there, or fails at the NULL.
Found(name, index, s) ==
  \/ \E k \in 1..Len(index) : Closest(name, index, k) /\ s = Index!Stop(index[k], k - 1)
  \/ /\ s = Index!Fault /\ Len(index) > 1 /\ index[Len(index)] = NULL
     /\ index[Len(index) - 1] # NULL /\ index[Len(index) - 1] < name

LEMMA EndsFound ==
  ASSUME NEW name, NEW index, NEW pos \in Nat, Closest(name, index, pos + 1)
  PROVE  Found(name, index, Index!Stop(index[pos + 1], pos))
<1> DEFINE k == pos + 1
<1>1. k - 1 = pos /\ k \in 1..Len(index)
  BY DEF Closest
<1> HIDE DEF k
<1>2. Closest(name, index, k)
  BY DEF k
<1>3. Found(name, index, Index!Stop(index[k], k - 1))
  BY <1>1, <1>2 DEF Found
<1>4. QED
  BY <1>1, <1>3 DEF k

\* What it is at an entry below the name.
LookedAhead(name, index, f, p) ==
  IF p[1] = Len(index) - 1 THEN Index!Stop(index[p[1] + 1], p[1])
  ELSE IF index[p[1] + 2] = NULL THEN Index!Fault
  ELSE IF name < index[p[1] + 2] THEN Index!Stop(index[p[1] + 1], p[1])
  ELSE f[<<(p[1] + p[2]) \div 2, p[2]>>]

LEMMA LooksAheadIf ==
  ASSUME NEW name \in Nat, NEW index, NEW f, NEW p, p[1] \in Nat,
         index[p[1] + 1] \in Nat, index[p[1] + 1] # NULL, index[p[1] + 1] < name
  PROVE  Looked(name, index, f, p) = LookedAhead(name, index, f, p)
<1> DEFINE x == index[p[1] + 1]
<1>1. p[1] + 1 + 1 = p[1] + 2 /\ ~(name <= x) /\ ~(name < x) /\ name # x /\ x # NULL
  OBVIOUS
<1>2. QED
  BY ONLY <1>1, Zenon DEF Looked, LookedAhead

\* A look finds it, or leaves it to another.
LEMMA LookFinds ==
  ASSUME NEW name \in Nat, NEW index \in Seq(Nat \cup {NULL}), NullsAtEnd(index),
         NEW p \in Places(Len(index)), Ready(name, index, p), NEW f
  PROVE  \/ Found(name, index, Looked(name, index, f, p))
         \/ \E q \in Places(Len(index)) :
              /\ Left(Len(index), q) < Left(Len(index), p) /\ Ready(name, index, q)
              /\ Looked(name, index, f, p) = f[q]
<1> DEFINE sz == Len(index)
           pos == p[1]
           end == p[2]
           x == index[pos + 1]
           y == index[pos + 2]
           s == Looked(name, index, f, p)
<1>1. /\ sz \in Nat /\ pos \in 0..sz /\ end \in 0..sz /\ pos < end /\ p = <<pos, end>>
      /\ pos \in Nat /\ end \in Nat
  BY LenProperties DEF Places
<1>2. \A i \in 1..sz : index[i] \in Nat \cup {NULL}
  BY ElementOfSeq
<1>3. x # NULL /\ x \in Nat /\ pos + 1 \in 1..sz /\ pos + 1 + 1 = pos + 2
  BY <1>1, <1>2 DEF Ready
<1>4. CASE name = x \/ (name < x /\ pos = 0)
  <2>1. Closest(name, index, pos + 1)
    BY <1>3, <1>4 DEF Closest
  <2>2. s = Index!Stop(x, pos)
    BY <1>1, <1>3, <1>4 DEF Looked
  <2>3. QED
    BY <1>1, <1>3, <2>1, <2>2, EndsFound
<1>5. CASE name < x /\ pos > 0
  <2> DEFINE q == <<pos \div 2, pos>>
  <2>1. s = f[q]
    BY <1>1, <1>3, <1>5 DEF Looked
  <2>2. q \in Places(sz) /\ Left(sz, q) < Left(sz, p)
    BY <1>1, <1>5, LooksBack
  <2>3. pos \div 2 + 1 \in 1..sz /\ pos \div 2 + 1 < sz
    BY <1>1, <1>5
  <2>4. index[pos \div 2 + 1] # NULL
    BY <2>3 DEF NullsAtEnd
  <2>5. Ready(name, index, q)
    BY <1>3, <1>5, <2>4 DEF Ready
  <2>6. QED
    BY <2>1, <2>2, <2>5
<1>6. x < name => s = LookedAhead(name, index, f, p)
  <2>1. name \in Nat /\ p[1] \in Nat /\ index[p[1] + 1] \in Nat /\ index[p[1] + 1] # NULL
    BY <1>1, <1>3
  <2>2. QED
    BY ONLY <2>1, LooksAheadIf
<1>7. CASE x < name /\ pos = sz - 1
  <2>1. Closest(name, index, pos + 1)
    BY <1>1, <1>3, <1>7 DEF Closest
  <2>2. s = Index!Stop(x, pos)
    BY ONLY <1>6, <1>7 DEF LookedAhead
  <2>3. QED
    BY <1>1, <1>3, <2>1, <2>2, EndsFound
<1>8. CASE x < name /\ pos # sz - 1
  <2>1. pos + 2 \in 1..sz /\ y \in Nat \cup {NULL}
    BY <1>1, <1>2, <1>8
  <2>2. CASE y = NULL
    <3>1. s = Index!Fault
      BY ONLY <1>6, <1>8, <2>2 DEF LookedAhead
    <3>2. pos + 2 = sz /\ sz - 1 = pos + 1 /\ sz > 1
      BY <1>1, <1>8, <2>1, <2>2 DEF NullsAtEnd
    <3>3. QED
      BY <1>3, <1>8, <2>2, <3>1, <3>2 DEF Found
  <2>3. CASE y # NULL /\ name < y
    <3>1. Closest(name, index, pos + 1)
      BY <1>1, <1>3, <1>8, <2>3 DEF Closest
    <3>2. s = Index!Stop(x, pos)
      BY ONLY <1>6, <1>8, <2>3 DEF LookedAhead
    <3>3. QED
      BY <1>1, <1>3, <3>1, <3>2, EndsFound
  <2>4. CASE y # NULL /\ ~(name < y)
    <3> DEFINE q == <<(pos + end) \div 2, end>>
    <3>1. s = f[q]
      BY ONLY <1>6, <1>8, <2>4 DEF LookedAhead
    <3>2. pos + 1 < end
      <4>1. end # pos + 1
        BY <1>1, <1>3, <1>8, <2>4 DEF Ready
      <4>2. QED
        BY <1>1, <4>1
    <3>3. q \in Places(sz) /\ Left(sz, q) < Left(sz, p)
      BY <1>1, <3>2, LooksAhead
    <3>4. index[(pos + end) \div 2 + 1] # NULL
      <4> DEFINE k == (pos + end) \div 2 + 1
      <4>1. k \in 1..sz
        BY <1>1
      <4>2. k = sz => pos + 2 = sz
        BY <1>1, <2>1, <3>2
      <4>3. QED
        BY <2>1, <2>4, <4>1, <4>2 DEF NullsAtEnd
    <3>5. Ready(name, index, q)
      BY <3>4 DEF Ready
    <3>6. QED
      BY <3>1, <3>3, <3>5
  <2>5. QED
    BY <2>2, <2>3, <2>4
<1>9. QED
  BY <1>1, <1>3, <1>4, <1>5, <1>7, <1>8

\* So the search finds it: it begins at an entry that is not NULL.
LEMMA BsearchFinds ==
  ASSUME NEW name \in Nat, NEW index \in Seq(Nat \cup {NULL}), NullsAtEnd(index),
         index # <<>>, index[Len(index)] # NULL \/ Len(index) > 2
  PROVE  Found(name, index, Index!Bsearch(name, index))
<1> DEFINE sz == Len(index)
           D == Places(sz)
           L == Index!Search(name, index)
           Wrong == {n \in Nat : \E p \in D : /\ n = Left(sz, p) /\ Ready(name, index, p)
                                              /\ ~Found(name, index, L[p])}
           start == <<sz \div 2, sz>>
<1>1. sz \in Nat /\ sz > 0
  BY LenProperties, EmptySeq
<1>2. Wrong = {}
  <2> SUFFICES ASSUME Wrong # {} PROVE FALSE
    OBVIOUS
  <2>1. PICK m \in Wrong : \A l \in Wrong : m <= l
    <3>1. Wrong \subseteq Nat
      OBVIOUS
    <3> HIDE DEF Wrong
    <3> QED
      BY <3>1, LeastNumber
  <2>2. PICK p \in D : /\ m = Left(sz, p) /\ Ready(name, index, p)
                       /\ ~Found(name, index, L[p])
    BY <2>1
  <2>3. L[p] = Looked(name, index, L, p)
    BY <1>1, SearchIs
  <2>4. PICK q \in D : /\ Left(sz, q) < Left(sz, p) /\ Ready(name, index, q)
                       /\ Looked(name, index, L, p) = L[q]
    BY <2>2, <2>3, LookFinds
  <2>5. Left(sz, q) \in Nat /\ Left(sz, p) \in Nat
    BY <1>1, LooksAhead
  <2>6. Left(sz, q) \in Wrong
    BY <2>2, <2>3, <2>4, <2>5
  <2>7. QED
    <3> HIDE DEF Wrong
    <3> QED
      BY <2>1, <2>2, <2>4, <2>5, <2>6
<1>3. start \in D
  <2>1. sz \div 2 \in 0..sz /\ sz \div 2 < sz /\ sz \in 0..sz
    BY <1>1
  <2>2. QED
    BY <2>1 DEF Places
<1>4. Ready(name, index, start)
  <2>1. sz \div 2 + 1 \in 1..sz /\ (sz > 2 => sz \div 2 + 1 < sz)
    BY <1>1
  <2>2. index[sz \div 2 + 1] # NULL
    BY <1>1, <2>1 DEF NullsAtEnd
  <2>3. QED
    BY <2>2 DEF Ready
<1>5. Left(sz, start) \in Nat
  BY <1>1, <1>3, LooksAhead
<1>6. Found(name, index, L[start])
  BY <1>2, <1>3, <1>4, <1>5
<1>7. QED
  BY <1>6 DEF Index!Bsearch

\* An index of one or two entries whose last is NULL is not searched.
LEMMA BsearchEndsEarly ==
  ASSUME NEW name, NEW index, Len(index) \in Nat,
         index = <<>> \/ (Len(index) \in 1..2 /\ index[Len(index)] = NULL)
  PROVE  Index!Bsearch(name, index) = Index!Stop(0, -1)
<1>1. CASE index = <<>>
  BY <1>1 DEF Index!Bsearch, Index!HEAD
<1>2. CASE index # <<>>
  <2> DEFINE sz == Len(index)
             start == <<sz \div 2, sz>>
             L == Index!Search(name, index)
  <2>1. sz \in 1..2 /\ sz \div 2 + 1 = sz /\ sz \div 2 \in 0..sz /\ sz \div 2 < sz
    BY <1>2
  <2>2. start \in Places(sz)
    BY <2>1 DEF Places
  <2>3. L[start] = Looked(name, index, L, start)
    BY <2>2, SearchIs
  <2>4. index[start[1] + 1] = NULL
    BY <1>2, <2>1
  <2>5. Looked(name, index, L, start) = Index!Stop(0, -1)
    BY <2>4 DEF Looked
  <2>6. QED
    BY <1>2, <2>3, <2>5 DEF Index!Bsearch
<1>3. QED
  BY <1>1, <1>2

-----------------------------------------------------------------------------
(* The sorted list of chains and its index.                                *)

\* Each chain's name is above those before it.
Ascending(list) == \A i, j \in 1..Len(list) : i < j => list[i] < list[j]

\* The entries of the index are chains of the list, in its order, from its
\* first; there may be a NULL behind two of them.
InOrder(list, index) ==
  /\ Len(index) > 0 /\ Len(list) > 0 /\ index[1] = list[1]
  /\ \A k \in 1..Len(index) :
       index[k] # NULL => \E i \in 1..Len(list) : index[k] = list[i]
  /\ \A k, l \in 1..Len(index) :
       k < l /\ index[k] # NULL /\ index[l] # NULL => index[k] < index[l]
  /\ \A k \in 1..Len(index) : index[k] = NULL => k = Len(index) /\ k > 2

\* Or there is nothing to search: the index is empty, or points to the head of
\* the list, or is short and ends with a NULL.
Good(list, index) ==
  \/ index = <<>> \/ index = <<0>>
  \/ Len(index) \in 1..2 /\ index[Len(index)] = NULL
  \/ InOrder(list, index)

ChainLists == Seq(Names)
Pointers == Names \cup {0, NULL}
ChainIndexes == Seq(Pointers)

\* Numbers.
LEMMA PointersAre ==
  /\ \A n \in Names : n \in Nat /\ n > 0 /\ n # 0 /\ n # NULL
  /\ NULL \notin Nat /\ Pointers \subseteq Nat \cup {NULL} /\ 0 # NULL
<1>1. NULL \notin Nat
  BY SelectorsAssumption
<1>2. 0 \in Nat
  OBVIOUS
<1>3. \A n \in Names : n \in Nat /\ n # 0
  BY ChainsAssumption
<1>4. \A n \in Nat : n # 0 => n > 0
  OBVIOUS
<1>5. QED
  BY <1>1, <1>2, <1>3, <1>4 DEF Pointers

LEMMA ListIs ==
  ASSUME NEW list \in ChainLists
  PROVE  /\ Len(list) \in Nat /\ DOMAIN list = 1..Len(list)
         /\ \A i \in 1..Len(list) : list[i] \in Names /\ list[i] \in Nat /\ list[i] # 0
         /\ Index!Range(list) = {list[i] : i \in 1..Len(list)}
<1>1. Len(list) \in Nat /\ DOMAIN list = 1..Len(list) /\ \A i \in 1..Len(list) : list[i] \in Names
  BY LenProperties, ElementOfSeq DEF ChainLists
<1>2. Index!Range(list) = {list[i] : i \in 1..Len(list)}
  BY <1>1 DEF Index!Range
<1>3. QED
  BY <1>1, <1>2, PointersAre

LEMMA IndexIs ==
  ASSUME NEW index \in ChainIndexes
  PROVE  /\ Len(index) \in Nat /\ DOMAIN index = 1..Len(index)
         /\ \A k \in 1..Len(index) : index[k] \in Pointers /\ index[k] \in Nat \cup {NULL}
         /\ index \in Seq(Nat \cup {NULL})
         /\ Index!Range(index) = {index[k] : k \in 1..Len(index)}
<1>1. /\ Len(index) \in Nat /\ DOMAIN index = 1..Len(index)
      /\ \A k \in 1..Len(index) : index[k] \in Pointers
  BY LenProperties, ElementOfSeq DEF ChainIndexes
<1>2. Index!Range(index) = {index[k] : k \in 1..Len(index)}
  BY <1>1 DEF Index!Range
<1>3. index = [k \in 1..Len(index) |-> index[k]]
  BY <1>1, LenProperties DEF ChainIndexes
<1>4. \A k \in 1..Len(index) : index[k] \in Nat \cup {NULL}
  BY <1>1, PointersAre
<1>5. index \in Seq(Nat \cup {NULL})
  BY <1>1, <1>3, <1>4, IsASeq
<1>6. QED
  BY <1>1, <1>2, <1>4, <1>5

\* A chain is in one place.
LEMMA PlaceIs ==
  ASSUME NEW list \in ChainLists, Ascending(list), NEW i \in 1..Len(list)
  PROVE  (CHOOSE j \in DOMAIN list : list[j] = list[i]) = i
<1>1. /\ Len(list) \in Nat /\ DOMAIN list = 1..Len(list)
      /\ \A j \in 1..Len(list) : list[j] \in Nat
  BY ListIs
<1>2. \A j \in 1..Len(list) : list[j] = list[i] => j = i
  <2> SUFFICES ASSUME NEW j \in 1..Len(list), list[j] = list[i] PROVE j = i
    OBVIOUS
  <2>1. ~(j < i) /\ ~(i < j)
    <3> DEFINE x == list[i]
               y == list[j]
    <3>1. x \in Nat /\ y \in Nat /\ x = y /\ (i < j => x < y) /\ (j < i => y < x)
      BY <1>1 DEF Ascending
    <3> HIDE DEF x, y
    <3>2. QED
      BY <3>1
  <2>2. QED
    BY <1>1, <2>1
<1>3. QED
  BY <1>1, <1>2

\* Where the search finds something, or nothing.
LEMMA SearchIn ==
  ASSUME NEW list \in ChainLists, Ascending(list), NEW index \in ChainIndexes, Good(list, index),
         NEW name \in Nat
  PROVE  \/ /\ Index!Bsearch(name, index) = Index!Stop(0, -1)
            /\ index = <<>> \/ (Len(index) \in 1..2 /\ index[Len(index)] = NULL)
         \/ /\ index = <<0>> /\ name # 0 => Index!Bsearch(name, index) = Index!Stop(0, 0)
            /\ index = <<0>> \/ InOrder(list, index)
            /\ Found(name, index, Index!Bsearch(name, index))
<1>1. CASE index = <<>> \/ (Len(index) \in 1..2 /\ index[Len(index)] = NULL)
  BY <1>1, IndexIs, BsearchEndsEarly
<1>2. CASE index = <<0>>
  <2>1. Len(index) = 1 /\ index[1] = 0 /\ index # <<>>
    BY <1>2
  <2>2. Found(name, index, Index!Bsearch(name, index))
    BY <2>1, IndexIs, BsearchFinds, PointersAre DEF NullsAtEnd
  <2>3. Index!Bsearch(name, index) = Index!Stop(0, 0)
    <3>1. \A k \in 1..Len(index) : k = 1
      BY <2>1
    <3>2. QED
      BY <2>1, <2>2, <3>1 DEF Found
  <2>4. QED
    BY <1>2, <2>2, <2>3
<1>3. CASE InOrder(list, index) /\ index # <<0>>
  <2>1. NullsAtEnd(index) /\ (index[Len(index)] # NULL \/ Len(index) > 2)
    <3>1. Len(index) \in Nat /\ Len(index) > 0
      BY <1>3, IndexIs DEF InOrder
    <3>2. QED
      BY <1>3, <3>1 DEF InOrder, NullsAtEnd
  <2>2. index # <<>>
    BY <1>3 DEF InOrder
  <2>3. QED
    BY <1>3, <2>1, <2>2, IndexIs, BsearchFinds
<1>4. QED
  BY <1>1, <1>2, <1>3 DEF Good

\* A walk that begins where the search ended misses no name that is not lower.
StartsLow(list, name, start) ==
  start = 1 \/ (start \in 1..Len(list) /\ list[start] <= name)

LEMMA StartIs ==
  ASSUME NEW list \in ChainLists, Ascending(list), NEW index \in ChainIndexes,
         Good(list, index), NEW name \in Names,
         NEW ptr, ptr = Index!Bsearch(name, index).ptr
  PROVE  StartsLow(list, name,
           IF ptr \in Index!Range(list) THEN CHOOSE i \in DOMAIN list : list[i] = ptr ELSE 1)
<1> DEFINE start ==
             IF ptr \in Index!Range(list) THEN CHOOSE i \in DOMAIN list : list[i] = ptr ELSE 1
           s == Index!Bsearch(name, index)
<1> SUFFICES StartsLow(list, name, start)
  OBVIOUS
<1>1. Index!Range(list) = {list[i] : i \in 1..Len(list)} /\ 0 \notin Index!Range(list)
  BY ListIs
<1>2. name \in Nat /\ name # 0
  BY PointersAre
<1>3. CASE s = Index!Stop(0, -1) \/ s = Index!Fault \/ s = Index!Stop(0, 0)
  BY <1>1, <1>3 DEF Index!Stop, Index!Fault, Index!HEAD, StartsLow
<1>4. CASE InOrder(list, index) /\ Found(name, index, s) /\ s # Index!Fault
  <2>1. PICK k \in 1..Len(index) : Closest(name, index, k) /\ s = Index!Stop(index[k], k - 1)
    BY <1>4 DEF Found
  <2>2. ptr = index[k]
    BY <2>1 DEF Index!Stop
  <2>3. PICK i \in 1..Len(list) : ptr = list[i]
    BY <1>4, <2>1, <2>2 DEF InOrder, Closest
  <2>4. start = i
    BY <1>1, <2>3, PlaceIs
  <2>5. list[i] \in Nat /\ i \in Nat
    BY ListIs
  <2>6. list[i] <= name \/ (k = 1 /\ name < index[k])
    BY <1>2, <2>1, <2>2, <2>3, <2>5 DEF Closest
  <2>7. CASE list[i] <= name
    <3> HIDE DEF start
    <3> QED
      BY <2>4, <2>7 DEF StartsLow
  <2>8. CASE k = 1
    <3>1. list[i] = list[1]
      BY <1>4, <2>2, <2>3, <2>8 DEF InOrder
    <3>2. start = 1
      <4>1. 1 \in 1..Len(list)
        BY <2>5
      <4>2. QED
        BY <1>1, <2>3, <3>1, <4>1, PlaceIs
    <3> HIDE DEF start
    <3>3. QED
      BY <3>2 DEF StartsLow
  <2>9. QED
    BY <2>6, <2>7, <2>8
<1>5. QED
  BY <1>2, <1>3, <1>4, SearchIn

\* What a list that has one name more is made of, and that it is sorted too.
HasMore(r, list, name) ==
  /\ r \in ChainLists /\ Ascending(r) /\ Len(r) = Len(list) + 1
  /\ \A i \in 1..Len(list) : \E j \in 1..Len(r) : r[j] = list[i]
  /\ \A j \in 1..Len(r) : r[j] = name \/ \E i \in 1..Len(list) : r[j] = list[i]
  /\ \E j \in 1..Len(r) : r[j] = name
  /\ r[1] = IF Len(list) > 0 /\ list[1] < name THEN list[1] ELSE name

LEMMA InsertedAt ==
  ASSUME NEW list \in ChainLists, Ascending(list), NEW name \in Names,
         NEW m \in 1..(Len(list) + 1),
         \A j \in 1..Len(list) : (j < m => list[j] < name) /\ (j >= m => name < list[j]),
         NEW r \in ChainLists, Len(r) = Len(list) + 1,
         \A k \in 1..Len(r) : r[k] = IF k < m THEN list[k] ELSE IF k = m THEN name ELSE list[k - 1]
  PROVE  HasMore(r, list, name)
<1> DEFINE n == Len(list)
<1>1. n \in Nat /\ Len(r) = n + 1 /\ m \in Nat /\ m \in 1..(n + 1)
  BY ListIs
<1>2. \A i \in 1..n : list[i] \in Nat
  BY ListIs
<1>3. name \in Nat
  BY PointersAre
<1>4. /\ \A i, j \in 1..n : i < j => list[i] < list[j]
      /\ \A j \in 1..n : (j < m => list[j] < name) /\ (j >= m => name < list[j])
      /\ \A k \in 1..(n + 1) :
           r[k] = IF k < m THEN list[k] ELSE IF k = m THEN name ELSE list[k - 1]
  BY <1>1 DEF Ascending
<1> HIDE DEF n
<1>5. Ascending(r)
  <2> SUFFICES ASSUME NEW i \in 1..(n + 1), NEW j \in 1..(n + 1), i < j PROVE r[i] < r[j]
    BY <1>1 DEF Ascending
  <2>1. CASE j < m
    <3>1. i \in 1..n /\ j \in 1..n /\ r[i] = list[i] /\ r[j] = list[j]
      BY <1>1, <1>4, <2>1
    <3>2. QED
      BY <1>4, <3>1
  <2>2. CASE j = m
    <3>1. i \in 1..n /\ i < m /\ r[i] = list[i] /\ r[j] = name
      BY <1>1, <1>4, <2>2
    <3>2. QED
      BY <1>4, <3>1
  <2>3. CASE j > m /\ i < m
    <3> DEFINE l == j - 1
    <3>1. i \in 1..n /\ l \in 1..n /\ l >= m /\ r[i] = list[i] /\ r[j] = list[l]
      BY <1>1, <1>4, <2>3
    <3> HIDE DEF l
    <3>2. list[i] < name /\ name < list[l] /\ list[i] \in Nat /\ list[l] \in Nat
      BY <1>2, <1>4, <2>3, <3>1
    <3>3. QED
      BY <1>3, <3>1, <3>2
  <2>4. CASE j > m /\ i = m
    <3>1. j - 1 \in 1..n /\ j - 1 >= m /\ r[i] = name /\ r[j] = list[j - 1]
      BY <1>1, <1>4, <2>4
    <3>2. QED
      BY <1>4, <3>1
  <2>5. CASE j > m /\ i > m
    <3>1. /\ j - 1 \in 1..n /\ i - 1 \in 1..n /\ i - 1 < j - 1
          /\ r[i] = list[i - 1] /\ r[j] = list[j - 1]
      BY <1>1, <1>4, <2>5
    <3>2. QED
      BY <1>4, <3>1
  <2>6. QED
    BY <1>1, <2>1, <2>2, <2>3, <2>4, <2>5
<1>6. \A i \in 1..n : \E j \in 1..(n + 1) : r[j] = list[i]
  <2> SUFFICES ASSUME NEW i \in 1..n PROVE \E j \in 1..(n + 1) : r[j] = list[i]
    OBVIOUS
  <2>1. CASE i < m
    BY <1>1, <1>4, <2>1
  <2>2. CASE ~(i < m)
    <3>1. i + 1 \in 1..(n + 1) /\ ~(i + 1 < m) /\ i + 1 # m /\ i + 1 - 1 = i
      BY <1>1, <2>2
    <3>2. r[i + 1] = list[i]
      BY <1>4, <3>1
    <3>3. QED
      BY <3>1, <3>2
  <2>3. QED
    BY <2>1, <2>2
<1>7. \A j \in 1..(n + 1) : r[j] = name \/ \E i \in 1..n : r[j] = list[i]
  <2> SUFFICES ASSUME NEW j \in 1..(n + 1) PROVE r[j] = name \/ \E i \in 1..n : r[j] = list[i]
    OBVIOUS
  <2>1. j < m => j \in 1..n
    BY <1>1
  <2>2. ~(j < m) /\ j # m => j - 1 \in 1..n
    BY <1>1
  <2>3. QED
    BY <1>4, <2>1, <2>2
<1>8. m \in 1..(n + 1) /\ r[m] = name
  BY <1>1, <1>4
<1>9. r[1] = IF n > 0 /\ list[1] < name THEN list[1] ELSE name
  <2>1. CASE m = 1
    <3>1. r[1] = name /\ (n > 0 => name < list[1] /\ list[1] \in Nat)
      BY <1>1, <1>2, <1>4, <2>1
    <3>2. QED
      BY <1>3, <3>1
  <2>2. CASE m > 1
    <3>1. 1 \in 1..n /\ 1 < m /\ n > 0 /\ 1 \in 1..(n + 1)
      BY <1>1, <2>2
    <3>2. r[1] = list[1] /\ list[1] < name
      BY <1>4, <3>1
    <3>3. QED
      BY <3>1, <3>2
  <2>3. QED
    BY <1>1, <2>1, <2>2
<1>10. QED
  BY <1>1, <1>5, <1>6, <1>7, <1>8, <1>9 DEF HasMore, n

\* Such is the list that a name is inserted into.
LEMMA InsertedHasMore ==
  ASSUME NEW list \in ChainLists, Ascending(list), NEW name \in Names,
         \A i \in 1..Len(list) : list[i] # name, NEW start, StartsLow(list, name, start)
  PROVE  HasMore(Index!Inserted(list, name, start), list, name)
<1> DEFINE n == Len(list)
           above == {i \in start..Len(list) : name <= list[i]}
           r == Index!Inserted(list, name, start)
<1>1. /\ n \in Nat /\ \A i \in 1..n : list[i] \in Nat
      /\ \A i, j \in 1..n : i < j => list[i] < list[j]
  BY ListIs DEF Ascending
<1>2. name \in Nat /\ start \in Nat /\ start > 0 /\ (start # 1 => start \in 1..n /\ list[start] <= name)
  BY <1>1, PointersAre DEF StartsLow
<1>3. \A j \in 1..n : j < start => list[j] < name
  <2> SUFFICES ASSUME NEW j \in 1..n, j < start PROVE list[j] < name
    OBVIOUS
  <2>1. start \in 1..n /\ list[start] <= name
    BY <1>2
  <2>2. list[j] < list[start] /\ list[j] \in Nat /\ list[start] \in Nat
    BY <1>1, <2>1
  <2>3. QED
    BY <1>2, <2>1, <2>2
<1>4. CASE above = {}
  <2>1. \A j \in 1..n : list[j] < name
    <3> SUFFICES ASSUME NEW j \in 1..n PROVE list[j] < name
      OBVIOUS
    <3>1. j >= start => ~(name <= list[j])
      BY <1>1, <1>2, <1>4
    <3>2. QED
      BY <1>1, <1>2, <1>3, <3>1
  <2>2. r = Append(list, name)
    BY <1>4, Zenon DEF Index!Inserted
  <2>3. /\ r \in ChainLists /\ Len(r) = n + 1
        /\ \A k \in 1..Len(r) : r[k] = IF k \in 1..n THEN list[k] ELSE name
    BY <2>2, AppendedIs DEF ChainLists
  <2> HIDE DEF r
  <2>4. \A k \in 1..Len(r) :
          r[k] = IF k < n + 1 THEN list[k] ELSE IF k = n + 1 THEN name ELSE list[k - 1]
    BY <1>1, <2>3
  <2>5. n + 1 \in 1..(n + 1) /\ \A j \in 1..n : j < n + 1 /\ ~(j >= n + 1)
    BY <1>1
  <2> DEFINE m == n + 1
  <2>6. \A j \in 1..n : (j < m => list[j] < name) /\ (j >= m => name < list[j])
    BY <2>1, <2>5
  <2> HIDE DEF m
  <2>7. HasMore(r, list, name)
    BY <2>3, <2>4, <2>5, <2>6, InsertedAt DEF m
  <2>8. QED
    BY <2>7 DEF r
<1>5. CASE above # {}
  <2>1. above \subseteq Nat
    BY <1>2
  <2>2. PICK m \in above : \A i \in above : m <= i
    <3> HIDE DEF above
    <3> QED
      BY <1>5, <2>1, LeastNumber
  <2>3. Index!Min(above) = m
    <3>1. Index!Min(above) = CHOOSE x \in above : \A y \in above : x <= y
      BY DEF Index!Min
    <3>2. \A x \in above : (\A y \in above : x <= y) => x = m
      BY <1>2, <2>2
    <3> HIDE DEF above
    <3>3. QED
      BY <2>2, <3>1, <3>2
  <2>4. r = Inserted(list, m, name)
    <3>1. r = Inserted(list, Index!Min(above), name)
      BY <1>5, Zenon DEF Index!Inserted, Inserted
    <3> HIDE DEF r, above
    <3>2. QED
      BY <2>3, <3>1
  <2>5. m \in 1..n /\ m \in Nat /\ name <= list[m] /\ m >= start
    BY <1>1, <1>2, <2>2
  <2>6. m \in 1..(Len(list) + 1)
    BY <1>1, <2>5
  <2>7. /\ r \in ChainLists /\ Len(r) = n + 1
        /\ \A k \in 1..Len(r) :
             r[k] = IF k < m THEN list[k] ELSE IF k = m THEN name ELSE list[k - 1]
    <3> HIDE DEF r
    <3> QED
      BY <2>4, <2>6, InsertedIs DEF ChainLists
  <2>8. ASSUME NEW j \in 1..n PROVE (j < m => list[j] < name) /\ (j >= m => name < list[j])
    <3>1. list[j] # name /\ list[m] # name /\ list[j] \in Nat /\ list[m] \in Nat
      BY <1>1, <2>5
    <3>2. ASSUME j < m PROVE list[j] < name
      <4>1. j \notin above
        <5>1. ~(m <= j)
          BY <2>5, <3>2
        <5> HIDE DEF above
        <5>2. QED
          BY <2>2, <5>1
      <4>2. j \in start..n => ~(name <= list[j])
        BY <4>1
      <4>3. QED
        BY <1>2, <1>1, <1>3, <3>1, <4>2
    <3>3. ASSUME j >= m PROVE name < list[j]
      <4>1. j = m \/ list[m] < list[j]
        BY <1>1, <2>5, <3>3
      <4>2. QED
        BY <1>2, <2>5, <3>1, <4>1
    <3>4. QED
      BY <3>2, <3>3
  <2> HIDE DEF r, above
  <2>9. HasMore(r, list, name)
    BY <2>6, <2>7, <2>8, InsertedAt
  <2>10. QED
    BY <2>9 DEF r
<1>6. QED
  BY <1>4, <1>5

\* What a list without a name is made of.
HasLess(r, list, name) ==
  /\ r \in ChainLists /\ Ascending(r) /\ Len(r) = Len(list) - 1
  /\ \A i \in 1..Len(list) : list[i] # name => \E j \in 1..Len(r) : r[j] = list[i]
  /\ \A j \in 1..Len(r) : r[j] # name /\ \E i \in 1..Len(list) : r[j] = list[i]
  /\ Len(list) > 1 => r[1] = IF list[1] = name THEN list[2] ELSE list[1]

LEMMA WithoutHasLess ==
  ASSUME NEW list \in ChainLists, Ascending(list), NEW i \in 1..Len(list)
  PROVE  HasLess(Index!Without(list, list[i]), list, list[i])
<1> DEFINE n == Len(list)
           name == list[i]
           r == Index!Without(list, name)
           f == [k \in 1..(n - 1) |-> IF k < i THEN k ELSE k + 1]
<1>1. /\ n \in Nat /\ \A j \in 1..n : list[j] \in Nat
      /\ \A j, l \in 1..n : j < l => list[j] < list[l]
  BY ListIs DEF Ascending
<1>2. (CHOOSE j \in DOMAIN list : list[j] = list[i]) = i
  BY PlaceIs
<1>3. r = SubSeq(list, 1, i - 1) \o SubSeq(list, i + 1, Len(list))
  <2> DEFINE place == CHOOSE j \in DOMAIN list : list[j] = list[i]
  <2>1. r = SubSeq(list, 1, place - 1) \o SubSeq(list, place + 1, Len(list))
    BY Zenon DEF Index!Without
  <2> HIDE DEF r, place
  <2>2. place = i
    BY <1>2 DEF place
  <2>3. QED
    BY <2>1, <2>2
<1>4. /\ r \in ChainLists /\ Len(r) = n - 1
      /\ \A j \in 1..(n - 1) : r[j] = IF j < i THEN list[j] ELSE list[j + 1]
  <2> HIDE DEF r
  <2> QED
    BY <1>3, RemoveAtProperties DEF ChainLists
<1>5. \A j \in 1..n : list[j] = name <=> j = i
  <2> SUFFICES ASSUME NEW j \in 1..n, list[j] = name PROVE j = i
    OBVIOUS
  <2>1. (CHOOSE k \in DOMAIN list : list[k] = list[j]) = j
    BY PlaceIs
  <2>2. QED
    BY <1>2, <2>1
<1>6. i \in 1..n
  OBVIOUS
<1> HIDE DEF r, n, name
<1>7. \A j \in 1..(n - 1) : /\ f[j] \in 1..n /\ f[j] # i /\ r[j] = list[f[j]]
                            /\ \A l \in 1..(n - 1) : j < l => f[j] < f[l]
  BY <1>1, <1>4, <1>6
<1>8. \A j \in 1..n : j # i => \E l \in 1..(n - 1) : f[l] = j
  <2> SUFFICES ASSUME NEW j \in 1..n, j # i PROVE \E l \in 1..(n - 1) : f[l] = j
    OBVIOUS
  <2>1. CASE j < i
    <3>1. j \in 1..(n - 1) /\ f[j] = j
      BY <1>1, <1>6, <2>1
    <3>2. QED
      BY <3>1
  <2>2. CASE j > i
    <3>1. j - 1 \in 1..(n - 1) /\ f[j - 1] = j
      BY <1>1, <1>6, <2>2
    <3>2. QED
      BY <3>1
  <2>3. QED
    BY <1>1, <1>6, <2>1, <2>2
<1>9. n > 1 => 1 \in 1..(n - 1) /\ f[1] = IF i = 1 THEN 2 ELSE 1
  BY <1>1, <1>6
<1> HIDE DEF f
<1>10. Ascending(r)
  BY <1>1, <1>4, <1>7 DEF Ascending
<1>11. \A j \in 1..n : list[j] # name => \E l \in 1..(n - 1) : r[l] = list[j]
  BY <1>5, <1>7, <1>8
<1>12. \A j \in 1..(n - 1) : r[j] # name /\ \E l \in 1..n : r[j] = list[l]
  BY <1>5, <1>7
<1>13. n > 1 => r[1] = IF list[1] = name THEN list[2] ELSE list[1]
  <2> SUFFICES ASSUME n > 1 PROVE r[1] = IF list[1] = name THEN list[2] ELSE list[1]
    OBVIOUS
  <2>1. 1 \in 1..n /\ 1 \in 1..(n - 1)
    BY <1>1
  <2>2. list[1] = name <=> i = 1
    BY <1>5, <2>1
  <2>3. QED
    BY <1>7, <1>9, <2>1, <2>2
<1>14. QED
  BY <1>4, <1>10, <1>11, <1>12, <1>13 DEF HasLess, n, name, r

\* The chains that buckets begin with, all but perhaps the last of them below num.
LEMMA BucketsBegin ==
  ASSUME NEW num \in Nat, NEW L \in Nat \ {0}, NEW q, q = (num + L - 1) \div L
  PROVE  /\ q \in Nat /\ (num > 0 => q > 0) /\ (num = 0 => q = 0)
         /\ \A k \in 1..q : /\ (k - 1) * L + 1 \in 1..num
                            /\ k < q => (k - 1) * L + 1 < num
                            /\ k = 1 => (k - 1) * L + 1 = 1
         /\ \A k, l \in 1..q : k < l => (k - 1) * L + 1 < (l - 1) * L + 1
<1>1. num + L - 1 \in Nat
  OBVIOUS
<1>2. q \in Nat /\ L * q <= num + L - 1 /\ num + L - 1 < L * q + L
  BY <1>1
<1>3. (num > 0 => q > 0) /\ (num = 0 => q = 0)
  <2>1. q = 0 => L * q = 0
    OBVIOUS
  <2>2. q > 0 => L * q >= L
    BY <1>2
  <2>3. QED
    BY <1>2, <2>1, <2>2
<1>4. ASSUME NEW k \in 1..q, NEW l \in 1..q, k < l PROVE (k - 1) * L + 1 < (l - 1) * L + 1
  <2> DEFINE x == (k - 1) * L
             y == (l - 1) * L
  <2>1. k - 1 \in Nat /\ l - 1 \in Nat /\ k - 1 < l - 1
    BY <1>2, <1>4
  <2>2. x \in Nat /\ y \in Nat /\ x < y
    BY <2>1
  <2> HIDE DEF x, y
  <2>3. x + 1 < y + 1
    BY <2>2
  <2>4. QED
    BY <2>3 DEF x, y
<1>5. ASSUME NEW k \in 1..q
      PROVE  /\ (k - 1) * L + 1 \in 1..num /\ (k < q => (k - 1) * L + 1 < num)
             /\ k = 1 => (k - 1) * L + 1 = 1
  <2> DEFINE x == (k - 1) * L
             z == (q - 1) * L
             u == L * q
  <2>1. k - 1 \in Nat /\ q - 1 \in Nat /\ k - 1 <= q - 1 /\ (k < q => k - 1 < q - 1)
    BY <1>2
  <2>2. x \in Nat /\ z \in Nat /\ x <= z /\ (k < q => x < z) /\ (k = 1 => x = 0)
    BY <2>1
  <2>3. z = u - L /\ u \in Nat
    BY <1>2
  <2>4. u <= num + L - 1
    BY <1>2
  <2> HIDE DEF x, z, u
  <2>5. x + 1 \in 1..num /\ (k < q => x + 1 < num) /\ (k = 1 => x + 1 = 1)
    BY <2>2, <2>3, <2>4
  <2>6. QED
    BY <2>5 DEF x
<1>6. QED
  BY <1>2, <1>3, <1>4, <1>5

\* An index that was built for the list, or for one chain more.
LEMMA RebuiltIsGood ==
  ASSUME NEW list \in ChainLists, Ascending(list),
         NEW num, num = Len(list) \/ num = Len(list) + 1
  PROVE  LET r == Index!Rebuilt(list, num) IN
         /\ r \in ChainIndexes /\ Good(list, r)
         /\ \A k \in 1..Len(r) : r[k] # NULL => \E i \in 1..Len(list) : r[k] = list[i]
         /\ num = Len(list) => \A k \in 1..Len(r) : r[k] # NULL
<1> DEFINE n == Len(list)
           L == CHAIN_INDEX_BUCKET_LEN
           q == (num + L - 1) \div L
           g == [k \in 1..q |-> (k - 1) * L + 1]
           r == [k \in 1..q |-> IF g[k] <= n THEN list[g[k]] ELSE NULL]
<1>1. /\ n \in Nat /\ \A i \in 1..n : list[i] \in Names /\ list[i] # NULL
      /\ \A i, j \in 1..n : i < j => list[i] < list[j]
  BY ListIs, PointersAre DEF Ascending
<1>2. Index!Rebuilt(list, num) = r
  BY DEF Index!Rebuilt
<1>3. /\ num \in Nat /\ L \in Nat \ {0}
  BY <1>1, ChainsAssumption
<1> HIDE DEF n
<1>4. /\ q \in Nat /\ (num > 0 => q > 0) /\ (num = 0 => q = 0)
      /\ \A k \in 1..q : g[k] \in 1..num /\ (k < q => g[k] < num) /\ (k = 1 => g[k] = 1)
      /\ \A k, l \in 1..q : k < l => g[k] < g[l]
  <2> HIDE DEF q, L
  <2>1. /\ q \in Nat /\ (num > 0 => q > 0) /\ (num = 0 => q = 0)
        /\ \A k \in 1..q : /\ (k - 1) * L + 1 \in 1..num
                           /\ k < q => (k - 1) * L + 1 < num
                           /\ k = 1 => (k - 1) * L + 1 = 1
        /\ \A k, l \in 1..q : k < l => (k - 1) * L + 1 < (l - 1) * L + 1
    BY <1>3, BucketsBegin DEF q
  <2>2. QED
    BY <2>1, Zenon
<1> HIDE DEF q, g
<1>5. \A k \in 1..q : /\ r[k] = IF g[k] <= n THEN list[g[k]] ELSE NULL
                      /\ r[k] # NULL => g[k] \in 1..n /\ r[k] = list[g[k]] /\ list[g[k]] \in Names
                      /\ r[k] = NULL => k = q /\ num = n + 1
  <2> SUFFICES ASSUME NEW k \in 1..q
               PROVE  /\ r[k] = IF g[k] <= n THEN list[g[k]] ELSE NULL
                      /\ r[k] # NULL => g[k] \in 1..n /\ r[k] = list[g[k]] /\ list[g[k]] \in Names
                      /\ r[k] = NULL => k = q /\ num = n + 1
    OBVIOUS
  <2>1. g[k] \in 1..num /\ (k < q => g[k] < num) /\ (num = n \/ num = n + 1)
    BY <1>4 DEF n
  <2>2. r[k] = IF g[k] <= n THEN list[g[k]] ELSE NULL
    OBVIOUS
  <2>3. g[k] <= n => g[k] \in 1..n
    BY <1>1, <2>1
  <2>4. ~(g[k] <= n) => k = q /\ num = n + 1
    BY <1>1, <1>4, <2>1
  <2> HIDE DEF r
  <2>5. QED
    BY <1>1, <2>2, <2>3, <2>4
<1>6. r \in ChainIndexes /\ Len(r) = q
  <2>1. \A k \in 1..q : r[k] \in Pointers
    <3> HIDE DEF r
    <3> QED
      BY <1>5 DEF Pointers
  <2>2. r = [k \in 1..q |-> r[k]]
    OBVIOUS
  <2> HIDE DEF r
  <2>3. QED
    BY <1>4, <2>1, <2>2, IsASeq DEF ChainIndexes
<1>7. r \in Seq(Pointers) /\ (q = 0 => r = <<>>)
  <2> HIDE DEF r
  <2>1. r \in Seq(Pointers)
    BY <1>6 DEF ChainIndexes
  <2>2. QED
    BY <1>6, <2>1, EmptySeq
<1> HIDE DEF r
<1>8. Good(list, r)
  <2>1. CASE q = 0
    BY <1>7, <2>1 DEF Good
  <2>2. CASE q \in 1..2 /\ r[q] = NULL
    BY <1>6, <2>2 DEF Good
  <2>3. CASE q > 0 /\ (r[q] # NULL \/ q > 2)
    <3>1. 1 \in 1..q /\ (1 = q \/ 1 < q)
      BY <1>4, <2>3
    <3>2. 1 \in 1..q /\ r[1] # NULL /\ g[1] = 1
      BY <1>4, <1>5, <2>3, <3>1
    <3>3. 1 \in 1..n /\ r[1] = list[1]
      BY <1>5, <3>2
    <3>4. n > 0
      BY <1>1, <3>3
    <3>5. \A k \in 1..q : r[k] # NULL => \E i \in 1..n : r[k] = list[i]
      BY <1>5
    <3>6. \A k, l \in 1..q : k < l /\ r[k] # NULL /\ r[l] # NULL => r[k] < r[l]
      BY <1>1, <1>4, <1>5
    <3>7. \A k \in 1..q : r[k] = NULL => k = q /\ k > 2
      BY <1>5, <2>3
    <3>8. InOrder(list, r)
      BY <1>6, <2>3, <3>3, <3>4, <3>5, <3>6, <3>7 DEF InOrder, n
    <3>9. QED
      BY <3>8 DEF Good
  <2>4. QED
    BY <1>4, <2>1, <2>2, <2>3
<1>9. \A k \in 1..Len(r) : r[k] # NULL => \E i \in 1..Len(list) : r[k] = list[i]
  BY <1>5, <1>6 DEF n
<1>10. num = Len(list) => \A k \in 1..Len(r) : r[k] # NULL
  BY <1>1, <1>5, <1>6 DEF n
<1>11. QED
  BY <1>2, <1>6, <1>8, <1>9, <1>10

\* What is left of the index when a chain is taken out of the list: it is good,
\* and the chain is not in it, unless it is too short to be searched.
Short(index) == Len(index) \in 1..2 /\ index[Len(index)] = NULL

LEMMA KeptInOrder ==
  ASSUME NEW list \in ChainLists, NEW index \in ChainIndexes, InOrder(list, index),
         NEW name, NEW r, HasLess(r, list, name),
         \A k \in 1..Len(index) : index[k] # name
  PROVE  InOrder(r, index)
<1>1. /\ Len(list) \in Nat /\ Len(index) \in Nat /\ 1 \in 1..Len(index) /\ 1 \in 1..Len(list)
      /\ index[1] = list[1] /\ Len(r) = Len(list) - 1
  BY ListIs, IndexIs DEF InOrder, HasLess
<1>2. Len(list) > 1
  <2> SUFFICES ASSUME Len(list) = 1 PROVE FALSE
    BY <1>1
  <2>1. list[1] # name
    BY <1>1
  <2>2. \E j \in 1..Len(r) : r[j] = list[1]
    BY <1>1, <2>1 DEF HasLess
  <2>3. QED
    BY <1>1, <2>2
<1>3. r[1] = index[1]
  BY <1>1, <1>2 DEF HasLess
<1>4. \A k \in 1..Len(index) : index[k] # NULL => \E j \in 1..Len(r) : index[k] = r[j]
  BY DEF InOrder, HasLess
<1>5. QED
  BY <1>1, <1>2, <1>3, <1>4 DEF InOrder

\* The pointer k to chain i of the list moves to the next, which the following
\* pointer is above.
NextFits(list, index, i, r, k, next, moved) ==
  /\ list \in ChainLists /\ Ascending(list) /\ index \in ChainIndexes
  /\ InOrder(list, index) /\ i \in 1..Len(list) /\ i < Len(list)
  /\ HasLess(r, list, list[i]) /\ k \in 1..Len(index) /\ index[k] = list[i]
  /\ next = list[i + 1]
  /\ k = Len(index) \/ index[k + 1] = NULL \/ next < index[k + 1]
  /\ moved = [index EXCEPT ![k] = next]

LEMMA MovedInOrder ==
  ASSUME NEW list, NEW index, NEW i, NEW r, NEW k, NEW next, NEW moved,
         NextFits(list, index, i, r, k, next, moved)
  PROVE  /\ moved \in ChainIndexes /\ InOrder(r, moved) /\ Len(moved) = Len(index)
         /\ \A l \in 1..Len(index) : moved[l] # list[i] /\ (moved[l] = NULL => index[l] = NULL)
<1> DEFINE n == Len(list)
           m == Len(index)
           name == list[i]
<1> USE DEF NextFits
<1>1. /\ n \in Nat /\ \A j \in 1..n : list[j] \in Names /\ list[j] \in Nat /\ list[j] # NULL
      /\ \A j, l \in 1..n : j < l => list[j] < list[l]
  BY ListIs, PointersAre DEF Ascending
<1>2. /\ m \in Nat /\ DOMAIN index = 1..m
      /\ \A l \in 1..m : index[l] \in Pointers /\ index[l] \in Nat \cup {NULL}
  BY IndexIs
<1>3. i \in 1..n /\ i + 1 \in 1..n /\ name < next /\ next \in Names /\ next \in Nat
      /\ next # NULL /\ name \in Nat /\ name # NULL
  <2>1. i \in 1..n /\ i + 1 \in 1..n /\ i < i + 1
    BY <1>1
  <2>2. next = list[i + 1]
    OBVIOUS
  <2>3. list[i] < list[i + 1]
    BY <1>1, <2>1
  <2>4. list[i] \in Nat /\ list[i] # NULL
    BY <1>1, <2>1
  <2>5. list[i + 1] \in Names /\ list[i + 1] \in Nat /\ list[i + 1] # NULL
    BY <1>1, <2>1
  <2>6. QED
    BY ONLY <2>1, <2>2, <2>3, <2>4, <2>5
<1>4. /\ \A l \in 1..m : index[l] # NULL => \E j \in 1..n : index[l] = list[j]
      /\ \A l, o \in 1..m : l < o /\ index[l] # NULL /\ index[o] # NULL => index[l] < index[o]
      /\ \A l \in 1..m : index[l] = NULL => l = m /\ l > 2
      /\ m > 0 /\ index[1] = list[1]
  BY DEF InOrder
<1>5. \A l \in 1..m : moved[l] = IF l = k THEN next ELSE index[l]
  BY <1>2
<1>6. moved \in ChainIndexes /\ Len(moved) = m
  <2>1. moved = [l \in 1..m |-> moved[l]]
    <3>1. moved = [index EXCEPT ![k] = next] /\ index \in ChainIndexes
      OBVIOUS
    <3> HIDE DEF m
    <3>2. QED
      BY ONLY <1>2, <3>1 DEF ChainIndexes
  <2>2. \A l \in 1..m : moved[l] \in Pointers
    BY <1>2, <1>3, <1>5 DEF Pointers
  <2>3. QED
    BY <1>2, <2>1, <2>2, IsASeq DEF ChainIndexes
<1>7. index[k] = name /\ k \in 1..m /\ (k = m \/ index[k + 1] = NULL \/ next < index[k + 1])
  OBVIOUS
<1>8. Len(r) = n - 1 /\ r[1] = (IF list[1] = name THEN list[2] ELSE list[1])
      /\ \A j \in 1..n : list[j] # name => \E l \in 1..Len(r) : r[l] = list[j]
  BY <1>1, <1>3 DEF HasLess
<1> HIDE DEF n, m, name
<1>9. \A l \in 1..m : l # k => index[l] # name
  <2> SUFFICES ASSUME NEW l \in 1..m, l # k, index[l] = name PROVE FALSE
    OBVIOUS
  <2>1. l < k \/ k < l
    BY <1>2, <1>7
  <2>2. name < name
    BY <1>3, <1>4, <1>7, <2>1
  <2>3. QED
    BY <1>3, <2>2
<1>10. \A l \in 1..m : moved[l] # name /\ (moved[l] = NULL => index[l] = NULL)
  BY <1>3, <1>5, <1>9
<1>11. moved[1] = r[1]
  <2>1. CASE k = 1
    <3>1. list[1] = name
      BY <1>4, <1>7, <2>1
    <3>2. i = 1
      <4>1. 1 \in 1..n
        BY <1>1, <1>3
      <4>2. 1 < i => list[1] < name
        BY <1>1, <1>3, <4>1 DEF name
      <4>3. QED
        BY <1>3, <3>1, <4>2
    <3>3. r[1] = next
      BY <1>8, <3>1, <3>2
    <3>4. QED
      BY <1>5, <1>7, <2>1, <3>3
  <2>2. CASE k # 1
    <3>1. 1 \in 1..m /\ index[1] # name
      BY <1>2, <1>4, <1>9, <2>2
    <3>2. QED
      BY <1>4, <1>5, <1>8, <2>2, <3>1
  <2>3. QED
    BY <2>1, <2>2
<1>12. \A l \in 1..m : moved[l] # NULL => \E j \in 1..Len(r) : moved[l] = r[j]
  <2> SUFFICES ASSUME NEW l \in 1..m, moved[l] # NULL PROVE \E j \in 1..Len(r) : moved[l] = r[j]
    OBVIOUS
  <2>1. PICK j \in 1..n : moved[l] = list[j]
    BY <1>3, <1>4, <1>5
  <2>2. list[j] # name
    BY <1>10, <2>1
  <2>3. QED
    BY <1>8, <2>1, <2>2
<1>13. \A l, o \in 1..m : l < o /\ moved[l] # NULL /\ moved[o] # NULL => moved[l] < moved[o]
  <2> SUFFICES ASSUME NEW l \in 1..m, NEW o \in 1..m, l < o, moved[l] # NULL, moved[o] # NULL
               PROVE  moved[l] < moved[o]
    OBVIOUS
  <2>1. CASE l # k /\ o # k
    BY <1>4, <1>5, <2>1
  <2>2. CASE o = k
    <3>1. moved[l] = index[l] /\ moved[o] = next /\ index[l] < name /\ index[l] \in Nat
      BY <1>2, <1>3, <1>4, <1>5, <1>7, <2>2
    <3>2. QED
      BY <1>3, <3>1
  <2>3. CASE l = k
    <3>1. moved[l] = next /\ moved[o] = index[o] /\ index[o] # NULL /\ index[o] \in Nat
      BY <1>2, <1>5, <2>3
    <3>2. k + 1 \in 1..m /\ k # m /\ (o = k + 1 \/ k + 1 < o)
      BY <1>2, <1>7, <2>3
    <3>3. index[k + 1] # NULL /\ index[k + 1] \in Nat
      BY <1>2, <1>4, <3>1, <3>2
    <3>4. next < index[k + 1]
      BY <1>7, <3>2, <3>3
    <3>5. o = k + 1 \/ index[k + 1] < index[o]
      BY <1>4, <3>1, <3>2, <3>3
    <3>6. QED
      BY <1>3, <3>1, <3>3, <3>4, <3>5
  <2>4. QED
    BY <2>1, <2>2, <2>3
<1>14. \A l \in 1..m : moved[l] = NULL => l = m /\ l > 2
  BY <1>4, <1>10
<1>15. Len(r) > 0
  BY <1>1, <1>3, <1>8
<1>16. InOrder(r, moved)
  BY <1>4, <1>6, <1>11, <1>12, <1>13, <1>14, <1>15 DEF InOrder
<1>17. QED
  BY <1>6, <1>10, <1>16 DEF name, m

\* The invariant.
IndexInv ==
  /\ Index!TypeOK /\ Ascending(chains) /\ Good(chains, chain_index)
  /\ ~renamed => ~faulted /\ \A k \in 1..Len(chain_index) : chain_index[k] # NULL

LEMMA IndexTyped ==
  IndexInv => chains \in ChainLists /\ chain_index \in ChainIndexes
BY DEF IndexInv, Index!TypeOK, Index!HEAD, ChainLists, ChainIndexes, Pointers

\* A search for a name in the index ends at it, if it does not fail.
LEMMA NotHitNotIn ==
  ASSUME NEW index \in ChainIndexes, NEW list, InOrder(list, index),
         NEW name \in Nat, NEW k, Closest(name, index, k), index[k] # name
  PROVE  \A l \in 1..Len(index) : index[l] # name
<1>1. /\ Len(index) \in Nat /\ \A l \in 1..Len(index) : index[l] \in Nat \cup {NULL}
      /\ name # NULL
  BY IndexIs, PointersAre
<1>2. /\ \A l, o \in 1..Len(index) :
           l < o /\ index[l] # NULL /\ index[o] # NULL => index[l] < index[o]
      /\ \A l \in 1..Len(index) : index[l] = NULL => l = Len(index)
  BY DEF InOrder
<1>3. /\ k \in 1..Len(index) /\ index[k] # NULL
      /\ \/ k = 1 /\ name < index[k]
         \/ /\ index[k] < name
            /\ k = Len(index) \/ (index[k + 1] # NULL /\ name < index[k + 1])
  BY DEF Closest
<1>4. SUFFICES ASSUME NEW l \in 1..Len(index), index[l] = name PROVE FALSE
  OBVIOUS
<1>5. l # k /\ index[l] # NULL /\ index[l] \in Nat /\ index[k] \in Nat
  BY <1>1, <1>3, <1>4
<1>6. CASE l < k
  <2>1. index[l] < index[k] /\ k # 1
    BY <1>1, <1>2, <1>3, <1>5, <1>6
  <2>2. index[k] < name
    BY <1>3, <2>1
  <2>3. QED
    BY <1>4, <1>5, <2>1, <2>2
<1>7. CASE k < l
  <2>1. index[k] < index[l]
    BY <1>2, <1>3, <1>5, <1>7
  <2>2. k # Len(index) /\ k + 1 \in 1..Len(index) /\ (l = k + 1 \/ k + 1 < l)
    BY <1>1, <1>3, <1>7
  <2>3. index[k + 1] # NULL /\ name < index[k + 1] /\ index[k + 1] \in Nat
    BY <1>1, <1>3, <1>4, <1>5, <2>1, <2>2
  <2>4. l = k + 1 \/ index[k + 1] < index[l]
    BY <1>2, <1>5, <2>2, <2>3
  <2>5. QED
    BY <1>4, <1>5, <2>3, <2>4
<1>8. QED
  BY <1>1, <1>3, <1>5, <1>6, <1>7

\* What an index without the chain name of the list is, if its search succeeds.
TakenOut(r, index, name) ==
  /\ index \in ChainIndexes /\ Good(r, index)
  /\ Short(index) \/ \A l \in 1..Len(index) : index[l] # name

\* The search for chain i of the list ended at its pointer, k of the index, and
\* that for the next there too, or nowhere.
PointerMoves(list, index, i, r, k, next, s2, t) ==
  /\ list \in ChainLists /\ Ascending(list) /\ index \in ChainIndexes
  /\ InOrder(list, index) /\ i \in 1..Len(list) /\ HasLess(r, list, list[i])
  /\ k \in 1..Len(index) /\ index[k] = list[i]
  /\ next = IF i < Len(list) THEN list[i + 1] ELSE 0
  /\ Found(next, index, s2) /\ (s2.idx = k - 1 \/ s2.idx = -1)
  /\ t = [index EXCEPT ![k] = next]

\* The pointer to the chain moves to the next, which is in the same bucket, or
\* becomes one to the head of the list, which is empty.
LEMMA MovedPointer ==
  ASSUME NEW list, NEW index, NEW i, NEW r, NEW k, NEW next, NEW s2, NEW t,
         PointerMoves(list, index, i, r, k, next, s2, t)
  PROVE  /\ TakenOut(r, t, list[i])
         /\ (\A l \in 1..Len(index) : index[l] # NULL) => (\A l \in 1..Len(t) : t[l] # NULL)
<1> DEFINE n == Len(list)
           m == Len(index)
           name == list[i]
           moved == [index EXCEPT ![k] = next]
<1> SUFFICES /\ TakenOut(r, moved, name)
             /\ (\A l \in 1..m : index[l] # NULL) => (\A l \in 1..Len(moved) : moved[l] # NULL)
  BY DEF PointerMoves
<1> USE DEF PointerMoves
<1>1. /\ n \in Nat /\ \A j \in 1..n : list[j] \in Names /\ list[j] \in Nat /\ list[j] # 0
      /\ \A j, l \in 1..n : j < l => list[j] < list[l]
  BY ListIs DEF Ascending
<1>2. m \in Nat /\ \A l \in 1..m : index[l] \in Nat \cup {NULL}
  BY IndexIs
<1>3. i < n => i + 1 \in 1..n /\ i < i + 1 /\ next = list[i + 1] /\ name < next
  BY <1>1
<1>4. ~(i < n) => i = n /\ next = 0
  BY <1>1
<1>5. next \in Nat /\ name \in Nat /\ name # 0 /\ next # name /\ name # NULL
  BY <1>1, <1>3, <1>4, PointersAre
<1>6. /\ \A l \in 1..m : index[l] # NULL => \E j \in 1..n : index[l] = list[j]
      /\ \A l, o \in 1..m : l < o /\ index[l] # NULL /\ index[o] # NULL => index[l] < index[o]
      /\ \A l \in 1..m : index[l] = NULL => l = m /\ l > 2
      /\ m > 0 /\ n > 0 /\ index[1] = list[1]
  BY DEF InOrder
<1>7. ASSUME i < n, k = m \/ index[k + 1] = NULL \/ next < index[k + 1]
      PROVE  /\ TakenOut(r, moved, name)
             /\ (\A l \in 1..m : index[l] # NULL) => (\A l \in 1..Len(moved) : moved[l] # NULL)
  <2>1. /\ moved \in ChainIndexes /\ InOrder(r, moved) /\ Len(moved) = m
        /\ \A l \in 1..m : moved[l] # name /\ (moved[l] = NULL => index[l] = NULL)
    <3>1. NextFits(list, index, i, r, k, next, moved)
      BY <1>3, <1>7 DEF NextFits
    <3> HIDE DEF moved
    <3>2. QED
      BY <3>1, MovedInOrder
  <2> HIDE DEF moved
  <2>2. QED
    BY <2>1 DEF TakenOut, Good
<1>8. CASE s2 = Index!Fault
  <2>1. /\ m > 1 /\ index[m] = NULL /\ index[m - 1] # NULL /\ index[m - 1] < next
    <3>1. \A l \in Nat : Index!Stop(index[l], l - 1) # Index!Fault
      BY DEF Index!Stop, Index!Fault
    <3>2. \A l \in 1..m : Index!Stop(index[l], l - 1) # Index!Fault
      BY <3>1
    <3>3. QED
      BY <1>8, <3>2 DEF Found
  <2>2. m - 1 \in 1..m /\ k \in 1..m /\ k # m /\ (k < m - 1 \/ k = m - 1)
    BY <1>2, <1>5, <2>1
  <2>3. index[m - 1] \in Nat
    BY <1>2, <2>1, <2>2
  <2>4. i < n
    BY <1>4, <2>1, <2>3
  <2>5. k = m - 1
    <3> SUFFICES ASSUME k < m - 1 PROVE FALSE
      BY <2>2
    <3> DEFINE y == index[m - 1]
    <3>1. index[k] # NULL /\ y # NULL /\ m - 1 \in 1..m
      BY <1>5, <2>1, <2>2
    <3>2. name < y
      BY <1>6, <2>2, <3>1
    <3>3. PICK j \in 1..n : y = list[j]
      BY <1>6, <2>2, <3>1
    <3>4. y < next
      BY <2>1
    <3> HIDE DEF y, name
    <3>5. j <= i \/ i + 1 <= j
      BY <1>1
    <3>6. j = i \/ j < i \/ j = i + 1 \/ i + 1 < j
      BY <1>1, <3>5
    <3>7. list[j] \in Nat /\ (j < i => list[j] < name) /\ (i + 1 < j => next < list[j])
      BY <1>1, <1>3, <2>4 DEF name
    <3>8. (j = i => list[j] = name) /\ (j = i + 1 => list[j] = next)
      BY <1>3, <2>4 DEF name
    <3>9. QED
      BY <1>5, <3>2, <3>3, <3>4, <3>6, <3>7, <3>8
  <2>6. index[k + 1] = NULL
    BY <1>2, <2>1, <2>5
  <2>7. QED
    BY <1>7, <2>4, <2>6
<1>9. CASE s2 # Index!Fault
  <2>1. PICK l \in 1..m : Closest(next, index, l) /\ s2 = Index!Stop(index[l], l - 1)
    BY <1>9 DEF Found
  <2>2. s2.idx = l - 1
    BY <2>1 DEF Index!Stop
  <2>3. l = k
    BY <1>2, <2>2
  <2>4. \/ k = 1 /\ next < name
        \/ name < next /\ (k = m \/ (index[k + 1] # NULL /\ next < index[k + 1]))
    BY <1>5, <2>1, <2>3 DEF Closest
  <2>5. CASE name < next
    <3>1. i < n
      BY <1>4, <1>5, <2>5
    <3>2. QED
      BY <1>5, <1>7, <2>4, <2>5, <3>1
  <2>6. CASE k = 1 /\ next < name
    <3>1. i = n /\ next = 0
      BY <1>3, <1>4, <1>5, <2>6
    <3>2. n = 1
      <4>0. n \in Nat /\ n > 0
        BY <1>1, <1>6
      <4> SUFFICES ASSUME 1 < n PROVE FALSE
        <5> HIDE DEF n
        <5> QED
          BY <4>0
      <4>1. 1 \in 1..n /\ n \in 1..n
        BY <1>1, <1>6
      <4>2. list[1] < list[n] /\ list[1] = list[n] /\ list[1] \in Nat
        BY <1>1, <1>6, <2>6, <3>1, <4>1
      <4>3. QED
        BY <4>2
    <3>3. m = 1
      <4>0. m \in Nat /\ m > 0
        BY <1>2, <1>6
      <4> SUFFICES ASSUME m > 1 PROVE FALSE
        <5> HIDE DEF m
        <5> QED
          BY <4>0
      <4>1. 1 \in 1..m /\ 2 \in 1..m /\ index[2] # NULL /\ index[1] # NULL
        BY <1>2, <1>5, <1>6, <2>6
      <4>2. index[1] < index[2] /\ index[1] \in Nat
        BY <1>2, <1>6, <4>1
      <4>3. PICK j \in 1..n : index[2] = list[j]
        BY <1>6, <4>1
      <4>4. j = 1
        BY <3>2
      <4>5. QED
        BY <1>6, <4>2, <4>3, <4>4
    <3>4. moved = <<0>>
      <4>1. DOMAIN index = 1..1 /\ DOMAIN moved = 1..1
        BY <3>3, IndexIs
      <4>2. moved[1] = 0 /\ moved = [l1 \in 1..1 |-> moved[l1]]
        <5>1. moved[1] = next
          BY <2>6, <4>1
        <5>2. QED
          BY <3>1, <4>1, <5>1
      <4> HIDE DEF moved
      <4>3. moved = [l1 \in 1..1 |-> 0]
        BY <4>2
      <4>4. QED
        BY <4>3
    <3> HIDE DEF moved
    <3>5. moved \in ChainIndexes
      <4>1. 0 \in Pointers
        BY DEF Pointers
      <4>2. QED
        BY <3>4, <4>1 DEF ChainIndexes
    <3>6. \A l1 \in 1..Len(moved) : moved[l1] = 0
      BY <3>4
    <3>7. QED
      BY <1>5, <3>4, <3>5, <3>6, PointersAre DEF TakenOut, Good, moved, name
  <2>7. QED
    BY <2>4, <2>5, <2>6
<1>10. QED
  BY <1>8, <1>9

LEMMA IndexWithoutIs ==
  ASSUME IndexInv, NEW i \in 1..Len(chains),
         ~Index!Bsearch(chains[i], chain_index).fault,
         NEW num, num = Len(chains) - 1 \/ num = Len(chains),
         NEW w \in Index!IndexWithout(chains[i], num)
  PROVE  /\ TakenOut(Index!Without(chains, chains[i]), w.index, chains[i])
         /\ w.fault \in BOOLEAN
         /\ num = Len(chains) - 1 /\ (\A k \in 1..Len(chain_index) : chain_index[k] # NULL) =>
              ~w.fault /\ \A k \in 1..Len(w.index) : w.index[k] # NULL
<1> DEFINE name == chains[i]
           r == Index!Without(chains, name)
           s == Index!Bsearch(name, chain_index)
           next == IF i < Len(chains) THEN chains[i + 1] ELSE 0
           s2 == Index!Bsearch(next, chain_index)
           moved == [chain_index EXCEPT ![s.idx + 1] = next]
           rebuilt == Index!Rebuilt(r, num)
           Full(index) == \A k \in 1..Len(index) : index[k] # NULL
<1>1. /\ chains \in ChainLists /\ chain_index \in ChainIndexes
      /\ Ascending(chains) /\ Good(chains, chain_index)
  BY IndexTyped DEF IndexInv
<1>2. Len(chains) \in Nat /\ name \in Names /\ name \in Nat /\ name # 0
  BY <1>1, ListIs
<1>3. HasLess(r, chains, name)
  BY <1>1, WithoutHasLess
<1>4. next \in Nat
  <2>1. i < Len(chains) => i + 1 \in 1..Len(chains)
    BY <1>2
  <2>2. i < Len(chains) => chains[i + 1] \in Nat
    BY <1>1, <2>1, ListIs
  <2>3. QED
    BY <2>2
<1>5. (CHOOSE j \in DOMAIN chains : chains[j] = chains[i]) = i
  BY <1>1, PlaceIs
<1>6. \/ /\ s.fault \/ s.ptr # name
         /\ w = [index |-> chain_index, fault |-> s.fault]
      \/ /\ s.ptr = name
         /\ \/ /\ s2.idx = s.idx \/ s2.idx = -1
               /\ w = [index |-> moved, fault |-> s2.fault]
            \/ w = [index |-> rebuilt, fault |-> s2.fault]
  <2> DEFINE place == CHOOSE j \in DOMAIN chains : chains[j] = chains[i]
             other == IF place < Len(chains) THEN chains[place + 1] ELSE 0
             t2 == Index!Bsearch(other, chain_index)
             m2 == [chain_index EXCEPT ![s.idx + 1] = other]
  <2>1. Index!IndexWithout(chains[i], num) =
          IF s.fault \/ s.ptr # name THEN {[index |-> chain_index, fault |-> s.fault]}
          ELSE CASE t2.idx = s.idx -> {[index |-> m2, fault |-> t2.fault]}
                 [] t2.idx = -1    -> {[index |-> m2, fault |-> t2.fault],
                                       [index |-> rebuilt, fault |-> t2.fault]}
                 [] OTHER          -> {[index |-> rebuilt, fault |-> t2.fault]}
    BY DEF Index!IndexWithout, Index!HEAD
  <2>2. place = i
    BY <1>5
  <2> HIDE DEF place
  <2>3. other = next
    BY <2>2
  <2> HIDE DEF other, next
  <2>4. t2 = s2 /\ m2 = moved
    BY <2>3
  <2> HIDE DEF s, t2, m2, s2, moved, rebuilt, name
  <2>5. QED
    BY <2>1, <2>4
<1>7. ~s.fault
  OBVIOUS
<1>8. CASE s.ptr # name
  <2>1. w = [index |-> chain_index, fault |-> FALSE]
    <3>1. s.fault = FALSE
      <4>1. \/ s = Index!Stop(0, -1) \/ s = Index!Fault
            \/ \E k \in 1..Len(chain_index) : s = Index!Stop(chain_index[k], k - 1)
        BY <1>1, <1>2, SearchIn DEF Found
      <4>2. QED
        BY <1>7, <4>1 DEF Index!Stop, Index!Fault
    <3>2. QED
      BY <1>6, <1>8, <3>1
  <2> HIDE DEF name, r
  <2>2. CASE chain_index = <<>> \/ Short(chain_index) \/ chain_index = <<0>>
    <3>1. Good(r, chain_index)
      BY <2>2 DEF Good, Short
    <3>2. Short(chain_index) \/ \A l \in 1..Len(chain_index) : chain_index[l] # name
      BY <1>2, <2>2
    <3>3. TakenOut(r, chain_index, name)
      BY <1>1, <3>1, <3>2 DEF TakenOut
    <3>4. QED
      BY <2>1, <3>3 DEF name, r
  <2>3. CASE InOrder(chains, chain_index)
    <3>1. chain_index # <<>> /\ ~Short(chain_index)
      BY <2>3 DEF InOrder, Short
    <3>2. Found(name, chain_index, s)
      BY <1>1, <1>2, <3>1, SearchIn DEF Short
    <3>3. PICK k \in 1..Len(chain_index) :
            Closest(name, chain_index, k) /\ s = Index!Stop(chain_index[k], k - 1)
      BY <1>7, <3>2 DEF Found, Index!Fault
    <3>4. chain_index[k] # name
      BY <1>8, <3>3 DEF Index!Stop
    <3>5. \A l \in 1..Len(chain_index) : chain_index[l] # name
      BY <1>1, <1>2, <2>3, <3>3, <3>4, NotHitNotIn
    <3>6. InOrder(r, chain_index)
      BY <1>1, <1>3, <2>3, <3>5, KeptInOrder
    <3>7. TakenOut(r, chain_index, name)
      BY <1>1, <3>5, <3>6 DEF TakenOut, Good
    <3>8. QED
      BY <2>1, <3>7 DEF name, r
  <2>4. QED
    BY <1>1, <2>2, <2>3 DEF Good, Short
<1>9. CASE s.ptr = name
  <2>1. s # Index!Stop(0, -1) /\ s # Index!Stop(0, 0)
    BY <1>2, <1>9 DEF Index!Stop
  <2>2. InOrder(chains, chain_index) /\ Found(name, chain_index, s)
    BY <1>1, <1>2, <2>1, SearchIn
  <2>3. PICK k \in 1..Len(chain_index) :
          Closest(name, chain_index, k) /\ s = Index!Stop(chain_index[k], k - 1)
    BY <1>7, <2>2 DEF Found, Index!Fault
  <2>4. chain_index[k] = name /\ s.idx = k - 1 /\ s.idx + 1 = k
    <3>1. Len(chain_index) \in Nat
      BY <1>1, IndexIs
    <3>2. k \in Int
      BY <3>1
    <3>3. s.ptr = chain_index[k] /\ s.idx = k - 1
      BY <2>3 DEF Index!Stop
    <3>4. QED
      BY <1>9, <3>2, <3>3
  <2>5. Found(next, chain_index, s2)
    <3>1. chain_index # <<>> /\ ~Short(chain_index)
      BY <2>2 DEF InOrder, Short
    <3>2. QED
      BY <1>1, <1>4, <3>1, SearchIn DEF Short
  <2>6. s2.fault \in BOOLEAN /\ (Full(chain_index) => ~s2.fault)
    <3>1. Len(chain_index) \in Nat
      BY <1>1, IndexIs
    <3>2. Len(chain_index) > 1 => Len(chain_index) \in 1..Len(chain_index)
      BY <3>1
    <3> HIDE DEF s2, next
    <3>3. CASE s2 = Index!Fault
      <4>1. \A l \in 1..Len(chain_index) : Index!Stop(chain_index[l], l - 1) # Index!Fault
        BY DEF Index!Stop, Index!Fault
      <4>2. Len(chain_index) > 1 /\ chain_index[Len(chain_index)] = NULL
        BY <2>5, <3>3, <4>1 DEF Found
      <4>3. QED
        BY <3>2, <3>3, <4>2 DEF Index!Fault
    <3>4. CASE s2 # Index!Fault
      <4>1. PICK l \in 1..Len(chain_index) : s2 = Index!Stop(chain_index[l], l - 1)
        BY <2>5, <3>4 DEF Found
      <4>2. s2.fault = FALSE
        BY <4>1 DEF Index!Stop
      <4>3. QED
        BY <4>2
    <3>5. QED
      BY <3>3, <3>4
  <2>7. CASE (s2.idx = s.idx \/ s2.idx = -1) /\ w = [index |-> moved, fault |-> s2.fault]
    <3> DEFINE t == [chain_index EXCEPT ![k] = next]
    <3>1. s2.idx = k - 1 \/ s2.idx = -1
      BY <2>4, <2>7
    <3>2. next = IF i < Len(chains) THEN chains[i + 1] ELSE 0
      OBVIOUS
    <3>3. chain_index[k] = chains[i] /\ HasLess(r, chains, chains[i])
      BY <1>3, <2>4
    <3> HIDE DEF s2, next, r
    <3> HIDE DEF t, moved, s, rebuilt
    <3>4. /\ TakenOut(r, t, chains[i])
          /\ Full(chain_index) => Full(t)
      <4>1. PointerMoves(chains, chain_index, i, r, k, next, s2, t)
        BY <1>1, <2>2, <2>5, <3>1, <3>2, <3>3 DEF t, PointerMoves
      <4>2. QED
        BY <4>1, MovedPointer
    <3>5. t = moved
      BY <2>4 DEF t, moved
    <3>6. w.index = t /\ w.fault = s2.fault
      BY <2>7, <3>5
    <3> HIDE DEF t, moved, s
    <3>7. QED
      BY <2>6, <3>4, <3>6 DEF r
  <2>8. CASE w = [index |-> rebuilt, fault |-> s2.fault]
    <3> HIDE DEF s2, next, r
    <3>1. r \in ChainLists /\ Ascending(r) /\ Len(r) = Len(chains) - 1
      BY <1>3 DEF HasLess
    <3>2. num = Len(r) \/ num = Len(r) + 1
      BY <1>2, <3>1
    <3>3. /\ rebuilt \in ChainIndexes /\ Good(r, rebuilt)
          /\ \A l \in 1..Len(rebuilt) :
               rebuilt[l] # NULL => \E j \in 1..Len(r) : rebuilt[l] = r[j]
          /\ num = Len(r) => Full(rebuilt)
      BY <3>1, <3>2, RebuiltIsGood
    <3>4. \A l \in 1..Len(rebuilt) : rebuilt[l] # name
      <4>1. \A j \in 1..Len(r) : r[j] # name
        BY <1>3 DEF HasLess
      <4>2. name # NULL
        BY <1>2, PointersAre
      <4> HIDE DEF rebuilt, name
      <4>3. QED
        BY <3>3, <4>1, <4>2
    <3> HIDE DEF rebuilt
    <3>5. TakenOut(r, rebuilt, chains[i])
      BY <3>3, <3>4 DEF TakenOut
    <3>6. QED
      BY <2>6, <2>8, <3>1, <3>3, <3>5 DEF r
  <2>9. QED
    BY <1>6, <1>7, <1>9, <2>7, <2>8
<1>10. QED
  BY <1>8, <1>9

\* An index stays good when a name that is not in front is added to the list.
LEMMA GrownInOrder ==
  ASSUME NEW list \in ChainLists, NEW index \in ChainIndexes, InOrder(list, index),
         NEW name \in Names, NEW r, HasMore(r, list, name), index[1] < name
  PROVE  InOrder(r, index)
<1>1. r[1] = index[1]
  BY DEF InOrder, HasMore
<1>2. Len(list) \in Nat /\ Len(r) = Len(list) + 1
  BY ListIs DEF HasMore
<1>3. \A k \in 1..Len(index) : index[k] # NULL => \E j \in 1..Len(r) : index[k] = r[j]
  BY DEF InOrder, HasMore
<1>4. Len(r) > 0
  BY <1>2
<1>5. QED
  BY <1>1, <1>3, <1>4 DEF InOrder

\* A name in front becomes the one that the first pointer points to.
GoesFirst(list, index, name, r, t) ==
  /\ list \in ChainLists /\ index \in ChainIndexes /\ InOrder(list, index)
  /\ name \in Names /\ HasMore(r, list, name) /\ name < index[1]
  /\ t = [index EXCEPT ![1] = name]

LEMMA FirstInOrder ==
  ASSUME NEW list, NEW index, NEW name, NEW r, NEW t, GoesFirst(list, index, name, r, t)
  PROVE  /\ t \in ChainIndexes /\ InOrder(r, t)
         /\ \A k \in 1..Len(t) : t[k] = NULL => k \in 1..Len(index) /\ index[k] = NULL
<1> USE DEF GoesFirst
<1> DEFINE m == Len(index)
<1>1. /\ m \in Nat /\ DOMAIN index = 1..m
      /\ \A k \in 1..m : index[k] \in Pointers /\ index[k] \in Nat \cup {NULL}
  BY IndexIs
<1>2. m > 0 /\ Len(list) \in Nat /\ Len(list) > 0 /\ index[1] = list[1] /\ list[1] \in Nat
  <2>1. m > 0 /\ Len(list) \in Nat /\ Len(list) > 0 /\ index[1] = list[1]
    BY ListIs DEF InOrder
  <2>2. 1 \in 1..Len(list)
    BY <2>1
  <2>3. QED
    BY <2>1, <2>2, ListIs
<1>3. 1 \in 1..m /\ name \in Nat /\ name # NULL
  BY <1>1, <1>2, PointersAre
<1>4. \A k \in 1..m : t[k] = IF k = 1 THEN name ELSE index[k]
  BY <1>1
<1>5. t \in ChainIndexes /\ Len(t) = m
  <2>1. t = [k \in 1..m |-> t[k]]
    BY <1>1
  <2>2. \A k \in 1..m : t[k] \in Pointers
    BY <1>1, <1>4 DEF Pointers
  <2>3. m \in Nat
    BY <1>1
  <2> HIDE DEF m
  <2>4. QED
    BY ONLY <2>1, <2>2, <2>3, IsASeq DEF ChainIndexes
<1>6. /\ \A k \in 1..m : index[k] # NULL => \E i \in 1..Len(list) : index[k] = list[i]
      /\ \A k, l \in 1..m :
           k < l /\ index[k] # NULL /\ index[l] # NULL => index[k] < index[l]
      /\ \A k \in 1..m : index[k] = NULL => k = m /\ k > 2
  BY DEF InOrder
<1>7. r[1] = name /\ Len(r) > 0
  BY <1>2, <1>3 DEF HasMore
<1>8. \A k \in 1..m : t[k] # NULL => \E j \in 1..Len(r) : t[k] = r[j]
  BY <1>4, <1>6 DEF HasMore
<1> HIDE DEF m
<1>9. \A k, l \in 1..m : k < l /\ t[k] # NULL /\ t[l] # NULL => t[k] < t[l]
  <2> SUFFICES ASSUME NEW k \in 1..m, NEW l \in 1..m, k < l, t[k] # NULL, t[l] # NULL
               PROVE  t[k] < t[l]
    OBVIOUS
  <2>1. l # 1 /\ t[l] = index[l] /\ index[l] \in Nat /\ 1 < l
    BY <1>1, <1>4
  <2>2. index[1] < index[l]
    BY <1>2, <1>3, <1>6, <2>1, PointersAre
  <2>3. CASE k = 1
    <3>1. t[k] = name
      BY <1>4, <2>3
    <3>2. QED
      BY <1>2, <1>3, <2>1, <2>2, <3>1
  <2>4. CASE k # 1
    BY <1>4, <1>6, <2>1, <2>4
  <2>5. QED
    BY <2>3, <2>4
<1>10. \A k \in 1..m : t[k] = NULL => index[k] = NULL
  BY <1>3, <1>4
<1>11. InOrder(r, t)
  BY <1>2, <1>3, <1>4, <1>5, <1>6, <1>7, <1>8, <1>9, <1>10 DEF InOrder
<1>12. QED
  BY <1>5, <1>10, <1>11 DEF m

\* iptc_insert_chain keeps the list sorted and the index good.
LEMMA InsertKeeps ==
  ASSUME NEW list \in ChainLists, Ascending(list), NEW index \in ChainIndexes,
         Good(list, index), NEW name \in Names, \A i \in 1..Len(list) : list[i] # name,
         NEW w, w = Index!Insert(list, index, name)
  PROVE  /\ HasMore(w.list, list, name) /\ w.index \in ChainIndexes /\ Good(w.list, w.index)
         /\ w.fault = Index!Bsearch(name, index).fault
         /\ (\A k \in 1..Len(index) : index[k] # NULL) =>
              (\A k \in 1..Len(w.index) : w.index[k] # NULL)
<1> DEFINE s == Index!Bsearch(name, index)
           first == s.idx = 0 /\ name <= index[1]
           behind == IF s.ptr \in Index!Range(list)
                     THEN CHOOSE i \in DOMAIN list : list[i] = s.ptr ELSE 1
           start == IF first THEN 1 ELSE behind
           r == Index!Inserted(list, name, start)
           t == IF first THEN [index EXCEPT ![1] = name] ELSE index
<1>1. w = [list |-> r, index |-> t, fault |-> s.fault]
  <2> DEFINE begin == IF ~first /\ s.ptr \in Index!Range(list)
                      THEN CHOOSE i \in DOMAIN list : list[i] = s.ptr ELSE 1
  <2>1. w = [list |-> Index!Inserted(list, name, begin), index |-> t, fault |-> s.fault]
    BY DEF Index!Insert
  <2>2. begin = start
    <3> HIDE DEF s, first
    <3> QED
      OBVIOUS
  <2> HIDE DEF s, first, begin, start
  <2>3. QED
    BY <2>1, <2>2
<1>2. StartsLow(list, name, behind)
  BY StartIs
<1>3. StartsLow(list, name, start)
  <2>1. StartsLow(list, name, 1)
    BY DEF StartsLow
  <2> HIDE DEF first, behind
  <2>2. QED
    BY <1>2, <2>1
<1>4. HasMore(r, list, name)
  <2> HIDE DEF start
  <2> QED
    BY <1>3, InsertedHasMore
<1>5. name \in Nat /\ name > 0 /\ name # 0
  BY PointersAre
<1> HIDE DEF start, r, behind
<1>6. CASE index = <<>> \/ Short(index) \/ index = <<0>>
  <2>1. s = Index!Stop(0, -1) \/ (s = Index!Stop(0, 0) /\ index = <<0>>)
    BY <1>5, <1>6, SearchIn DEF InOrder, Short
  <2>2. s.idx = -1 \/ (s.idx = 0 /\ index[1] = 0)
    BY <2>1 DEF Index!Stop
  <2>3. ~first
    <3> HIDE DEF s
    <3> QED
      BY <1>5, <2>2
  <2> HIDE DEF first, s
  <2>4. t = index
    BY <2>3
  <2>5. Good(r, index)
    BY <1>6 DEF Good, Short
  <2> HIDE DEF t
  <2>6. QED
    BY <1>1, <1>4, <2>4, <2>5 DEF s
<1>7. CASE InOrder(list, index)
  <2>1. Found(name, index, s)
    <3>1. index # <<>> /\ ~Short(index)
      BY <1>7 DEF InOrder, Short
    <3>2. QED
      BY <1>5, <3>1, SearchIn DEF Short
  <2>2. /\ Len(index) \in Nat /\ 1 \in 1..Len(index) /\ Len(list) \in Nat /\ 1 \in 1..Len(list)
        /\ index[1] = list[1] /\ index[1] \in Nat /\ index[1] # name /\ index[1] # NULL
    <3>1. /\ Len(index) \in Nat /\ 1 \in 1..Len(index) /\ Len(list) \in Nat
          /\ 1 \in 1..Len(list) /\ index[1] = list[1]
      BY <1>7, IndexIs, ListIs DEF InOrder
    <3>2. list[1] \in Nat /\ list[1] # name
      BY <3>1, ListIs
    <3>3. QED
      BY <3>1, <3>2, PointersAre
  <2>3. CASE first
    <3>1. name < index[1]
      <4>1. name <= index[1]
        BY <2>3
      <4>2. QED
        BY <1>5, <2>2, <4>1
    <3> HIDE DEF first, s
    <3>2. t = [index EXCEPT ![1] = name]
      BY <2>3
    <3> HIDE DEF t
    <3>3. /\ t \in ChainIndexes /\ InOrder(r, t)
          /\ \A k \in 1..Len(t) : t[k] = NULL => k \in 1..Len(index) /\ index[k] = NULL
      <4>1. GoesFirst(list, index, name, r, t)
        BY <1>4, <1>7, <3>1, <3>2 DEF GoesFirst
      <4>2. QED
        BY ONLY <4>1, FirstInOrder
    <3>4. QED
      BY <1>1, <1>4, <3>3 DEF s, Good
  <2>4. CASE ~first
    <3>1. index[1] < name
      <4>1. CASE s = Index!Fault
        <5>1. \A l \in 1..Len(index) : Index!Stop(index[l], l - 1) # Index!Fault
          BY DEF Index!Stop, Index!Fault
        <5> DEFINE y == index[Len(index) - 1]
        <5>2. Len(index) > 1 /\ y # NULL /\ y < name
          <6>1. ~\E l \in 1..Len(index) :
                   Closest(name, index, l) /\ s = Index!Stop(index[l], l - 1)
            BY ONLY <4>1, <5>1
          <6>2. QED
            BY ONLY <2>1, <6>1, Zenon DEF Found
        <5>3. Len(index) - 1 \in 1..Len(index) /\ (Len(index) - 1 = 1 \/ 1 < Len(index) - 1)
          <6> DEFINE n == Len(index)
          <6>1. n \in Nat /\ n > 1
            BY <2>2, <5>2
          <6> HIDE DEF n
          <6>2. n - 1 \in 1..n /\ (n - 1 = 1 \/ 1 < n - 1)
            BY ONLY <6>1
          <6>3. QED
            BY <6>2 DEF n
        <5>4. y \in Nat /\ (y = index[1] \/ index[1] < y)
          <6>1. y \in Nat
            BY <5>2, <5>3, IndexIs
          <6>2. 1 < Len(index) - 1 => index[1] < y
            BY <1>7, <2>2, <5>2, <5>3 DEF InOrder
          <6>3. QED
            BY <5>3, <6>1, <6>2
        <5> HIDE DEF y
        <5>5. QED
          BY <1>5, <2>2, <5>2, <5>4
      <4>2. CASE s # Index!Fault
        <5>1. PICK k \in 1..Len(index) :
                Closest(name, index, k) /\ s = Index!Stop(index[k], k - 1)
          BY <2>1, <4>2 DEF Found
        <5>2. s.idx = k - 1 /\ index[k] # NULL /\ index[k] \in Nat
          BY <5>1, IndexIs DEF Index!Stop, Closest
        <5>3. index[k] # name
          BY <1>7, <5>2 DEF InOrder
        <5>4. ~(k = 1 /\ name < index[k])
          <6> SUFFICES ASSUME k = 1, name < index[1] PROVE FALSE
            OBVIOUS
          <6>1. s.idx = 0
            BY <5>2
          <6>2. name <= index[1]
            BY <1>5, <2>2
          <6>3. QED
            BY <2>4, <6>1, <6>2
        <5>5. index[k] < name
          BY <5>1, <5>3, <5>4 DEF Closest
        <5>6. k = 1 \/ index[1] < index[k]
          <6>1. k = 1 \/ 1 < k
            BY <2>2
          <6>2. QED
            BY <1>7, <2>2, <5>2, <6>1 DEF InOrder
        <5> HIDE DEF s
        <5>7. QED
          BY <1>5, <2>2, <5>2, <5>5, <5>6
      <4>3. QED
        BY <4>1, <4>2
    <3> HIDE DEF first, s
    <3>2. t = index
      BY <2>4
    <3>3. InOrder(r, index)
      BY <1>4, <1>7, <3>1, GrownInOrder
    <3> HIDE DEF t
    <3>4. QED
      BY <1>1, <1>4, <3>2, <3>3 DEF s, Good
  <2>5. QED
    BY <2>3, <2>4
<1>8. QED
  BY <1>6, <1>7 DEF Good, Short

\* A chain is found if and only if it is in the list.
LEMMA FindLabelIs ==
  ASSUME IndexInv, NEW name \in Names
  PROVE  Index!FindLabel(name) <=> \E i \in 1..Len(chains) : chains[i] = name
<1> DEFINE ptr == Index!Bsearch(name, chain_index).ptr
           start == IF ptr \in Index!Range(chains)
                    THEN CHOOSE i \in DOMAIN chains : chains[i] = ptr ELSE 1
<1>1. /\ chains \in ChainLists /\ chain_index \in ChainIndexes
      /\ Ascending(chains) /\ Good(chains, chain_index)
  BY IndexTyped DEF IndexInv
<1>2. StartsLow(chains, name, start)
  BY <1>1, StartIs
<1>3. Index!StartAt(ptr) = start
  BY DEF Index!StartAt
<1>4. Index!FindLabel(name) <=>
        \E i \in start..Len(chains) : chains[i] = name /\ \A j \in start..i - 1 : chains[j] < name
  <2> HIDE DEF start
  <2> QED
    BY <1>3 DEF Index!FindLabel
<1>5. /\ Len(chains) \in Nat /\ \A i \in 1..Len(chains) : chains[i] \in Nat
      /\ \A i, j \in 1..Len(chains) : i < j => chains[i] < chains[j]
  BY <1>1, ListIs DEF Ascending
<1> HIDE DEF start
<1>6. start \in Nat /\ start > 0 /\ (start # 1 => start \in 1..Len(chains) /\ chains[start] <= name)
  BY <1>2, <1>5 DEF StartsLow
<1>7. \A i \in start..Len(chains) : i \in 1..Len(chains)
  BY <1>6
<1>8. ASSUME NEW i \in 1..Len(chains), chains[i] = name
      PROVE  i \in start..Len(chains) /\ \A j \in start..i - 1 : chains[j] < name
  <2>1. ~(i < start)
    <3> SUFFICES ASSUME i < start PROVE FALSE
      OBVIOUS
    <3>1. start \in 1..Len(chains) /\ chains[start] <= name
      BY <1>6
    <3>2. chains[i] < chains[start]
      BY <1>5, <3>1
    <3>3. QED
      BY <1>5, <1>8, <3>1, <3>2
  <2>2. i \in start..Len(chains)
    BY <1>6, <2>1
  <2>3. \A j \in start..i - 1 : j \in 1..Len(chains) /\ j < i
    BY <1>5, <1>6
  <2>4. QED
    BY <1>5, <1>8, <2>2, <2>3
<1>9. QED
  BY <1>4, <1>7, <1>8

\* Without a NULL no search fails.
LEMMA FullNeverFails ==
  ASSUME IndexInv, \A k \in 1..Len(chain_index) : chain_index[k] # NULL, NEW name \in Nat
  PROVE  ~Index!Bsearch(name, chain_index).fault
<1> DEFINE s == Index!Bsearch(name, chain_index)
<1>1. s = Index!Stop(0, -1) \/ Found(name, chain_index, s)
  BY IndexTyped, SearchIn DEF IndexInv
<1>2. s # Index!Fault
  <2> SUFFICES ASSUME s = Index!Fault PROVE FALSE
    OBVIOUS
  <2>1. \A l \in 1..Len(chain_index) : Index!Stop(chain_index[l], l - 1) # Index!Fault
    BY DEF Index!Stop, Index!Fault
  <2>2. Index!Stop(0, -1) # Index!Fault
    BY DEF Index!Stop, Index!Fault
  <2> HIDE DEF s
  <2>3. Len(chain_index) > 1 /\ chain_index[Len(chain_index)] = NULL
    BY <1>1, <2>1, <2>2 DEF Found
  <2>4. Len(chain_index) \in Nat
    BY IndexTyped, IndexIs
  <2>5. QED
    BY <2>3, <2>4
<1>3. s = Index!Stop(0, -1) \/ \E l \in 1..Len(chain_index) : s = Index!Stop(chain_index[l], l - 1)
  <2> HIDE DEF s
  <2> QED
    BY <1>1, <1>2 DEF Found
<1>4. s.fault = FALSE
  <2> HIDE DEF s
  <2> QED
    BY <1>3 DEF Index!Stop
<1>5. QED
  BY <1>4

LEMMA IndexInit == Index!Init => IndexInv
<1> SUFFICES ASSUME Index!Init PROVE IndexInv
  OBVIOUS
<1>1. chains = <<>> /\ chain_index = <<>> /\ renamed = FALSE /\ faulted = FALSE
  BY DEF Index!Init
<1>2. Len(chains) = 0 /\ Len(chain_index) = 0
  BY <1>1
<1>3. chains \in Seq(Names) /\ chain_index \in Seq(Names \cup {0, NULL})
  BY <1>1
<1>4. Index!TypeOK
  BY <1>1, <1>3 DEF Index!TypeOK, Index!HEAD
<1>5. Ascending(chains) /\ Good(chains, chain_index)
  BY <1>1, <1>2 DEF Ascending, Good
<1>6. \A k \in 1..Len(chain_index) : chain_index[k] # NULL
  BY <1>2
<1>7. QED
  BY <1>1, <1>4, <1>5, <1>6 DEF IndexInv

\* The invariant of the next state.
LEMMA IndexInvPrime ==
  ASSUME chains' \in ChainLists, chain_index' \in ChainIndexes, Ascending(chains'),
         Good(chains', chain_index'), renamed' \in BOOLEAN, faulted' \in BOOLEAN,
         ~renamed' => ~faulted' /\ \A k \in 1..Len(chain_index') : chain_index'[k] # NULL
  PROVE  IndexInv'
BY DEF IndexInv, Index!TypeOK, Index!HEAD, ChainLists, ChainIndexes, Pointers, Ascending,
   Good, InOrder

LEMMA CreateChainKeeps ==
  ASSUME IndexInv, NEW name \in Names, Index!CreateChain(name)
  PROVE  IndexInv'
<1> DEFINE w == Index!Insert(chains, chain_index, name)
           num == Len(chains) + 1
<1>1. /\ chains \in ChainLists /\ chain_index \in ChainIndexes
      /\ Ascending(chains) /\ Good(chains, chain_index)
      /\ renamed \in BOOLEAN /\ faulted \in BOOLEAN
      /\ ~renamed => ~faulted /\ \A k \in 1..Len(chain_index) : chain_index[k] # NULL
  BY IndexTyped DEF IndexInv, Index!TypeOK
<1>2. \A i \in 1..Len(chains) : chains[i] # name
  BY FindLabelIs DEF Index!CreateChain
<1>3. /\ HasMore(w.list, chains, name) /\ w.index \in ChainIndexes /\ Good(w.list, w.index)
      /\ (\A k \in 1..Len(chain_index) : chain_index[k] # NULL) =>
              (\A k \in 1..Len(w.index) : w.index[k] # NULL)
  BY <1>1, <1>2, InsertKeeps
<1>4. /\ chains' = w.list
      /\ chain_index' = w.index \/ chain_index' = Index!Rebuilt(w.list, num)
      /\ renamed' = renamed /\ faulted' = faulted
  BY DEF Index!CreateChain
<1> HIDE DEF w
<1>5. w.list \in ChainLists /\ Ascending(w.list) /\ num = Len(w.list)
  BY <1>3 DEF HasMore
<1> HIDE DEF num
<1>6. /\ Index!Rebuilt(w.list, num) \in ChainIndexes /\ Good(w.list, Index!Rebuilt(w.list, num))
      /\ \A k \in 1..Len(Index!Rebuilt(w.list, num)) : Index!Rebuilt(w.list, num)[k] # NULL
  BY <1>5, RebuiltIsGood
<1>7. /\ chain_index' \in ChainIndexes /\ Good(w.list, chain_index')
      /\ ~renamed => \A k \in 1..Len(chain_index') : chain_index'[k] # NULL
  BY <1>1, <1>3, <1>4, <1>6
<1>8. QED
  BY <1>1, <1>4, <1>5, <1>7, IndexInvPrime

LEMMA DeleteChainKeeps ==
  ASSUME IndexInv, NEW name \in Names, Index!DeleteChain(name)
  PROVE  IndexInv'
<1>1. /\ chains \in ChainLists /\ chain_index \in ChainIndexes
      /\ Ascending(chains) /\ Good(chains, chain_index)
      /\ renamed \in BOOLEAN /\ faulted \in BOOLEAN
      /\ ~renamed => ~faulted /\ \A k \in 1..Len(chain_index) : chain_index[k] # NULL
  BY IndexTyped DEF IndexInv, Index!TypeOK
<1>2. PICK i \in 1..Len(chains) : chains[i] = name
  BY FindLabelIs DEF Index!DeleteChain
<1>3. PICK w \in Index!IndexWithout(name, Len(chains) - 1) :
        chain_index' = w.index /\ faulted' = (w.fault \/ name \in Index!Range(w.index))
  BY DEF Index!DeleteChain
<1>4. chains' = Index!Without(chains, name) /\ renamed' = renamed
      /\ ~Index!Bsearch(name, chain_index).fault
  BY DEF Index!DeleteChain
<1>5. HasLess(Index!Without(chains, name), chains, name)
  BY <1>1, <1>2, WithoutHasLess
<1>6. /\ TakenOut(Index!Without(chains, name), w.index, name) /\ w.fault \in BOOLEAN
      /\ (\A k \in 1..Len(chain_index) : chain_index[k] # NULL) =>
           ~w.fault /\ \A k \in 1..Len(w.index) : w.index[k] # NULL
  BY <1>2, <1>3, <1>4, IndexWithoutIs
<1>7. ASSUME ~renamed PROVE ~faulted' /\ \A k \in 1..Len(chain_index') : chain_index'[k] # NULL
  <2>1. ~w.fault /\ \A k \in 1..Len(w.index) : w.index[k] # NULL
    BY <1>1, <1>6, <1>7
  <2>2. w.index \in ChainIndexes
    BY <1>6 DEF TakenOut
  <2>3. ~Short(w.index)
    <3>1. \A n \in 1..2 : n \in 1..n
      OBVIOUS
    <3>2. QED
      BY <2>1, <3>1 DEF Short
  <2>4. name \notin Index!Range(w.index)
    BY <1>6, <2>2, <2>3, IndexIs DEF TakenOut
  <2>5. QED
    BY <1>3, <2>1, <2>4
<1>8. faulted' \in BOOLEAN
  BY <1>3
<1>9. QED
  BY <1>1, <1>3, <1>4, <1>5, <1>6, <1>7, <1>8, IndexInvPrime DEF HasLess, TakenOut

LEMMA RenameChainKeeps ==
  ASSUME IndexInv, NEW old \in Names, NEW new \in Names, Index!RenameChain(old, new)
  PROVE  IndexInv'
<1> DEFINE r == Index!Without(chains, old)
<1>1. /\ chains \in ChainLists /\ chain_index \in ChainIndexes
      /\ Ascending(chains) /\ Good(chains, chain_index)
  BY IndexTyped DEF IndexInv, Index!TypeOK
<1>2. PICK i \in 1..Len(chains) : chains[i] = old
  BY FindLabelIs DEF Index!RenameChain
<1>3. \A j \in 1..Len(chains) : chains[j] # new
  BY FindLabelIs DEF Index!RenameChain
<1>4. ~Index!Bsearch(old, chain_index).fault /\ renamed' = TRUE
  BY DEF Index!RenameChain
<1>5. PICK w \in Index!IndexWithout(old, Len(chains)) :
        LET kept  == [k \in DOMAIN w.index |-> IF w.index[k] = old THEN new ELSE w.index[k]]
            moved == Index!Insert(r, kept, new)
        IN /\ chains' = moved.list /\ chain_index' = moved.index
           /\ faulted' = (w.fault \/ moved.fault)
  BY DEF Index!RenameChain
<1> DEFINE kept == [k \in DOMAIN w.index |-> IF w.index[k] = old THEN new ELSE w.index[k]]
           moved == Index!Insert(r, kept, new)
<1>6. HasLess(r, chains, old)
  BY <1>1, <1>2, WithoutHasLess
<1>7. TakenOut(r, w.index, old)
  BY <1>2, <1>4, <1>5, IndexWithoutIs
<1> HIDE DEF r
<1>8. kept \in ChainIndexes /\ Good(r, kept)
  <2>1. /\ w.index \in ChainIndexes /\ Len(w.index) \in Nat /\ DOMAIN w.index = 1..Len(w.index)
        /\ \A k \in 1..Len(w.index) : w.index[k] \in Pointers
    BY <1>7, IndexIs DEF TakenOut
  <2> DEFINE m == Len(w.index)
  <2>2. \A k \in 1..m : /\ kept[k] = IF w.index[k] = old THEN new ELSE w.index[k]
                        /\ kept[k] \in Pointers
    BY <2>1 DEF Pointers
  <2>3. kept = [k \in 1..m |-> kept[k]]
    BY <2>1
  <2> HIDE DEF kept
  <2>4. m \in Nat
    BY <2>1
  <2> HIDE DEF m
  <2>5. kept \in ChainIndexes
    BY ONLY <2>2, <2>3, <2>4, IsASeq DEF ChainIndexes
  <2>6. Len(kept) = m
    BY <2>3, <2>4
  <2>7. CASE Short(w.index)
    <3>1. m \in 1..2 /\ w.index[m] = NULL
      BY <2>7 DEF Short, m
    <3>2. kept[m] = NULL
      BY <2>2, <3>1, PointersAre
    <3>3. QED
      BY <2>5, <2>6, <3>1, <3>2 DEF Good
  <2>8. CASE \A k \in 1..m : w.index[k] # old
    <3>1. \A k \in 1..m : kept[k] = w.index[k]
      BY <2>2, <2>8
    <3>2. w.index = [k \in 1..m |-> w.index[k]]
      BY <2>1, LenProperties DEF ChainIndexes, m
    <3>3. kept = w.index
      BY <2>3, <3>1, <3>2
    <3>4. QED
      BY <1>7, <2>5, <3>3 DEF TakenOut
  <2>9. QED
    BY <1>7, <2>7, <2>8 DEF TakenOut, m
<1>9. r \in ChainLists /\ Ascending(r) /\ \A j \in 1..Len(r) : r[j] # new
  BY <1>3, <1>6 DEF HasLess
<1> HIDE DEF kept
<1>10. HasMore(moved.list, r, new) /\ moved.index \in ChainIndexes /\ Good(moved.list, moved.index)
  BY <1>8, <1>9, InsertKeeps
<1>11. /\ chains' = moved.list /\ chain_index' = moved.index
       /\ faulted' = (w.fault \/ moved.fault)
  BY <1>5 DEF kept
<1> HIDE DEF moved
<1>12. QED
  BY <1>4, <1>10, <1>11, IndexInvPrime DEF HasMore

LEMMA IndexStep == IndexInv /\ [Index!Next]_indexVars => IndexInv'
<1> SUFFICES ASSUME IndexInv, [Index!Next]_indexVars PROVE IndexInv'
  OBVIOUS
<1>1. /\ chains \in ChainLists /\ chain_index \in ChainIndexes
      /\ Ascending(chains) /\ Good(chains, chain_index)
      /\ renamed \in BOOLEAN /\ faulted \in BOOLEAN
      /\ ~renamed => ~faulted /\ \A k \in 1..Len(chain_index) : chain_index[k] # NULL
  BY IndexTyped DEF IndexInv, Index!TypeOK
<1>2. CASE \E n \in Names : Index!CreateChain(n) \/ Index!DeleteChain(n)
  BY <1>2, CreateChainKeeps, DeleteChainKeeps
<1>3. CASE \E old, new \in Names : Index!RenameChain(old, new)
  BY <1>3, RenameChainKeeps
<1>4. CASE Index!Crash
  <2>1. PICK n \in Names : Index!Bsearch(n, chain_index).fault
    BY <1>4 DEF Index!Crash
  <2>2. renamed
    BY <1>1, <2>1, PointersAre, FullNeverFails
  <2>3. /\ faulted' = TRUE /\ chains' = chains /\ chain_index' = chain_index
        /\ renamed' = renamed
    BY <1>4 DEF Index!Crash
  <2>4. QED
    BY <1>1, <2>2, <2>3, IndexInvPrime
<1>5. CASE Index!Reopen
  <2>1. /\ faulted' = faulted /\ chains' = chains /\ renamed' = FALSE /\ ~faulted
        /\ chain_index' = Index!Rebuilt(chains, Len(chains))
    BY <1>5 DEF Index!Reopen
  <2>2. /\ chain_index' \in ChainIndexes /\ Good(chains, chain_index')
        /\ \A k \in 1..Len(chain_index') : chain_index'[k] # NULL
    BY <1>1, <2>1, RebuiltIsGood
  <2>3. QED
    BY <1>1, <2>1, <2>2, IndexInvPrime
<1>6. CASE UNCHANGED indexVars
  BY <1>1, <1>6, IndexInvPrime DEF indexVars
<1>7. QED
  BY <1>2, <1>3, <1>4, <1>5, <1>6 DEF Index!Next

LEMMA IndexInvariance == Spec => []IndexInv
<1>1. Init => IndexInv
  BY IndexInit DEF Init
<1>2. [Next]_vars => [Index!Next]_indexVars
  BY DEF Next, Only, vars, indexVars
<1>3. QED
  BY <1>1, <1>2, IndexStep, PTL DEF Spec

\* Every variable of the index keeps its type.
THEOREM IndexTypes == Spec => []Index!TypeOK
<1>1. IndexInv => Index!TypeOK
  BY DEF IndexInv
<1>2. QED
  BY <1>1, IndexInvariance, PTL

\* A chain is found if and only if it is in the list, the list is sorted, and
\* until a chain is renamed the index holds no NULL and no freed chain.
THEOREM IndexIsRight == Spec => []IndexFindsChains
<1>1. IndexInv => IndexFindsChains
  <2> SUFFICES ASSUME IndexInv PROVE IndexFindsChains
    OBVIOUS
  <2>1. /\ chains \in ChainLists /\ chain_index \in ChainIndexes
        /\ Ascending(chains) /\ Good(chains, chain_index)
        /\ ~renamed => ~faulted /\ \A k \in 1..Len(chain_index) : chain_index[k] # NULL
    BY IndexTyped DEF IndexInv
  <2>2. /\ Index!Range(chains) = {chains[i] : i \in 1..Len(chains)} /\ Len(chains) \in Nat
        /\ Index!Range(chain_index) = {chain_index[k] : k \in 1..Len(chain_index)}
    BY <2>1, ListIs, IndexIs
  <2>3. Index!FindsExactly
    BY <2>2, FindLabelIs DEF Index!FindsExactly
  <2>4. Index!Sorted
    <3>1. \A i \in 1..Len(chains) - 1 : i \in 1..Len(chains) /\ i + 1 \in 1..Len(chains) /\ i < i + 1
      BY <2>2
    <3>2. QED
      BY <2>1, <3>1 DEF Ascending, Index!Sorted
  <2>5. Index!IndexIsLive
    <3> SUFFICES ASSUME ~renamed
                 PROVE  ~faulted /\ Index!Range(chain_index) \subseteq Index!Range(chains) \cup {0}
      BY DEF Index!IndexIsLive, Index!HEAD
    <3>1. \A k \in 1..Len(chain_index) : chain_index[k] = 0 \/ chain_index[k] \in Index!Range(chains)
      BY <2>1, <2>2 DEF Good, InOrder
    <3>2. QED
      BY <2>1, <2>2, <3>1
  <2>6. QED
    BY <2>3, <2>4, <2>5 DEF IndexFindsChains, Index!IndexFindsChains
<1>2. QED
  BY <1>1, IndexInvariance, PTL

-----------------------------------------------------------------------------
(* The activities and the service.  The invariant is proved in a module of *)
(* its own; here it is one of the behaviours of this module.               *)

BindingProof == INSTANCE ActivityBindingProofs

\* What is defined there is what is defined here.
LEMMA SameTerms ==
  /\ Binding!Activities = BindingProof!Activities
  /\ \A S, n : Binding!Tell(S, n) = BindingProof!Tell(S, n)
  /\ Binding!Unregistering = BindingProof!Unregistering
  /\ \A a : /\ Binding!Dropped(a) = BindingProof!Dropped(a)
            /\ Binding!Without(a) = BindingProof!Without(a)
  /\ Binding!Listeners = BindingProof!Listeners
  /\ Binding!Registered = BindingProof!Registered
  /\ Binding!Unregistered = BindingProof!Unregistered
<1>1. Binding!Activities = BindingProof!Activities
  BY DEF Binding!Activities, BindingProof!Activities
<1>2. \A S, n : Binding!Tell(S, n) = BindingProof!Tell(S, n)
  <2>1. \A S : Binding!SetToSeqs(S) = BindingProof!SetToSeqs(S)
    <3>1. \A S : Binding!Cardinality(S) = BindingProof!Cardinality(S)
      BY Zenon DEF Binding!Cardinality, BindingProof!Cardinality
    <3>2. QED
      BY <3>1 DEF Binding!SetToSeqs, BindingProof!SetToSeqs
  <2>2. QED
    BY <2>1 DEF Binding!Tell, BindingProof!Tell
<1>3. Binding!Unregistering = BindingProof!Unregistering
  BY DEF Binding!Unregistering, BindingProof!Unregistering
<1>4. \A a : /\ Binding!Dropped(a) = BindingProof!Dropped(a)
            /\ Binding!Without(a) = BindingProof!Without(a)
  BY DEF Binding!Dropped, BindingProof!Dropped, Binding!Unbound, BindingProof!Unbound,
     Binding!Without, BindingProof!Without
<1>5. Binding!Listeners = BindingProof!Listeners
  BY <1>1 DEF Binding!Listeners, BindingProof!Listeners
<1>6. Binding!Registered = BindingProof!Registered
  BY DEF Binding!Registered, BindingProof!Registered
<1>7. Binding!Unregistered = BindingProof!Unregistered
  BY DEF Binding!Unregistered, BindingProof!Unregistered, Binding!RemoveFirst,
     BindingProof!RemoveFirst, Binding!RemoveAt, BindingProof!RemoveAt, Binding!SelectInSeq,
     BindingProof!SelectInSeq, Binding!Min, BindingProof!Min
<1>8. QED
  BY <1>1, <1>2, <1>3, <1>4, <1>5, <1>6, <1>7

LEMMA SameSteps == [Binding!Next]_bindingVars => [BindingProof!Next]_BindingProof!vars
<1>1. Binding!Open => BindingProof!Open
  BY SameTerms DEF Binding!Open, BindingProof!Open, Binding!MayPost, BindingProof!MayPost,
     Binding!screens, BindingProof!screens, Binding!statics, BindingProof!statics,
     Binding!bindings, BindingProof!bindings, Binding!services,
     BindingProof!services, Binding!history, BindingProof!history
<1>2. Binding!Finish => BindingProof!Finish
  BY SameTerms DEF Binding!Finish, BindingProof!Finish, Binding!LeftEarly,
     BindingProof!LeftEarly,
     Binding!Settled, BindingProof!Settled, Binding!statics, BindingProof!statics,
     Binding!bindings, BindingProof!bindings, Binding!services,
     BindingProof!services
<1>3. Binding!Rotate => BindingProof!Rotate
  BY SameTerms DEF Binding!Rotate, BindingProof!Rotate, Binding!MayPost,
     BindingProof!MayPost,
     Binding!LeftEarly, BindingProof!LeftEarly, Binding!Settled,
     BindingProof!Settled, Binding!OnDestroy, BindingProof!OnDestroy,
     Binding!services, BindingProof!services
<1>4. Binding!ToggleOn => BindingProof!ToggleOn
  BY SameTerms DEF Binding!ToggleOn, BindingProof!ToggleOn, Binding!MayPost,
     BindingProof!MayPost,
     Binding!screens, BindingProof!screens, Binding!statics, BindingProof!statics,
     Binding!bindings, BindingProof!bindings, Binding!services,
     BindingProof!services, Binding!history, BindingProof!history
<1>5. Binding!ToggleOff => BindingProof!ToggleOff
  BY SameTerms DEF Binding!ToggleOff, BindingProof!ToggleOff, Binding!screens,
     BindingProof!screens, Binding!history, BindingProof!history
<1>6. Binding!ServiceStops => BindingProof!ServiceStops
  BY SameTerms DEF Binding!ServiceStops, BindingProof!ServiceStops, Binding!screens,
     BindingProof!screens, Binding!statics, BindingProof!statics, Binding!history,
     BindingProof!history
<1>7. Binding!HandleResume => BindingProof!HandleResume
  BY SameTerms DEF Binding!HandleResume, BindingProof!HandleResume, Binding!Delayed,
     BindingProof!Delayed, Binding!BindService, BindingProof!BindService,
     Binding!screens, BindingProof!screens, Binding!statics, BindingProof!statics,
     Binding!bindings, BindingProof!bindings, Binding!services,
     BindingProof!services, Binding!history, BindingProof!history
<1>8. Binding!HandleRecord => BindingProof!HandleRecord
  BY SameTerms DEF Binding!HandleRecord, BindingProof!HandleRecord, Binding!Delayed,
     BindingProof!Delayed, Binding!BindService, BindingProof!BindService,
     Binding!StartService, BindingProof!StartService, Binding!UnbindService,
     BindingProof!UnbindService, Binding!screens, BindingProof!screens,
     Binding!services, BindingProof!services, Binding!history, BindingProof!history
<1>9. Binding!HandleStart => BindingProof!HandleStart
  BY SameTerms DEF Binding!HandleStart, BindingProof!HandleStart, Binding!Delayed,
     BindingProof!Delayed, Binding!BindService, BindingProof!BindService,
     Binding!StartService, BindingProof!StartService, Binding!screens,
     BindingProof!screens, Binding!services, BindingProof!services, Binding!history,
     BindingProof!history
<1>10. Binding!HandleBind => BindingProof!HandleBind
  BY SameTerms DEF Binding!HandleBind, BindingProof!HandleBind, Binding!Handles,
     BindingProof!Handles, Binding!screens, BindingProof!screens, Binding!statics,
     BindingProof!statics, Binding!bindings, BindingProof!bindings,
     Binding!services, BindingProof!services, Binding!history, BindingProof!history
<1>11. Binding!NotHeard => BindingProof!NotHeard
  BY SameTerms DEF Binding!NotHeard, BindingProof!NotHeard, Binding!Handles,
     BindingProof!Handles,
     Binding!screens, BindingProof!screens, Binding!statics, BindingProof!statics,
     Binding!bindings, BindingProof!bindings, Binding!services,
     BindingProof!services, Binding!history, BindingProof!history
<1>12. Binding!OnServiceConnected => BindingProof!OnServiceConnected
  BY SameTerms DEF Binding!OnServiceConnected, BindingProof!OnServiceConnected,
     Binding!Handles,
     BindingProof!Handles, Binding!screens, BindingProof!screens, Binding!services,
     BindingProof!services, Binding!history, BindingProof!history
<1>13. Binding!OnServiceDisconnected => BindingProof!OnServiceDisconnected
  BY SameTerms DEF Binding!OnServiceDisconnected, BindingProof!OnServiceDisconnected,
     Binding!Handles, BindingProof!Handles, Binding!screens, BindingProof!screens,
     Binding!services, BindingProof!services, Binding!history, BindingProof!history
<1>14. Binding!HandleRegister => BindingProof!HandleRegister
  BY SameTerms DEF Binding!HandleRegister, BindingProof!HandleRegister, Binding!Handles,
     BindingProof!Handles, Binding!screens, BindingProof!screens, Binding!statics,
     BindingProof!statics, Binding!bindings, BindingProof!bindings, Binding!history,
     BindingProof!history
<1>15. Binding!HandleUnregister => BindingProof!HandleUnregister
  BY SameTerms DEF Binding!HandleUnregister, BindingProof!HandleUnregister,
     Binding!Handles,
     BindingProof!Handles, Binding!screens, BindingProof!screens, Binding!statics,
     BindingProof!statics, Binding!bindings, BindingProof!bindings, Binding!history,
     BindingProof!history
<1>16. \A a : Binding!Destroy(a) => BindingProof!Destroy(a)
  BY SameTerms DEF Binding!Destroy, BindingProof!Destroy, Binding!OnDestroy,
     BindingProof!OnDestroy, Binding!services, BindingProof!services,
     Binding!history, BindingProof!history
<1>17. UNCHANGED bindingVars => UNCHANGED BindingProof!vars
  BY DEF bindingVars, BindingProof!vars, BindingProof!screens, BindingProof!statics,
     BindingProof!bindings, BindingProof!services, BindingProof!history
<1>18. QED
  BY <1>1, <1>2, <1>3, <1>4, <1>5, <1>6, <1>7, <1>8, <1>9, <1>10, <1>11, <1>12,
     <1>13, <1>14, <1>15, <1>16, <1>17, SameTerms
     DEF Binding!Next, BindingProof!Next, Binding!Handle, BindingProof!Handle

LEMMA BindingInvariance == Spec => []BindingProof!IInv
<1>1. BindingProof!Bounds
  BY BindingAssumption DEF BindingProof!Bounds
<1>2. Init => BindingProof!Init
  BY SameTerms DEF Init, Binding!Init, BindingProof!Init, Binding!Unbound,
     BindingProof!Unbound
<1>3. [Next]_vars => [Binding!Next]_bindingVars
  BY DEF Next, Only, vars, bindingVars
<1>4. Init => BindingProof!IInv
  BY <1>1, <1>2, BindingProof!BindingInit
<1>5. BindingProof!IInv /\ [Next]_vars => BindingProof!IInv'
  BY <1>1, <1>3, SameSteps, BindingProof!BindingStep
<1>6. QED
  BY <1>4, <1>5, PTL DEF Spec

\* Every variable of the activities and the binding keeps its type.
THEOREM BindingTypes == Spec => []Binding!TypeOK
<1>1. BindingProof!TypeOK => Binding!TypeOK
  BY DEF Binding!TypeOK, BindingProof!TypeOK, Binding!Activities, BindingProof!Activities,
     Binding!Numbers, BindingProof!Numbers, Binding!Objects, BindingProof!Objects
<1>2. BindingProof!IInv => Binding!TypeOK
  BY <1>1 DEF BindingProof!IInv
<1>3. QED
  BY <1>2, BindingInvariance, PTL

\* However activities come, go and rotate while the service starts and stops, an
\* activity at rest that takes itself for bound is registered at the service that
\* runs; the list has one client, which can be unregistered, unless an instance
\* was left early; and the screen gets the lines unless two instances overlapped
\* (LogRecorderActivity and the list of clients of its service).
THEOREM RegistrationsAreRight == Spec => []RegistrationsAgree
<1>1. BindingProof!Bounds
  BY BindingAssumption DEF BindingProof!Bounds
<1>2. BindingProof!RegistrationsAgree => RegistrationsAgree
  <2>1. \A s : BindingProof!Range(s) = Binding!Range(s)
    BY DEF BindingProof!Range, Binding!Range
  <2>2. QED
    BY <2>1 DEF RegistrationsAgree, Binding!RegistrationsAgree,
       BindingProof!RegistrationsAgree,
       Binding!BoundIsRegistered, BindingProof!BoundIsRegistered,
       Binding!OneRegistered, BindingProof!OneRegistered,
       Binding!NoneForgotten, BindingProof!NoneForgotten,
       Binding!ScreenIsFed, BindingProof!ScreenIsFed, Binding!Settled, BindingProof!Settled
<1>3. BindingProof!IInv => RegistrationsAgree
  BY <1>1, <1>2, BindingProof!BindingSafe
<1>4. QED
  BY <1>3, BindingInvariance, PTL
-----------------------------------------------------------------------------
(* The nat table, proved in a module of its own as the activities are.     *)

TableProof == INSTANCE NatTableProofs
  WITH MaxFailures <- MaxScriptFailures

\* What is defined there is what is defined here.
LEMMA SameRuleSets ==
  /\ Table!Uids = TableProof!Uids /\ Table!Redirect = TableProof!Redirect
  /\ Table!Jump = TableProof!Jump /\ Table!Other = TableProof!Other
  /\ Table!Rules = TableProof!Rules /\ Table!None = TableProof!None
  /\ Table!Policy = TableProof!Policy /\ Table!Marks = TableProof!Marks
  /\ Table!Procs = TableProof!Procs /\ Table!Idle = TableProof!Idle
  /\ \A c, r : Table!Entry(c, r) = TableProof!Entry(c, r)
  /\ \A c, r : Table!New(c, r) = TableProof!New(c, r)
  /\ \A t : Table!RuleSet(t) = TableProof!RuleSet(t)
<1>1. Table!Uids = TableProof!Uids
  BY DEF Table!Uids, TableProof!Uids
<1>2. Table!Redirect = TableProof!Redirect
  BY <1>1, Zenon DEF Table!Redirect, TableProof!Redirect
<1>3. Table!Jump = TableProof!Jump /\ Table!Other = TableProof!Other
      /\ Table!None = TableProof!None /\ Table!Policy = TableProof!Policy
  BY DEF Table!Jump, TableProof!Jump, Table!Other, TableProof!Other, Table!None,
     TableProof!None, Table!Policy, TableProof!Policy
<1>4. Table!Rules = TableProof!Rules /\ Table!Marks = TableProof!Marks
  BY <1>2, <1>3 DEF Table!Rules, TableProof!Rules, Table!Marks, TableProof!Marks
<1>5. Table!Procs = TableProof!Procs /\ Table!Idle = TableProof!Idle
  BY DEF Table!Procs, TableProof!Procs, Table!Idle, TableProof!Idle
<1>6. \A c, r : Table!Entry(c, r) = TableProof!Entry(c, r)
  BY DEF Table!Entry, TableProof!Entry
<1>7. \A c, r : Table!New(c, r) = TableProof!New(c, r)
  BY DEF Table!New, TableProof!New
<1>8. \A t : Table!RuleSet(t) = TableProof!RuleSet(t)
  BY DEF Table!RuleSet, TableProof!RuleSet
<1>9. QED
  BY <1>1, <1>2, <1>3, <1>4, <1>5, <1>6, <1>7, <1>8

LEMMA SameChains ==
  /\ \A t : Table!Parse(t) = TableProof!Parse(t)
  /\ \A t, c : Table!HasChain(t, c) = TableProof!HasChain(t, c)
  /\ \A t, c : Table!HeadOf(t, c) = TableProof!HeadOf(t, c)
  /\ \A t, c : Table!FootOf(t, c) = TableProof!FootOf(t, c)
  /\ \A t, r : Table!FirstOf(t, r) = TableProof!FirstOf(t, r)
<1>1. \A t : Table!Parse(t) = TableProof!Parse(t)
  BY SameRuleSets DEF Table!Parse, TableProof!Parse
<1>2. \A t, c : Table!HasChain(t, c) = TableProof!HasChain(t, c)
  BY DEF Table!HasChain, TableProof!HasChain
<1>3. \A t, c : Table!HeadOf(t, c) = TableProof!HeadOf(t, c)
  BY Zenon DEF Table!HeadOf, TableProof!HeadOf
<1>4. \A t, c : Table!FootOf(t, c) = TableProof!FootOf(t, c)
  BY SameRuleSets, Zenon DEF Table!FootOf, TableProof!FootOf
<1>5. \A t, r : Table!FirstOf(t, r) = TableProof!FirstOf(t, r)
  BY Zenon DEF Table!FirstOf, TableProof!FirstOf
<1>6. QED
  BY <1>1, <1>2, <1>3, <1>4, <1>5

LEMMA SameTableEdits ==
  /\ \A t, c : Table!CreateChain(t, c) = TableProof!CreateChain(t, c)
  /\ \A t, c, r : Table!AppendEntry(t, c, r) = TableProof!AppendEntry(t, c, r)
  /\ \A t, c, r : Table!InsertEntry(t, c, r) = TableProof!InsertEntry(t, c, r)
  /\ \A t, o, r : Table!ReplaceEntry(t, o, r) = TableProof!ReplaceEntry(t, o, r)
  /\ \A t, r : Table!DeleteEntry(t, r) = TableProof!DeleteEntry(t, r)
  /\ \A t, c : Table!FlushEntries(t, c) = TableProof!FlushEntries(t, c)
<1>1. \A t, i, e : Table!InsertAt(t, i, e) = TableProof!InsertAt(t, i, e)
  BY Zenon DEF Table!InsertAt, TableProof!InsertAt
<1>2. \A t, i : Table!RemoveAt(t, i) = TableProof!RemoveAt(t, i)
  BY Zenon DEF Table!RemoveAt, TableProof!RemoveAt
<1>3. \A t : Table!Last(t) = TableProof!Last(t)
  BY Zenon DEF Table!Last, TableProof!Last
<1>4. \A t, c : Table!CreateChain(t, c) = TableProof!CreateChain(t, c)
  BY <1>3, SameRuleSets DEF Table!CreateChain, TableProof!CreateChain
<1>5. \A t, c, r : Table!AppendEntry(t, c, r) = TableProof!AppendEntry(t, c, r)
  BY <1>1, SameRuleSets, SameChains DEF Table!AppendEntry, TableProof!AppendEntry
<1>6. \A t, c, r : Table!InsertEntry(t, c, r) = TableProof!InsertEntry(t, c, r)
  BY <1>1, SameRuleSets DEF Table!InsertEntry, TableProof!InsertEntry
<1>7. \A t, o, r : Table!ReplaceEntry(t, o, r) = TableProof!ReplaceEntry(t, o, r)
  BY SameRuleSets, SameChains DEF Table!ReplaceEntry, TableProof!ReplaceEntry
<1>8. \A t, r : Table!DeleteEntry(t, r) = TableProof!DeleteEntry(t, r)
  BY <1>2, SameChains DEF Table!DeleteEntry, TableProof!DeleteEntry
<1>9. \A t, c : Table!FlushEntries(t, c) = TableProof!FlushEntries(t, c)
  BY SameChains DEF Table!FlushEntries, TableProof!FlushEntries
<1>10. QED
  BY <1>4, <1>5, <1>6, <1>7, <1>8, <1>9

LEMMA SameTableTerms ==
  /\ \A p : Table!Accepts(p) = TableProof!Accepts(p)
  /\ \A p : Table!Added(p) = TableProof!Added(p)
  /\ \A e, old : Table!Plus(e, old) = TableProof!Plus(e, old)
  /\ \A t : Table!Cached(t) = TableProof!Cached(t)
  /\ \A t : Table!Edit(t) = TableProof!Edit(t)
  /\ \A s : Table!ExitWith(s) = TableProof!ExitWith(s)
  /\ \A s : Table!At(s) = TableProof!At(s)
  /\ Table!Possible = TableProof!Possible
  /\ Table!NextCommand = TableProof!NextCommand
<1>1. \A p : Table!Accepts(p) = TableProof!Accepts(p)
  BY DEF Table!Accepts, TableProof!Accepts
<1>2. \A p : Table!Added(p) = TableProof!Added(p)
  BY Zenon DEF Table!Added, TableProof!Added
<1>3. \A e, old : Table!Plus(e, old) = TableProof!Plus(e, old)
  BY Zenon DEF Table!Plus, TableProof!Plus
<1>4. \A t : Table!Cached(t) = TableProof!Cached(t)
  BY DEF Table!Cached, TableProof!Cached
<1>5. Table!NextRedirect = TableProof!NextRedirect
  BY DEF Table!NextRedirect, TableProof!NextRedirect
<1>6. \A t : Table!Edit(t) = TableProof!Edit(t)
  BY <1>5, SameTableEdits, SameRuleSets DEF Table!Edit, TableProof!Edit
<1>7. \A s : Table!ExitWith(s) = TableProof!ExitWith(s)
  BY DEF Table!ExitWith, TableProof!ExitWith
<1>8. \A s : Table!At(s) = TableProof!At(s)
  BY SameRuleSets DEF Table!At, TableProof!At
<1>9. Table!Possible = TableProof!Possible
  BY SameChains DEF Table!Possible, TableProof!Possible
<1>10. Table!NextCommand = TableProof!NextCommand
  BY <1>7 DEF Table!NextCommand, TableProof!NextCommand
<1>11. QED
  BY <1>1, <1>2, <1>3, <1>4, <1>6, <1>7, <1>8, <1>9, <1>10

LEMMA SameTableSteps == [Table!Step]_tableVars => [TableProof!Step]_TableProof!vars
<1>1. \A k, u : Table!Start(k, u) => TableProof!Start(k, u)
  BY DEF Table!Start, TableProof!Start, Table!Spend, TableProof!Spend
<1>2. Table!Find => TableProof!Find
  BY SameTableTerms, SameChains DEF Table!Find, TableProof!Find
<1>3. Table!Grep => TableProof!Grep
  BY SameTableTerms, SameRuleSets DEF Table!Grep, TableProof!Grep
<1>4. Table!Edits => TableProof!Edits
  BY SameTableTerms, SameChains DEF Table!Edits, TableProof!Edits
<1>5. \A p : Table!AddCounters(p) => TableProof!AddCounters(p)
  BY SameTableTerms, SameRuleSets DEF Table!AddCounters, TableProof!AddCounters
<1>6. \A p : Table!Refused(p) => TableProof!Refused(p)
  BY SameTableTerms, SameRuleSets DEF Table!Refused, TableProof!Refused
<1>7. Table!Done => TableProof!Done
  BY <1>5, SameTableTerms DEF Table!Done, TableProof!Done
<1>8. Table!NotDone => TableProof!NotDone
  BY <1>6, SameTableTerms DEF Table!NotDone, TableProof!NotDone
<1>9. Table!Fails => TableProof!Fails
  BY SameTableTerms, SameChains, SameRuleSets DEF Table!Fails, TableProof!Fails,
     Table!Spend, TableProof!Spend
<1>10. Table!OtherEdits => TableProof!OtherEdits
  <2> DEFINE t == Table!Parse(table)
             X1 == {Table!InsertEntry(t, "OUTPUT", r) :
                      r \in IF Table!RuleSet(t) \cap Table!Other = {} THEN {<<"other", 1>>} ELSE {}}
             X2 == {Table!DeleteEntry(t, r) : r \in Table!RuleSet(t) \cap Table!Other}
             X3 == {Table!ReplaceEntry(t, <<"other", 1>>, r) :
                      r \in IF <<"other", 1>> \in Table!RuleSet(t) THEN {<<"other", 2>>} ELSE {}}
             Y1 == {TableProof!InsertEntry(t, "OUTPUT", r) :
                      r \in IF TableProof!RuleSet(t) \cap TableProof!Other = {}
                             THEN {<<"other", 1>>} ELSE {}}
             Y2 == {TableProof!DeleteEntry(t, r) : r \in TableProof!RuleSet(t) \cap TableProof!Other}
             Y3 == {TableProof!ReplaceEntry(t, <<"other", 1>>, r) :
                      r \in IF <<"other", 1>> \in TableProof!RuleSet(t) THEN {<<"other", 2>>} ELSE {}}
  <2> SUFFICES ASSUME Table!OtherEdits PROVE TableProof!OtherEdits
    OBVIOUS
  <2>1. t = TableProof!Parse(table)
    BY SameChains
  <2>2. Table!RuleSet(t) = TableProof!RuleSet(t) /\ Table!Other = TableProof!Other
    BY SameRuleSets
  <2>3. X1 = Y1 /\ X2 = Y2 /\ X3 = Y3
    <3> HIDE DEF t
    <3>1. X1 = Y1
      BY <2>2, SameTableEdits
    <3>2. X2 = Y2
      BY <2>2, SameTableEdits
    <3>3. X3 = Y3
      BY <2>2, SameTableEdits
    <3>4. QED
      BY <3>1, <3>2, <3>3
  <2>4. /\ session["other"] = Table!Idle /\ budget.edits < MaxEdits /\ Table!Spend("edits")
        /\ UNCHANGED <<table, script, foreign, hits, collided, blind>>
    BY DEF Table!OtherEdits
  <2>5. \E new \in X1 \cup X2 \cup X3 :
          session' = [session EXCEPT !["other"] = Table!Cached(new)]
    BY Zenon DEF Table!OtherEdits
  <2>6. \E new \in Y1 \cup Y2 \cup Y3 :
          session' = [session EXCEPT !["other"] = TableProof!Cached(new)]
    <3> HIDE DEF X1, X2, X3, Y1, Y2, Y3
    <3>1. QED
      BY <2>3, <2>5, SameTableTerms
  <2>7. LET s == TableProof!Parse(table) IN \E new \in
          {TableProof!InsertEntry(s, "OUTPUT", r) :
             r \in IF TableProof!RuleSet(s) \cap TableProof!Other = {} THEN {<<"other", 1>>} ELSE {}}
            \cup {TableProof!DeleteEntry(s, r) : r \in TableProof!RuleSet(s) \cap TableProof!Other}
            \cup {TableProof!ReplaceEntry(s, <<"other", 1>>, r) :
                    r \in IF <<"other", 1>> \in TableProof!RuleSet(s) THEN {<<"other", 2>>} ELSE {}} :
          session' = [session EXCEPT !["other"] = TableProof!Cached(new)]
    BY <2>1, <2>6, Zenon
  <2>8. QED
    BY <2>4, <2>7, SameRuleSets DEF TableProof!OtherEdits, Table!Spend, TableProof!Spend
<1>11. Table!OtherDone => TableProof!OtherDone
  BY <1>5, <1>6 DEF Table!OtherDone, TableProof!OtherDone
<1>12. \A p : Table!Replace(p) => TableProof!Replace(p)
  <2> SUFFICES ASSUME NEW p, Table!Replace(p) PROVE TableProof!Replace(p)
    OBVIOUS
  <2> DEFINE new == session[p].cache
             q == CHOOSE x \in Table!Procs : x # p
  <2>1. q = CHOOSE x \in TableProof!Procs : x # p
    BY SameRuleSets
  <2>2. [i \in DOMAIN new |-> Table!Entry(new[i].chain, new[i].rule)]
          = [i \in DOMAIN new |-> TableProof!Entry(new[i].chain, new[i].rule)]
    BY SameRuleSets
  <2>3. [i \in DOMAIN new |-> Table!Plus(new[i], table)]
          = [i \in DOMAIN new |-> TableProof!Plus(new[i], table)]
    BY SameTableTerms
  <2>4. \A t : Table!RuleSet(t) = TableProof!RuleSet(t)
    BY SameRuleSets
  <2>5. /\ session[p].at = "cached" /\ Table!Accepts(p)
        /\ table' = [i \in DOMAIN new |-> Table!Entry(new[i].chain, new[i].rule)]
        /\ session' = [session EXCEPT
             ![p] = [at |-> "adding", cache |-> <<>>, num |-> 0, stale |-> FALSE,
                     plus |-> [i \in DOMAIN new |-> Table!Plus(new[i], table)]],
             ![q].stale = session[q].at # "idle"]
        /\ hits' = [r \in DOMAIN hits |->
                      IF r \in Table!RuleSet(table) \cap Table!RuleSet(new) THEN hits[r] ELSE 0]
        /\ foreign' = IF p = "recorder" THEN foreign
                      ELSE IF Table!RuleSet(new) \cap Table!Other = {} THEN Table!None
                      ELSE CHOOSE r \in Table!Other : r \in Table!RuleSet(new)
        /\ collided' = (collided \/ (session[p].stale /\ session[p].num = Len(table)))
        /\ UNCHANGED <<script, blind, budget>>
    BY DEF Table!Replace
  <2>6. hits' = [r \in DOMAIN hits |->
                  IF r \in TableProof!RuleSet(table) \cap TableProof!RuleSet(new)
                  THEN hits[r] ELSE 0]
    BY <2>4, <2>5
  <2>7. foreign' = IF p = "recorder" THEN foreign
                   ELSE IF TableProof!RuleSet(new) \cap TableProof!Other = {} THEN TableProof!None
                   ELSE CHOOSE r \in TableProof!Other : r \in TableProof!RuleSet(new)
    <3>1. Table!Other = TableProof!Other /\ Table!None = TableProof!None
      BY SameRuleSets
    <3>2. Table!RuleSet(new) = TableProof!RuleSet(new)
      BY <2>4
    <3>3. QED
      BY <2>5, <3>1, <3>2
  <2>8. TableProof!Accepts(p)
    BY <2>5, SameTableTerms
  <2>9. QED
    BY <2>1, <2>2, <2>3, <2>5, <2>6, <2>7, <2>8, Zenon DEF TableProof!Replace
<1>13. \A i : Table!Packet(i) => TableProof!Packet(i)
  BY SameRuleSets DEF Table!Packet, TableProof!Packet, Table!Spend, TableProof!Spend
<1>14. UNCHANGED tableVars => UNCHANGED TableProof!vars
  BY DEF tableVars, TableProof!vars
<1>15. Table!Next => TableProof!Next
  BY <1>1, <1>2, <1>3, <1>4, <1>7, <1>8, <1>9, <1>10, <1>11, <1>12, <1>13, SameRuleSets
     DEF Table!Next, TableProof!Next
<1>16. QED
  BY <1>14, <1>15 DEF Table!Step, TableProof!Step

LEMMA TableInvariance == Spec => []TableProof!IInv
<1>1. TableProof!Bounds
  BY PortsAssumption DEF TableProof!Bounds, TableProof!Uids
<1>2. Init => TableProof!Init
  BY SameRuleSets DEF Init, Table!Init, TableProof!Init
<1>3. [Next]_vars => [Table!Step]_tableVars
  BY DEF Next, Only, vars, tableVars
<1>4. Init => TableProof!IInv
  BY <1>1, <1>2, TableProof!InvInit
<1>5. TableProof!IInv /\ [Next]_vars => TableProof!IInv'
  BY <1>1, <1>3, SameTableSteps, TableProof!InvStep
<1>6. QED
  BY <1>4, <1>5, PTL DEF Spec

\* Every variable of the nat table keeps its type.
THEOREM TableTypes == Spec => []Table!TypeOK
<1>1. TableProof!Bounds
  BY PortsAssumption DEF TableProof!Bounds, TableProof!Uids
<1>2. TableProof!TypeOK => Table!TypeOK
  BY SameRuleSets DEF Table!TypeOK, TableProof!TypeOK
<1>3. TableProof!IInv => Table!TypeOK
  BY <1>1, <1>2, TableProof!InvTypes
<1>4. QED
  BY <1>3, TableInvariance, PTL

\* However commands of the scripts fail, and whatever the other program does
\* meanwhile, a script that reports success has left in the table what it says:
\* the redirects of its application, all of them and in order, in a chain that is
\* reached, or none; redirects of two applications are never there together; and
\* the chain is linked once unless a listing of OUTPUT failed (applyRules and
\* removeRules of IPTables.java, TC_INIT and TC_COMMIT of libiptc.c).
THEOREM ScriptsDoTheirWork == Spec => []ScriptsWork
<1>1. TableProof!Bounds
  BY PortsAssumption DEF TableProof!Bounds, TableProof!Uids
<1>2. \A r : Table!Times(r) = TableProof!Times(r)
  <2>1. \A S : Table!Cardinality(S) = TableProof!Cardinality(S)
    BY Zenon DEF Table!Cardinality, TableProof!Cardinality
  <2>2. QED
    BY <2>1 DEF Table!Times, TableProof!Times
<1>3. Table!Netrec = TableProof!Netrec
  BY SameChains DEF Table!Netrec, TableProof!Netrec
<1>4. TableProof!ScriptKeepsPromise => Table!ScriptKeepsPromise
  BY <1>2, <1>3, SameRuleSets DEF Table!ScriptKeepsPromise, TableProof!ScriptKeepsPromise
<1>5. TableProof!OneUid => Table!OneUid
  <2>1. \A S : Table!Cardinality(S) = TableProof!Cardinality(S)
    BY Zenon DEF Table!Cardinality, TableProof!Cardinality
  <2>2. QED
    BY <2>1, SameRuleSets DEF Table!OneUid, TableProof!OneUid
<1>6. TableProof!LinkedOnce => Table!LinkedOnce
  BY <1>2, SameRuleSets DEF Table!LinkedOnce, TableProof!LinkedOnce
<1>7. TableProof!IInv => ScriptsWork
  BY <1>1, <1>4, <1>5, <1>6, TableProof!InvScripts
     DEF ScriptsWork, Table!ScriptsWork, TableProof!ScriptsWork
<1>8. QED
  BY <1>7, TableInvariance, PTL

\* When no counters are on their way, those of every rule that stayed have every
\* packet that matched it, however two processes read, replace and count in turns,
\* and the rule of the other program is what it wrote last, as long as no table was
\* written over one of the same length that was not read (TC_COMMIT and the kernel's
\* comparison of the number of entries).
THEOREM CommitsKeepAll == Spec => []CommitsMerge
<1>1. \A r : Table!Counted(r) = TableProof!Counted(r)
  <2>1. \A w : Table!Sums(w) = TableProof!Sums(w)
    BY Zenon DEF Table!Sums, TableProof!Sums
  <2>2. \A r : Table!Counts(r) = TableProof!Counts(r)
    BY DEF Table!Counts, TableProof!Counts
  <2>3. QED
    BY <2>1, <2>2 DEF Table!Counted, TableProof!Counted
<1>2. TableProof!CountersKept => Table!CountersKept
  BY <1>1, SameRuleSets DEF Table!CountersKept, TableProof!CountersKept
<1>3. TableProof!OthersKept => Table!OthersKept
  BY SameRuleSets DEF Table!OthersKept, TableProof!OthersKept
<1>4. TableProof!IInv => CommitsMerge
  BY <1>2, <1>3, TableProof!InvCommits DEF CommitsMerge, Table!CommitsMerge,
     TableProof!CommitsMerge
<1>5. QED
  BY <1>4, TableInvariance, PTL

-----------------------------------------------------------------------------
(* The parts together.                                                     *)

\* Every variable of every part keeps its type.
THEOREM TypesKept == Spec => []TypeOK
<1>1. Spec => []SelectorsInv
  BY SelectorsInvariance
<1>2. SelectorsInv => Selectors!TypeOK
  BY DEF SelectorsInv
<1>3. /\ Binding!TypeOK /\ Index!TypeOK /\ Table!TypeOK /\ Lists!TypeOK
      /\ Install!TypeOK /\ Runner!TypeOK /\ Selectors!TypeOK /\ Input!TypeOK
      /\ Dump!TypeOK
      => TypeOK
  BY DEF TypeOK
<1>4. QED
  BY <1>1, <1>2, <1>3, BindingTypes, IndexTypes, TableTypes, ListsTypes, InstallTypes,
     RunnerTypes, InputTypes, DumpTypes, PTL
=============================================================================
