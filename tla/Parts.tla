-------------------------------- MODULE Parts --------------------------------
(***************************************************************************)
(* The parts of the program that are modelled on their own, side by side:  *)
(* a behaviour is one of the part that `part' names, while the variables   *)
(* of the others keep their initial values.  They share no state, so that  *)
(* nothing is lost by not interleaving them.                               *)
(***************************************************************************)
EXTENDS Integers, Sequences

CONSTANTS
  NULL,
  MaxActivities, MaxBinds, MaxServices,      \* ActivityBinding
  Names, CHAIN_INDEX_BUCKET_LEN, CHAIN_INDEX_INSERT_MAX,   \* ChainIndex
  Ports, MaxScripts, MaxScriptFailures, MaxEdits, MaxPackets,   \* NatTable
  Apps, MaxScreens, MaxReads, MaxChanges, MaxReadFailures,      \* Catalogs
  Size, MaxInstallFailures, MaxRestarts,     \* BinaryInstall
  Scripts, MaxPipe,                          \* ScriptRunner
  MaxSelectors, MaxRestores,                 \* PortSelectors
  Digits, MaxPaste,                          \* PortInput
  Lengths                                    \* HexDump

\* What comes and goes is bounded.
ASSUME BindingAssumption ==
  MaxActivities \in Nat /\ MaxBinds \in Nat /\ MaxServices \in Nat

\* A chain has a name, which is above the empty one, and so has a bucket a chain.
ASSUME ChainsAssumption ==
  Names \subseteq Nat \ {0} /\ CHAIN_INDEX_BUCKET_LEN \in Nat \ {0}

\* A uid that may use the network is not 0, that of root, which stands for none.
ASSUME AppsAssumption ==
  0 \notin Apps /\ MaxScreens \in Nat /\ MaxChanges \in Nat /\ MaxReadFailures \in Nat

\* An application that is recorded has ports.
ASSUME PortsAssumption ==
  MaxPackets \in Nat /\ \A u \in DOMAIN Ports : Ports[u] \in Seq(Nat) /\ Ports[u] # <<>>

\* There is a first version of the application, whose binaries have lengths.
ASSUME VersionsAssumption == Size \in Seq(Nat) /\ 1 \in DOMAIN Size

\* A script is a sequence of what it does, and a pipe holds a number of pieces.
ASSUME ScriptsAssumption ==
  Scripts \subseteq Seq({"line", "part", "fork"}) /\ MaxPipe \in Nat

\* null is no fragment.
ASSUME SelectorsAssumption ==
  MaxSelectors \in Nat \ {0} /\ MaxRestores \in Nat /\ NULL \notin Int

\* The keys of a selector are those of a number.
ASSUME DigitsAssumption == Digits \subseteq 0..9 /\ MaxPaste \in Nat

\* A write has a number of bytes.
ASSUME LengthsAssumption == Lengths \subseteq Nat

VARIABLE part

\* ActivityBinding
VARIABLES opened, screen, finishing, delayed, inbox, service, messenger,
  isBound, owner, dispatcher, conns, record, objects, clients, late, overlapped

\* ChainIndex
VARIABLES chains, chain_index, renamed, faulted

\* NatTable
VARIABLES table, session, script, foreign, hits, collided, blind, budget

\* Catalogs
VARIABLES installed, rows, recording, applications, applicationLookup, logs,
  delayedReads, posted, main, resumed, shown, crashed, causes, spent

\* BinaryInstall
VARIABLES version, file, installer, at, ready, unchanged, unmarked, trouble

\* ScriptRunner
VARIABLES caller, work, process, child, pipe, begun, thread

\* PortSelectors
VARIABLES portSelectors, fragments, made, restores, asked, settingsCrashed

\* PortInput
VARIABLE text

\* HexDump
VARIABLES len, hex, hexpos, ploc, bufpos, b, done

Binding == INSTANCE ActivityBinding

Index == INSTANCE ChainIndex

Table == INSTANCE NatTable
  WITH MaxFailures <- MaxScriptFailures

Lists == INSTANCE Catalogs
  WITH MaxFailures <- MaxReadFailures, delayed <- delayedReads

Install == INSTANCE BinaryInstall
  WITH MaxFailures <- MaxInstallFailures, pc <- installer

Runner == INSTANCE ScriptRunner
  WITH script <- work, pc <- thread

Selectors == INSTANCE PortSelectors
  WITH shown <- fragments, crashed <- settingsCrashed

Input == INSTANCE PortInput

Dump == INSTANCE HexDump

bindingVars == <<opened, screen, finishing, delayed, inbox, service,
       messenger, isBound, owner, dispatcher, conns, record, objects, clients,
       late, overlapped>>
indexVars == <<chains, chain_index, renamed, faulted>>
tableVars == <<table, session, script, foreign, hits, collided, blind,
       budget>>
catalogsVars == <<installed, rows, recording, applications, applicationLookup,
       logs, delayedReads, posted, main, resumed, shown, crashed, causes,
       spent>>
installVars == <<version, file, installer, at, ready, unchanged, unmarked,
       trouble>>
runnerVars == <<caller, work, process, child, pipe, begun, thread>>
selectorsVars == <<portSelectors, fragments, made, restores, asked,
       settingsCrashed>>
inputVars == <<text>>
dumpVars == <<len, hex, hexpos, ploc, bufpos, b, done>>

vars == <<part, bindingVars, indexVars, tableVars, catalogsVars, installVars,
       runnerVars, selectorsVars, inputVars, dumpVars>>

\* A part that is not checked has one initial state.
Init ==
  /\ part \in {"binding", "index", "table", "catalogs", "install", "runner",
       "selectors", "input", "dump"}
  /\ Binding!Init
  /\ Index!Init
  /\ Table!Init
  /\ Lists!Init /\ (part # "catalogs" => rows = {})
  /\ Install!Init
  /\ Runner!Init /\ (part # "runner" => caller = "executeScript" /\ work = <<>>)
  /\ Selectors!Init
  /\ Input!Init
  /\ Dump!Init /\ (part # "dump" => len = 1)

\* The other parts and the choice of the part stay.
Only(p) ==
  /\ part = p /\ UNCHANGED part
  /\ p # "binding" => UNCHANGED bindingVars
  /\ p # "index" => UNCHANGED indexVars
  /\ p # "table" => UNCHANGED tableVars
  /\ p # "catalogs" => UNCHANGED catalogsVars
  /\ p # "install" => UNCHANGED installVars
  /\ p # "runner" => UNCHANGED runnerVars
  /\ p # "selectors" => UNCHANGED selectorsVars
  /\ p # "input" => UNCHANGED inputVars
  /\ p # "dump" => UNCHANGED dumpVars

Next ==
  \/ Only("binding") /\ Binding!Next
  \/ Only("index") /\ Index!Next
  \/ Only("table") /\ Table!Step
  \/ Only("catalogs") /\ Lists!Next
  \/ Only("install") /\ Install!Next
  \/ Only("runner") /\ Runner!Next
  \/ Only("selectors") /\ Selectors!Next
  \/ Only("input") /\ Input!Next
  \/ Only("dump") /\ Dump!Next

\* Of the lists, the main thread handles what is posted; the thread that waits
\* for a script, and the script, go on while they can.
Fairness ==
  /\ WF_vars(Only("catalogs") /\ Lists!HandleApps)
  /\ WF_vars(Only("catalogs") /\ Lists!HandleLogs)
  /\ WF_vars(Only("runner") /\ Runner!ScriptRuns)
  /\ WF_vars(Only("runner") /\ Runner!ScriptExits)
  /\ WF_vars(Only("runner") /\ Runner!Thread)

Spec == Init /\ [][Next]_vars /\ Fairness

-----------------------------------------------------------------------------
(* Properties of the parts, stated and explained in their modules.         *)

\* Every variable of every part keeps its type.
TypeOK ==
  /\ Binding!TypeOK /\ Index!TypeOK /\ Table!TypeOK /\ Lists!TypeOK /\ Install!TypeOK
  /\ Runner!TypeOK /\ Selectors!TypeOK /\ Input!TypeOK /\ Dump!TypeOK

\* ActivityBinding: the activities and the service agree who gets the lines.
RegistrationsAgree == Binding!RegistrationsAgree

\* ChainIndex: a chain is found if and only if it is in the sorted list.
IndexFindsChains == Index!IndexFindsChains

\* NatTable: a script that reports success has done its work, one application is
\* redirected and the chain linked once.
ScriptsWork == Table!ScriptsWork

\* NatTable: a commit keeps the counters and the rules of the other program.
CommitsMerge == Table!CommitsMerge

\* Catalogs: the caches are of one read and complete, and using them ends the
\* process for known reasons only.
ListsCorrect == Lists!ListsCorrect

\* Catalogs: a screen in front gets its lists, or an error for them.
ListsShown == part = "catalogs" => Lists!ListsShown

\* BinaryInstall: after success every binary is there, whole, of this version
\* and may be run.
InstallCorrect == Install!InstallCorrect

\* ScriptRunner: the thread is held by a script only within a line.
HeldWithinLine == Runner!HeldWithinLine

\* ScriptRunner: a script that is run is waited for to its end.
ScriptAwaited == part = "runner" => Runner!ScriptAwaited

\* PortSelectors: a recording is started with the ports on the screen.
SelectorsAgree == Selectors!SelectorsAgree

\* PortInput: what can be entered has the digits of a port.
DigitsOfPort == Input!DigitsOfPort

\* HexDump: every byte is in its columns, and all of it in the buffer.
DumpFits == Dump!DumpFits
=============================================================================
