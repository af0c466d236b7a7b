------------------------ MODULE TcProxyServerProofs -------------------------
(***************************************************************************)
(* Theorems about TcProxyServer, for any connections, any limit and any    *)
(* number of faults: the types, with the limit on descriptors; that a      *)
(* connection is held by its own child alone; that the parent keeps only   *)
(* the connections that failed; and that it exits only for a reason.       *)
(***************************************************************************)
EXTENDS TcProxyServer, FiniteSetTheorems, SequenceTheorems, TLAPS

\* The parent is busy with one connection exactly between accept and close.
Busy == pc \in {"create_proxy", "fork", "close"}
BusyWithOne ==
  /\ Busy => client \in Conns
  /\ ~Busy => client = None
  /\ pc \in {"fork", "close"} => server \in {Stdin, Server(client)}

\* A connection is in one place: queued, with the parent, forked or failed.
OnePlace ==
  /\ forked \cap failed = {}
  /\ pc \in {"create_proxy", "fork"} => client \notin forked \cup failed
  /\ \A i \in 1..Len(queue) :
       /\ queue[i] \notin forked \cup failed /\ queue[i] # client
       /\ \A j \in 1..Len(queue) : queue[i] = queue[j] => i = j

\* The clients that leaked.
Leaked == {Client(c) : c \in failed}

\* What the parent and each child may hold.
MayHold ==
  /\ fds[Parent] \subseteq
       {Stdin} \cup Leaked \cup (IF Busy THEN {Client(client)} ELSE {})
       \cup (IF pc \in {"fork", "close"} THEN {server} ELSE {})
  /\ \A c \in Conns :
       fds[c] \subseteq {Stdin, Client(c), Server(c)} \cup Leaked

FinitelyMany == IsFiniteSet(fds[Parent]) /\ IsFiniteSet(failed)

\* The inductive invariant.
IndInv == /\ TypeOK /\ BusyWithOne /\ OnePlace /\ MayHold /\ FinitelyMany
          /\ ExitHasReason
-----------------------------------------------------------------------------
(* Descriptors.                                                            *)

\* A descriptor that is added while there is room keeps the limit.
LEMMA AddOne ==
  ASSUME NEW S, IsFiniteSet(S), NEW x, ~(Cardinality(S) >= Limit)
  PROVE  IsFiniteSet(S \cup {x}) /\ Cardinality(S \cup {x}) <= Limit
<1>1. Cardinality(S) \in Nat
  BY FS_CardinalityType
<1>2. QED
  BY <1>1, FS_AddElement, LimitAssumption

\* So does taking some away.
LEMMA TakeAway ==
  ASSUME NEW S, IsFiniteSet(S), NEW T \in SUBSET S, Cardinality(S) <= Limit
  PROVE  IsFiniteSet(T) /\ Cardinality(T) <= Limit
<1>1. /\ Cardinality(S) \in Nat /\ IsFiniteSet(T) /\ Cardinality(T) \in Nat
      /\ Cardinality(T) <= Cardinality(S)
  BY FS_CardinalityType, FS_Subset
<1>2. QED
  BY <1>1, LimitAssumption

\* Leaked clients up to the limit are as many failed connections.
LEMMA LeakedUpToLimit ==
  ASSUME NEW S \in SUBSET ({Stdin} \cup Leaked), IsFiniteSet(S),
         IsFiniteSet(failed), Cardinality(S) >= Limit
  PROVE  Cardinality(failed) >= Limit - 1
<1> DEFINE T == S \ {Stdin}
           f == [d \in T |-> d[1]]
<1>1. IsFiniteSet(T) /\ Cardinality(T) \in Nat /\ Cardinality(T) >= Limit - 1
  <2>1. /\ IsFiniteSet(T)
        /\ Cardinality(T) = IF Stdin \in S THEN Cardinality(S) - 1 ELSE Cardinality(S)
    BY FS_RemoveElement
  <2>2. Cardinality(S) \in Nat /\ Cardinality(T) \in Nat
    BY <2>1, FS_CardinalityType
  <2> HIDE DEF T
  <2>3. QED
    BY <2>1, <2>2, LimitAssumption
<1>2. \A d \in T : d[1] \in failed /\ d = Client(d[1])
  BY DEF Leaked, Client
<1>3. f \in Injection(T, failed)
  <2>1. f \in [T -> failed]
    BY <1>2
  <2>2. \A d, e \in T : f[d] = f[e] => d = e
    BY <1>2
  <2> HIDE DEF T, f
  <2>3. QED
    BY <2>1, <2>2 DEF Injection, IsInjective
<1> HIDE DEF T, f
<1>4. Cardinality(T) <= Cardinality(failed) /\ Cardinality(failed) \in Nat
  BY <1>1, <1>3, FS_Injection, FS_CardinalityType
<1>5. QED
  BY <1>1, <1>4, LimitAssumption

-----------------------------------------------------------------------------
(* The parts of the invariant, one after the other.                        *)

\* Exit, whichever call it comes from.
LEMMA ExitKeeps ==
  ASSUME IndInv, Exit, faults' \in Nat,
         faults' > 0 \/ Cardinality(failed) >= Limit - 1
  PROVE  IndInv'
<1>1. /\ fds'[Parent] = {} /\ fds' \in [Procs -> SUBSET Descriptors]
      /\ \A c \in Conns : fds'[c] = fds[c]
  BY NamesAssumption DEF Exit, IndInv, TypeOK, Procs
<1>2. IsFiniteSet(fds'[Parent]) /\ Cardinality(fds'[Parent]) <= Limit
  BY <1>1, FS_EmptySet, LimitAssumption
<1>3. queue' = <<>> \/ queue' = queue
  BY DEF Exit
<1>4. TypeOK'
  <2>1. queue' \in Seq(Conns)
    BY <1>3, EmptySeq DEF IndInv, TypeOK
  <2>2. QED
    BY <1>1, <1>2, <2>1 DEF Exit, IndInv, TypeOK, past
<1>5. BusyWithOne'
  BY DEF Exit, BusyWithOne, Busy
<1>6. OnePlace'
  <2>1. \A i \in 1..Len(queue) : queue[i] \in Conns
    BY ElementOfSeq DEF IndInv, TypeOK
  <2>2. CASE queue' = <<>>
    BY <2>2 DEF Exit, IndInv, OnePlace, past
  <2>3. CASE queue' = queue
    BY <2>1, <2>3, NamesAssumption DEF Exit, IndInv, OnePlace, past
  <2>4. QED
    BY <1>3, <2>2, <2>3
<1>7. MayHold'
  BY <1>1 DEF Exit, IndInv, MayHold, Leaked, past
<1>8. FinitelyMany' /\ ExitHasReason'
  BY <1>2 DEF Exit, IndInv, FinitelyMany, ExitHasReason, past
<1>9. QED
  BY <1>4, <1>5, <1>6, <1>7, <1>8 DEF IndInv

\* A failure, or full descriptors, are reasons to exit.
LEMMA ExitStep ==
  ASSUME IndInv, StartFails \/ AcceptFails \/ OutOfDescriptors
  PROVE  IndInv'
<1>1. CASE StartFails \/ AcceptFails
  BY <1>1, ExitKeeps DEF StartFails, AcceptFails, Fails, IndInv, TypeOK
<1>2. CASE OutOfDescriptors
  <2>1. fds[Parent] \in SUBSET ({Stdin} \cup Leaked)
    BY <1>2 DEF OutOfDescriptors, At, IndInv, MayHold, Busy
  <2>2. Cardinality(failed) >= Limit - 1
    BY <1>2, <2>1, LeakedUpToLimit DEF OutOfDescriptors, Full, IndInv, FinitelyMany
  <2>3. QED
    BY <1>2, <2>2, ExitKeeps DEF OutOfDescriptors, IndInv, TypeOK
<1>3. QED
  BY <1>1, <1>2

\* Steps that neither move a connection nor open or close a descriptor:
\* the start, and sigreap.
LEMMA QuietSteps ==
  ASSUME IndInv, Start \/ Interrupt \/ Wait \/ Return
  PROVE  IndInv'
<1> USE DEF Start, Interrupt, Wait, Return, At, parent, kids, past
<1>1. /\ UNCHANGED <<queue, client, server, fds, live, past, faults>>
      /\ pc' = pc \/ (pc = "start" /\ pc' = "accept")
  OBVIOUS
<1>2. TypeOK'
  BY <1>1 DEF IndInv, TypeOK
<1>3. BusyWithOne' /\ OnePlace'
  BY <1>1 DEF IndInv, BusyWithOne, Busy, OnePlace
<1>4. MayHold'
  BY <1>1 DEF IndInv, MayHold, Busy, Leaked
<1>5. FinitelyMany' /\ ExitHasReason'
  BY <1>1 DEF IndInv, FinitelyMany, ExitHasReason
<1>6. QED
  BY <1>2, <1>3, <1>4, <1>5 DEF IndInv

\* A connection that is queued is in no other place.
LEMMA ConnectStep ==
  ASSUME IndInv, NEW c \in Conns, Connect(c)
  PROVE  IndInv'
<1> USE DEF Connect, parent, kids, past
<1>1. /\ queue \in Seq(Conns) /\ queue' \in Seq(Conns)
      /\ Len(queue) \in Nat /\ Len(queue') = Len(queue) + 1
      /\ \A i \in 1..Len(queue) : queue'[i] = queue[i]
      /\ queue'[Len(queue) + 1] = c
  BY AppendProperties, LenProperties DEF IndInv, TypeOK
<1>2. TypeOK'
  BY <1>1 DEF IndInv, TypeOK
<1>3. OnePlace'
  <2>1. /\ c \notin forked \cup failed /\ c # client
        /\ \A i \in 1..Len(queue) : queue[i] # c
    BY DEF Known, Queued
  <2>2. \A i \in 1..Len(queue') : i \in 1..Len(queue) \/ i = Len(queue) + 1
    BY <1>1
  <2>3. forked \cap failed = {}
        /\ (pc \in {"create_proxy", "fork"} => client \notin forked \cup failed)
    BY DEF IndInv, OnePlace
  <2>4. ASSUME NEW i \in 1..Len(queue')
        PROVE  queue'[i] \notin forked \cup failed /\ queue'[i] # client
    BY <1>1, <2>1, <2>2 DEF IndInv, OnePlace
  <2>5. ASSUME NEW i \in 1..Len(queue'), NEW j \in 1..Len(queue'),
               queue'[i] = queue'[j]
        PROVE  i = j
    BY <1>1, <2>1, <2>2, <2>5 DEF IndInv, OnePlace
  <2>6. QED
    BY <2>3, <2>4, <2>5 DEF OnePlace
<1>4. BusyWithOne' /\ MayHold' /\ FinitelyMany' /\ ExitHasReason'
  BY DEF IndInv, BusyWithOne, Busy, MayHold, Leaked, FinitelyMany, ExitHasReason
<1>5. QED
  BY <1>2, <1>3, <1>4 DEF IndInv

\* An accepted connection leaves the queue, and its descriptor finds room.
LEMMA AcceptStep ==
  ASSUME IndInv, Accept
  PROVE  IndInv'
<1> USE DEF Accept, At, kids, past
<1>1. /\ queue' \in Seq(Conns) /\ client' \in Conns /\ client' = queue[1]
      /\ Len(queue) \in Nat \ {0} /\ Len(queue') = Len(queue) - 1
      /\ \A i \in 1..Len(queue') : queue'[i] = queue[i + 1]
  BY HeadTailProperties, EmptySeq DEF IndInv, TypeOK
<1>2. /\ fds' \in [Procs -> SUBSET Descriptors]
      /\ fds'[Parent] = fds[Parent] \cup {Client(client')}
      /\ \A c \in Conns : fds'[c] = fds[c]
  BY <1>1, NamesAssumption DEF IndInv, TypeOK, Procs, Descriptors, Client
<1>3. IsFiniteSet(fds'[Parent]) /\ Cardinality(fds'[Parent]) <= Limit
  <2>1. IsFiniteSet(fds[Parent]) /\ ~(Cardinality(fds[Parent]) >= Limit)
    BY DEF Full, IndInv, FinitelyMany
  <2>2. QED
    BY ONLY <1>2, <2>1, AddOne
<1>4. TypeOK'
  BY <1>1, <1>2, <1>3 DEF IndInv, TypeOK
<1>5. BusyWithOne'
  BY <1>1 DEF BusyWithOne, Busy
<1>6. OnePlace'
  <2>1. 1 \in 1..Len(queue)
        /\ \A i \in 1..Len(queue') : i + 1 \in 1..Len(queue) /\ i + 1 # 1
    BY <1>1
  <2>2. forked \cap failed = {} /\ queue[1] \notin forked \cup failed
    BY <2>1 DEF IndInv, OnePlace
  <2>3. ASSUME NEW i \in 1..Len(queue')
        PROVE  queue'[i] \notin forked \cup failed /\ queue'[i] # client'
    BY <1>1, <2>1 DEF IndInv, OnePlace
  <2>4. ASSUME NEW i \in 1..Len(queue'), NEW j \in 1..Len(queue'),
               queue'[i] = queue'[j]
        PROVE  i = j
    <3>1. i + 1 = j + 1
      BY <1>1, <2>1, <2>4 DEF IndInv, OnePlace
    <3>2. QED
      BY <3>1
  <2>5. QED
    BY <1>1, <2>2, <2>3, <2>4 DEF OnePlace
<1>7. MayHold'
  BY <1>1, <1>2 DEF IndInv, MayHold, Busy, Leaked
<1>8. FinitelyMany' /\ ExitHasReason'
  BY <1>3 DEF IndInv, FinitelyMany, ExitHasReason
<1>9. QED
  BY <1>4, <1>5, <1>6, <1>7, <1>8 DEF IndInv

\* The descriptor of the server finds room too.
LEMMA ConnectedStep ==
  ASSUME IndInv, Connected
  PROVE  IndInv'
<1> USE DEF Connected, At, kids, past
<1>1. client \in Conns /\ client # None
  BY NamesAssumption DEF IndInv, BusyWithOne, Busy
<1>2. /\ fds' \in [Procs -> SUBSET Descriptors]
      /\ fds'[Parent] = fds[Parent] \cup {Server(client)}
      /\ \A c \in Conns : fds'[c] = fds[c]
  BY <1>1, NamesAssumption DEF IndInv, TypeOK, Procs, Descriptors, Server
<1>3. IsFiniteSet(fds'[Parent]) /\ Cardinality(fds'[Parent]) <= Limit
  <2>1. IsFiniteSet(fds[Parent]) /\ ~(Cardinality(fds[Parent]) >= Limit)
    BY DEF Full, IndInv, FinitelyMany
  <2>2. /\ IsFiniteSet(fds[Parent] \cup {Server(client)})
        /\ Cardinality(fds[Parent] \cup {Server(client)}) <= Limit
    BY ONLY <2>1, AddOne
  <2>3. QED
    BY ONLY <1>2, <2>2
<1>4. TypeOK'
  BY <1>1, <1>2, <1>3 DEF IndInv, TypeOK, Descriptors, Server
<1>5. BusyWithOne' /\ OnePlace'
  BY <1>1 DEF IndInv, BusyWithOne, Busy, OnePlace
<1>6. MayHold'
  BY <1>2 DEF IndInv, MayHold, Busy, Leaked
<1>7. FinitelyMany' /\ ExitHasReason'
  BY <1>3 DEF IndInv, FinitelyMany, ExitHasReason
<1>8. QED
  BY <1>4, <1>5, <1>6, <1>7 DEF IndInv

\* A client whose server cannot be reached becomes a leaked one.
LEMMA NotConnectedStep ==
  ASSUME IndInv, NotConnected
  PROVE  IndInv'
<1> USE DEF NotConnected, At, kids, past
<1>1. client \in Conns /\ client \notin forked \cup failed
  BY DEF IndInv, BusyWithOne, Busy, OnePlace
<1>2. IsFiniteSet(failed') /\ Cardinality(failed') >= Cardinality(failed)
  <2>1. IsFiniteSet(failed) /\ Cardinality(failed) \in Nat
    BY FS_CardinalityType DEF IndInv, FinitelyMany
  <2>2. /\ IsFiniteSet(failed \cup {client})
        /\ Cardinality(failed \cup {client})
             \in {Cardinality(failed), Cardinality(failed) + 1}
    BY ONLY <2>1, FS_AddElement
  <2>3. QED
    BY <2>1, <2>2
<1>3. TypeOK'
  BY <1>1 DEF IndInv, TypeOK
<1>4. BusyWithOne'
  BY DEF BusyWithOne, Busy
<1>5. OnePlace'
  <2>1. \A i \in 1..Len(queue) : queue[i] # client /\ queue[i] # None
    BY ElementOfSeq, NamesAssumption DEF IndInv, OnePlace, TypeOK
  <2>2. QED
    BY <1>1, <2>1 DEF IndInv, OnePlace
<1>6. MayHold'
  BY DEF IndInv, MayHold, Busy, Leaked
<1>7. FinitelyMany' /\ ExitHasReason'
  BY <1>2 DEF IndInv, FinitelyMany, ExitHasReason
<1>8. QED
  BY <1>3, <1>4, <1>5, <1>6, <1>7 DEF IndInv

\* Stdin taken for the server is a descriptor the parent has already.
LEMMA NoDestinationStep ==
  ASSUME IndInv, NoDestination
  PROVE  IndInv'
<1> USE DEF NoDestination, Fails, At, kids, past
<1>1. TypeOK'
  BY DEF IndInv, TypeOK, Descriptors
<1>2. BusyWithOne' /\ OnePlace'
  BY DEF IndInv, BusyWithOne, Busy, OnePlace
<1>3. MayHold'
  BY DEF IndInv, MayHold, Busy, Leaked
<1>4. FinitelyMany' /\ ExitHasReason'
  BY DEF IndInv, FinitelyMany, ExitHasReason
<1>5. QED
  BY <1>1, <1>2, <1>3, <1>4 DEF IndInv

\* The child starts with what the parent holds, which is what it may hold.
LEMMA ForkStep ==
  ASSUME IndInv, Fork
  PROVE  IndInv'
<1> USE DEF Fork, At
<1>1. client \in Conns /\ client # Parent /\ client \notin forked \cup failed
  BY NamesAssumption DEF IndInv, BusyWithOne, Busy, OnePlace
<1>2. /\ fds' \in [Procs -> SUBSET Descriptors]
      /\ fds'[Parent] = fds[Parent] /\ fds'[client] = fds[Parent]
      /\ \A c \in Conns \ {client} : fds'[c] = fds[c]
  BY <1>1, NamesAssumption DEF IndInv, TypeOK, Procs
<1>3. TypeOK'
  BY <1>1, <1>2 DEF IndInv, TypeOK
<1>4. BusyWithOne'
  BY <1>1 DEF IndInv, BusyWithOne, Busy
<1>5. OnePlace'
  BY <1>1 DEF IndInv, OnePlace
<1>6. MayHold'
  <2>1. server \in {Stdin, Server(client)}
    BY DEF IndInv, BusyWithOne
  <2>2. fds[Parent] \subseteq {Stdin} \cup Leaked \cup {Client(client), server}
    BY DEF IndInv, MayHold, Busy
  <2>3. fds'[client] \subseteq {Stdin, Client(client), Server(client)} \cup Leaked
    BY <1>2, <2>1, <2>2
  <2>4. QED
    BY <1>2, <2>2, <2>3 DEF IndInv, MayHold, Busy, Leaked
<1>7. FinitelyMany' /\ ExitHasReason'
  BY <1>2 DEF IndInv, FinitelyMany, ExitHasReason
<1>8. QED
  BY <1>3, <1>4, <1>5, <1>6, <1>7 DEF IndInv

\* Without a child the connection fails.
LEMMA ForkFailsStep ==
  ASSUME IndInv, ForkFails
  PROVE  IndInv'
<1> USE DEF ForkFails, Fails, At, kids
<1>1. client \in Conns /\ client \notin forked \cup failed
  BY DEF IndInv, BusyWithOne, Busy, OnePlace
<1>2. IsFiniteSet(failed')
  BY FS_AddElement DEF IndInv, FinitelyMany
<1>3. TypeOK'
  BY <1>1 DEF IndInv, TypeOK
<1>4. BusyWithOne'
  BY <1>1 DEF IndInv, BusyWithOne, Busy
<1>5. OnePlace'
  BY <1>1 DEF IndInv, OnePlace
<1>6. MayHold'
  BY DEF IndInv, MayHold, Busy, Leaked
<1>7. FinitelyMany' /\ ExitHasReason'
  BY <1>2 DEF IndInv, FinitelyMany, ExitHasReason
<1>8. QED
  BY <1>3, <1>4, <1>5, <1>6, <1>7 DEF IndInv

\* After the parent closed both ends only leaked clients are left.
LEMMA CloseStep ==
  ASSUME IndInv, Close
  PROVE  IndInv'
<1> USE DEF Close, Closed, At, kids, past
<1>1. /\ fds' \in [Procs -> SUBSET Descriptors]
      /\ fds'[Parent] = fds[Parent] \ {Client(client), server}
      /\ \A c \in Conns : fds'[c] = fds[c]
  BY NamesAssumption DEF IndInv, TypeOK, Procs
<1>2. IsFiniteSet(fds'[Parent]) /\ Cardinality(fds'[Parent]) <= Limit
  <2>1. IsFiniteSet(fds[Parent]) /\ Cardinality(fds[Parent]) <= Limit
    BY DEF IndInv, FinitelyMany, TypeOK
  <2>2. fds'[Parent] \in SUBSET fds[Parent]
    BY <1>1
  <2>3. QED
    BY ONLY <2>1, <2>2, TakeAway
<1>3. TypeOK'
  BY <1>1, <1>2 DEF IndInv, TypeOK
<1>4. BusyWithOne'
  BY DEF BusyWithOne, Busy
<1>5. OnePlace'
  <2>1. \A i \in 1..Len(queue) : queue[i] # None
    BY ElementOfSeq, NamesAssumption DEF IndInv, TypeOK
  <2>2. QED
    BY <2>1 DEF IndInv, OnePlace
<1>6. MayHold'
  BY <1>1 DEF IndInv, MayHold, Busy, Leaked
<1>7. FinitelyMany' /\ ExitHasReason'
  BY <1>2 DEF IndInv, FinitelyMany, ExitHasReason
<1>8. QED
  BY <1>3, <1>4, <1>5, <1>6, <1>7 DEF IndInv

\* A child that ends holds nothing any more; the last process that ends takes
\* the listening socket and its queue with it.
LEMMA ChildExitsStep ==
  ASSUME IndInv, NEW c \in Conns, ChildExits(c)
  PROVE  IndInv'
<1> USE DEF ChildExits, parent, past
<1>1. /\ fds' \in [Procs -> SUBSET Descriptors]
      /\ fds'[Parent] = fds[Parent] /\ fds'[c] = {}
      /\ \A d \in Conns \ {c} : fds'[d] = fds[d]
  BY NamesAssumption DEF IndInv, TypeOK, Procs
<1>2. queue' = <<>> \/ queue' = queue
  OBVIOUS
<1>3. TypeOK'
  <2>1. queue' \in Seq(Conns)
    BY <1>2, EmptySeq DEF IndInv, TypeOK
  <2>2. zombies' \subseteq Conns /\ sigchld' \in BOOLEAN
    BY DEF IndInv, TypeOK
  <2>3. QED
    BY <1>1, <2>1, <2>2 DEF IndInv, TypeOK
<1>4. BusyWithOne'
  BY DEF IndInv, BusyWithOne, Busy
<1>5. OnePlace'
  <2>1. CASE queue' = <<>>
    BY <2>1 DEF IndInv, OnePlace
  <2>2. CASE queue' = queue
    BY <2>2 DEF IndInv, OnePlace
  <2>3. QED
    BY <1>2, <2>1, <2>2
<1>6. MayHold'
  BY <1>1 DEF IndInv, MayHold, Busy, Leaked
<1>7. FinitelyMany' /\ ExitHasReason'
  BY <1>1 DEF IndInv, FinitelyMany, ExitHasReason
<1>8. QED
  BY <1>3, <1>4, <1>5, <1>6, <1>7 DEF IndInv

-----------------------------------------------------------------------------
(* The theorems.                                                           *)

\* The inductive invariant holds of every state of main of tcproxy.cpp.
THEOREM Invariance == Spec => []IndInv
<1>1. Init => IndInv
  <2> SUFFICES ASSUME Init PROVE IndInv
    OBVIOUS
  <2> USE DEF Init
  <2>1. fds[Parent] = {Stdin} /\ \A c \in Conns : fds[c] = {}
    BY NamesAssumption DEF Procs
  <2>2. IsFiniteSet(fds[Parent]) /\ Cardinality(fds[Parent]) = 1
    BY <2>1, FS_Singleton
  <2>3. fds \in [Procs -> SUBSET Descriptors] /\ queue \in Seq(Conns)
    BY EmptySeq DEF Descriptors
  <2>4. TypeOK
    <3>1. Cardinality(fds[Parent]) <= Limit
      BY ONLY <2>2, LimitAssumption
    <3>2. QED
      BY <2>3, <3>1 DEF TypeOK
  <2>5. BusyWithOne /\ OnePlace
    BY EmptySeq DEF BusyWithOne, Busy, OnePlace
  <2>6. MayHold
    BY <2>1 DEF MayHold, Busy
  <2>7. FinitelyMany /\ ExitHasReason
    BY <2>2, FS_EmptySet DEF FinitelyMany, ExitHasReason
  <2>8. QED
    BY <2>4, <2>5, <2>6, <2>7 DEF IndInv
<1>2. IndInv /\ [Next]_vars => IndInv'
  <2> SUFFICES ASSUME IndInv, [Next]_vars PROVE IndInv'
    OBVIOUS
  <2>1. CASE Start \/ Interrupt \/ Wait \/ Return
    BY <2>1, QuietSteps
  <2>2. CASE StartFails \/ AcceptFails \/ OutOfDescriptors
    BY <2>2, ExitStep
  <2>3. CASE Accept
    BY <2>3, AcceptStep
  <2>4. CASE Connected
    BY <2>4, ConnectedStep
  <2>5. CASE NotConnected
    BY <2>5, NotConnectedStep
  <2>6. CASE NoDestination
    BY <2>6, NoDestinationStep
  <2>7. CASE Fork
    BY <2>7, ForkStep
  <2>8. CASE ForkFails
    BY <2>8, ForkFailsStep
  <2>9. CASE Close
    BY <2>9, CloseStep
  <2>10. ASSUME NEW c \in Conns, Connect(c) PROVE IndInv'
    BY <2>10, ConnectStep
  <2>11. ASSUME NEW c \in Conns, ChildExits(c) PROVE IndInv'
    BY <2>11, ChildExitsStep
  <2>12. CASE UNCHANGED vars
    BY <2>12 DEF vars, parent, kids, past, IndInv, TypeOK, BusyWithOne, Busy,
         OnePlace, MayHold, Leaked, FinitelyMany, ExitHasReason
  <2>13. QED
    BY <2>1, <2>2, <2>3, <2>4, <2>5, <2>6, <2>7, <2>8, <2>9, <2>10, <2>11,
       <2>12 DEF Next, Step, Fault
<1>3. QED
  BY <1>1, <1>2, PTL DEF Spec

\* Every variable has its type and the parent keeps to the limit.
THEOREM TypeCorrect == Spec => []TypeOK
<1>1. IndInv => TypeOK
  BY DEF IndInv
<1>2. QED
  BY <1>1, Invariance, PTL

\* A connection that has a child is held by that child alone, but for the
\* moment in which the parent closes it: no child inherits the connection of
\* another, so both peers see the end of theirs as soon as its child exits.
THEOREM OwnChildHolds == Spec => []HeldByOwnChild
<1>1. IndInv => HeldByOwnChild
  <2> SUFFICES ASSUME IndInv, NEW c \in forked, NEW p \in Procs,
                      Client(c) \in fds[p] \/ Server(c) \in fds[p]
               PROVE  p = c \/ (p = Parent /\ pc = "close" /\ client = c)
    BY DEF HeldByOwnChild
  <2>1. /\ Client(c) # Stdin /\ Server(c) # Stdin
        /\ Client(c) \notin Leaked /\ Server(c) \notin Leaked
    BY DEF IndInv, OnePlace, Leaked, Client, Server, Stdin
  <2>2. \A d : /\ Client(c) = Client(d) => c = d
               /\ Server(c) = Server(d) => c = d
               /\ Client(c) # Server(d) /\ Server(c) # Client(d)
    BY DEF Client, Server
  <2>3. CASE p = Parent
    <3>1. Busy /\ client = c
      BY <2>1, <2>2, <2>3 DEF IndInv, MayHold, BusyWithOne, Busy
    <3>2. QED
      BY <2>3, <3>1 DEF IndInv, OnePlace, Busy
  <2>4. CASE p \in Conns
    BY <2>1, <2>2, <2>4 DEF IndInv, MayHold
  <2>5. QED
    BY <2>3, <2>4 DEF Procs
<1>2. QED
  BY <1>1, Invariance, PTL

\* Between two connections the parent holds nothing but stdin and the clients
\* of connections that failed.
THEOREM OnlyFailedKept == Spec => []KeepsFailedOnly
<1>1. IndInv => KeepsFailedOnly
  BY DEF IndInv, MayHold, Busy, Leaked, KeepsFailedOnly
<1>2. QED
  BY <1>1, Invariance, PTL

\* The parent exits after a fault, or when failed connections have used up
\* its descriptors; served ones, however many, never make it exit.
THEOREM NoOtherExit == Spec => []ExitHasReason
<1>1. IndInv => ExitHasReason
  BY DEF IndInv
<1>2. QED
  BY <1>1, Invariance, PTL

=============================================================================
