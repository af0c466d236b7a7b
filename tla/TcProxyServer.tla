---------------------------- MODULE TcProxyServer ----------------------------
(***************************************************************************)
(* main of tcproxy.cpp: the parent process, which accepts the redirected   *)
(* connections one after the other, connects each to where it was going    *)
(* and forks a child to serve it, and the descriptors that the parent and  *)
(* its children hold.                                                      *)
(*                                                                         *)
(* The parent has one thread.  The SIGCHLD handler runs between two of its *)
(* calls, and nothing else of the parent runs meanwhile; calls that it     *)
(* interrupts are restarted (signal() of bionic asks for SA_RESTART).  A   *)
(* child is TcProxyPump; here it only ends some time.                      *)
(***************************************************************************)
EXTENDS Naturals, Sequences, FiniteSets

CONSTANTS
  Conns,       \* the connections that are redirected
  Parent,      \* the parent process; a child is named after its connection
  None,        \* no descriptor
  Limit,       \* descriptors the parent may hold, beside logs and listener
  MaxFaults    \* bound: calls that fail for no reason of the program

ASSUME NamesAssumption == Parent \notin Conns /\ None \notin Conns
ASSUME LimitAssumption == Limit \in Nat \ {0}

Procs  == {Parent} \cup Conns
Client(c) == <<c, "client">>
Server(c) == <<c, "server">>
Stdin  == <<Parent, "stdin">>
Descriptors == (Conns \X {"client", "server"}) \cup {Stdin}

VARIABLES
  queue,       \* connections of the listening socket that are not accepted
  \* the parent
  pc,          \* its next call
  client,      \* the connection it is busy with, None in between
  server,      \* the descriptor create_proxy returned
  handler,     \* sigreap is running
  \* all processes
  fds,         \* process |-> its descriptors
  live,        \* children that run
  zombies,     \* children that ended and were not waited for
  sigchld,     \* SIGCHLD is pending
  \* what has happened
  forked,      \* connections that were given a child
  failed,      \* connections whose server could not be reached
  faults

parent == <<pc, client, server>>
kids   == <<live, zombies, sigchld>>
past   == <<forked, failed>>
vars   == <<queue, parent, handler, fds, kids, past, faults>>

\* The type of every variable; the parent never holds more descriptors than
\* it may.
TypeOK ==
  /\ queue \in Seq(Conns)
  /\ pc \in {"start", "accept", "create_proxy", "fork", "close", "exited"}
  /\ client \in Conns \cup {None} /\ server \in Descriptors \cup {None}
  /\ handler \in BOOLEAN
  /\ fds \in [Procs -> SUBSET Descriptors]
  /\ Cardinality(fds[Parent]) <= Limit
  /\ live \subseteq Conns /\ zombies \subseteq Conns /\ sigchld \in BOOLEAN
  /\ forked \subseteq Conns /\ failed \subseteq Conns /\ faults \in Nat

Init ==
  /\ queue = <<>>
  /\ pc = "start" /\ client = None /\ server = None /\ handler = FALSE
  /\ fds = [p \in Procs |-> IF p = Parent THEN {Stdin} ELSE {}]
  /\ live = {} /\ zombies = {} /\ sigchld = FALSE
  /\ forked = {} /\ failed = {} /\ faults = 0

Fails == faults < MaxFaults /\ faults' = faults + 1

\* The parent is about to make call p.
At(p) == pc = p /\ ~handler

Queued(c)  == \E i \in 1..Len(queue) : queue[i] = c
Known(c)   == Queued(c) \/ client = c \/ c \in forked \cup failed
Full == Cardinality(fds[Parent]) >= Limit

\* The listening socket lives as long as the parent or a child, which inherits
\* it.
Listening == pc \notin {"start", "exited"} \/ live # {}

-----------------------------------------------------------------------------
(* The connections.                                                        *)

Connect(c) ==
  /\ Listening /\ ~Known(c)
  /\ queue' = Append(queue, c)
  /\ UNCHANGED <<parent, handler, fds, kids, past, faults>>

\* The child of connection c has nothing left to do; see TcProxyPump.
ChildExits(c) ==
  /\ c \in live
  /\ live' = live \ {c} /\ fds' = [fds EXCEPT ![c] = {}]
  /\ IF pc = "exited"
     THEN /\ UNCHANGED <<zombies, sigchld>>
          /\ queue' = IF live' = {} THEN <<>> ELSE queue
     ELSE /\ zombies' = zombies \cup {c} /\ sigchld' = TRUE
          /\ UNCHANGED queue
  /\ UNCHANGED <<parent, handler, past, faults>>

-----------------------------------------------------------------------------
(* The parent.                                                             *)

\* exit.  init takes over what is left of the children.
Exit ==
  /\ pc' = "exited" /\ client' = None /\ server' = None
  /\ fds' = [fds EXCEPT ![Parent] = {}]
  /\ zombies' = {} /\ sigchld' = FALSE
  /\ queue' = IF live = {} THEN <<>> ELSE queue
  /\ UNCHANGED <<handler, live, past>>

\* Options, the log, and create_server_sock.
Start ==
  /\ At("start") /\ pc' = "accept"
  /\ UNCHANGED <<queue, client, server, handler, fds, kids, past, faults>>

StartFails == At("start") /\ Fails /\ Exit

Accept ==
  /\ At("accept") /\ queue # <<>> /\ ~Full
  /\ client' = Head(queue) /\ queue' = Tail(queue)
  /\ fds' = [fds EXCEPT ![Parent] = @ \cup {Client(Head(queue))}]
  /\ pc' = "create_proxy"
  /\ UNCHANGED <<server, handler, kids, past, faults>>

\* set_nonblock is given the -1 of an accept that failed, and exits.
AcceptFails == At("accept") /\ Fails /\ Exit

\* Mistake: the -1 goes on to create_proxy.
AcceptUnchecked ==
  /\ At("accept") /\ Full /\ pc' = "create_proxy"
  /\ UNCHANGED <<queue, client, server, handler, fds, kids, past, faults>>

\* Without a descriptor accept fails at once.
OutOfDescriptors == At("accept") /\ Full /\ Exit /\ UNCHANGED faults

\* connect, which the parent waits for.
Connected ==
  /\ At("create_proxy") /\ ~Full
  /\ fds' = [fds EXCEPT ![Parent] = @ \cup {Server(client)}]
  /\ server' = Server(client) /\ pc' = "fork"
  /\ UNCHANGED <<queue, client, handler, kids, past, faults>>

\* Neither a socket nor a server: continue.
NotConnected ==
  /\ At("create_proxy")
  /\ failed' = failed \cup {client}
  /\ client' = None /\ pc' = "accept"
  /\ UNCHANGED <<queue, server, handler, fds, kids, forked, faults>>

\* getsockopt fails and create_proxy answers 0, which is the descriptor of
\* stdin.  (Once stdin is closed 0 is some other descriptor: left out.)
NoDestination ==
  /\ At("create_proxy") /\ Fails /\ Stdin \in fds[Parent]
  /\ server' = Stdin /\ pc' = "fork"
  /\ UNCHANGED <<queue, client, handler, fds, kids, past>>

\* The child has all that the parent has.
Fork ==
  /\ At("fork") /\ pc' = "close"
  /\ live' = live \cup {client} /\ forked' = forked \cup {client}
  /\ fds' = [fds EXCEPT ![client] = fds[Parent]]
  /\ UNCHANGED <<queue, client, server, handler, zombies, sigchld, failed, faults>>

\* fork answers -1, which is taken for a pid.
ForkFails ==
  /\ At("fork") /\ Fails /\ pc' = "close"
  /\ failed' = failed \cup {client}
  /\ UNCHANGED <<queue, client, server, handler, fds, kids, forked>>

\* Mistake: the server is left open.
ServerKept == fds[Parent] \ {Client(client)}

\* Mistake: the client is left open.
ClientKept == fds[Parent] \ {server}

Closed == fds[Parent] \ {Client(client), server}

Close ==
  /\ At("close") /\ pc' = "accept"
  /\ fds' = [fds EXCEPT ![Parent] = Closed]
  /\ client' = None /\ server' = None
  /\ UNCHANGED <<queue, handler, kids, past, faults>>

-----------------------------------------------------------------------------
(* sigreap.                                                                *)

Interrupt ==
  /\ pc # "exited" /\ sigchld /\ ~handler
  /\ sigchld' = FALSE /\ handler' = TRUE
  /\ UNCHANGED <<queue, parent, fds, live, zombies, past, faults>>

\* Mistake: one child is waited for.
WaitOnce ==
  /\ handler /\ zombies # {}
  /\ \E c \in zombies : zombies' = zombies \ {c}
  /\ handler' = FALSE
  /\ UNCHANGED <<queue, parent, fds, live, sigchld, past, faults>>

\* waitpid finds a child.
Wait ==
  /\ handler /\ zombies # {}
  /\ \E c \in zombies : zombies' = zombies \ {c}
  /\ UNCHANGED <<queue, parent, handler, fds, live, sigchld, past, faults>>

\* Mistake: the 0 of a child that still runs is taken for one that ended.
ReturnLate ==
  /\ handler /\ zombies = {} /\ live = {}
  /\ handler' = FALSE
  /\ UNCHANGED <<queue, parent, fds, kids, past, faults>>

\* waitpid finds none.  A signal that came meanwhile is still pending.
Return ==
  /\ handler /\ zombies = {}
  /\ handler' = FALSE
  /\ UNCHANGED <<queue, parent, fds, kids, past, faults>>

-----------------------------------------------------------------------------
Fault == StartFails \/ AcceptFails \/ NoDestination \/ ForkFails

Step == \/ Start \/ Accept \/ OutOfDescriptors \/ Connected \/ NotConnected
        \/ Fork \/ Close \/ Interrupt \/ Wait \/ Return

Next == Step \/ Fault \/ \E c \in Conns : Connect(c) \/ ChildExits(c)

Spec == Init /\ [][Next]_vars

\* The parent is scheduled, and a connect ends some time: at the latest, TCP
\* gives it up.  No child has to end and no call to fail.
FairSpec == Spec /\ WF_vars(Step)

-----------------------------------------------------------------------------
(* Properties.                                                             *)

\* Once a connection has a child, that child alone holds it, but for the
\* moment until the parent closes it: when the child ends, both its ends see
\* it closed, whatever was forked before or after.
HeldByOwnChild ==
  \A c \in forked : \A p \in Procs :
    Client(c) \in fds[p] \/ Server(c) \in fds[p] =>
      p = c \/ (p = Parent /\ pc = "close" /\ client = c)

\* What the parent keeps between two connections is what it leaks: the
\* clients whose server could not be reached.
KeepsFailedOnly ==
  pc = "accept" =>
    fds[Parent] \subseteq {Stdin} \cup {Client(c) : c \in failed}

\* No number of connections that are served, and no ending child, makes the
\* parent exit: it takes a fault, or unreachable servers up to the limit.
ExitHasReason ==
  pc = "exited" => faults > 0 \/ Cardinality(failed) >= Limit - 1

\* A connection that was queued is dealt with as long as the parent runs,
\* however slow the servers of those before it are.
Answered ==
  \A c \in Conns :
    Queued(c) ~> (c \in forked \cup failed \/ pc = "exited")

\* Children that end at the same time, in the handler or around it, are all
\* waited for.
ZombiesReaped ==
  \A c \in Conns : c \in zombies ~> c \notin zombies
=============================================================================
