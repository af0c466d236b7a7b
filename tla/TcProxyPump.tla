---------------------------- MODULE TcProxyPump -----------------------------
(***************************************************************************)
(* service_client of tcproxy.cpp: the child process that serves one        *)
(* redirected connection.  It shovels bytes between the client and the     *)
(* server through one buffer for each direction, without ever blocking in  *)
(* a write, and logs what it wrote.                                        *)
(*                                                                         *)
(* The bytes of a direction are numbered from 1 in the order they are      *)
(* sent; 0 is what an uninitialised buffer holds.  A loop of the program   *)
(* is: write C>S, write S>C, select, read C>S, read S>C.                   *)
(***************************************************************************)
EXTENDS Naturals, Sequences

CONSTANTS
  BufSize,     \* BUF_SIZE
  MaxSent,     \* bound: direction |-> bytes sent
  MaxBlocks,   \* bound: writes that would block, selects that are interrupted
  MaxFaults    \* bound: failures of select

ASSUME BufSizeAssumption == BufSize \in Nat \ {0}

Dirs == {"C>S", "S>C"}
Ends == {"client", "server"}
Source(d) == IF d = "C>S" THEN "client" ELSE "server"
Target(d) == IF d = "C>S" THEN "server" ELSE "client"

VARIABLES
  \* the two ends of the connection and the sockets between
  sent,        \* direction |-> bytes its source has sent
  end,         \* end |-> it is open, sends no more (half), or is closed
  stalled,     \* directions whose target has stopped to receive for good
  \* the process
  pc, dir,     \* its next call, and the direction of that call
  ready,       \* the sources that select found readable
  buf, off,    \* direction |-> cbuf or sbuf, and cbo or sbo
  got,         \* direction |-> bytes read
  out,         \* direction |-> the bytes written to the target
  log,         \* direction |-> the bytes written to the log
  \* counters of the environment
  blocks, faults

peers == <<sent, end, stalled>>
data  == <<buf, off, got, out, log>>
vars  == <<peers, pc, dir, ready, data, blocks, faults>>

Index == 0..(BufSize - 1)

\* The type of every variable: in particular no buffer is ever overrun.
TypeOK ==
  /\ sent \in [Dirs -> Nat] /\ end \in [Ends -> {"open", "half", "closed"}]
  /\ stalled \subseteq Dirs
  /\ pc \in {"write", "select", "read", "exited"} /\ dir \in Dirs
  /\ ready \subseteq Dirs
  /\ buf \in [Dirs -> [Index -> Nat]] /\ off \in [Dirs -> 0..BufSize]
  /\ got \in [Dirs -> Nat]
  /\ out \in [Dirs -> Seq(Nat)] /\ log \in [Dirs -> Seq(Nat)]
  /\ blocks \in Nat /\ faults \in Nat

Init ==
  /\ sent = [d \in Dirs |-> 0] /\ end = [e \in Ends |-> "open"]
  /\ stalled = {}
  /\ pc = "write" /\ dir = "C>S" /\ ready = {}
  /\ buf = [d \in Dirs |-> [i \in Index |-> 0]] /\ off = [d \in Dirs |-> 0]
  /\ got = [d \in Dirs |-> 0]
  /\ out = [d \in Dirs |-> <<>>] /\ log = [d \in Dirs |-> <<>>]
  /\ blocks = 0 /\ faults = 0

-----------------------------------------------------------------------------
(* The two ends.                                                           *)

Send(d) ==
  /\ end[Source(d)] = "open" /\ sent[d] < MaxSent[d]
  /\ sent' = [sent EXCEPT ![d] = @ + 1]
  /\ UNCHANGED <<end, stalled, pc, dir, ready, data, blocks, faults>>

\* An end sends no more, but still receives.
Shutdown(e) ==
  /\ end[e] = "open"
  /\ end' = [end EXCEPT ![e] = "half"]
  /\ UNCHANGED <<sent, stalled, pc, dir, ready, data, blocks, faults>>

\* An end is gone.  What it has sent may be lost with it.
Close(e) ==
  /\ end[e] # "closed"
  /\ end' = [end EXCEPT ![e] = "closed"]
  /\ UNCHANGED <<sent, stalled, pc, dir, ready, data, blocks, faults>>

Stall(d) ==
  /\ d \notin stalled
  /\ stalled' = stalled \cup {d}
  /\ UNCHANGED <<sent, end, pc, dir, ready, data, blocks, faults>>

-----------------------------------------------------------------------------
(* socket_write.                                                           *)

\* The same call for the other direction, or on to the calls of p.
Turn(p) ==
  IF dir = "C>S" THEN dir' = "S>C" /\ UNCHANGED pc ELSE dir' = "C>S" /\ pc' = p

Exit == pc' = "exited" /\ UNCHANGED dir

\* A write that would block or a select that is interrupted, as often as the
\* bound allows.
Hindered == blocks < MaxBlocks /\ blocks' = blocks + 1

\* The first n bytes of a buffer.
Chunk(b, n) == [i \in 1..n |-> b[i - 1]]

\* Mistake: the rest is not moved to the front.
Unmoved(b, n, len) == b

\* memmove of the bytes of b that were not written, n of len.
Moved(b, n, len) ==
  [i \in Index |-> IF i < len - n THEN b[i + n] ELSE b[i]]

\* Mistake: what is logged is read after the buffer was moved.
LoggedLate(b, n, len) == Chunk(Moved(b, n, len), n)

\* write_hex logs the bytes that were written.
Logged(b, n, len) == Chunk(b, n)

NothingToWrite ==
  /\ pc = "write" /\ off[dir] = 0
  /\ Turn("select")
  /\ UNCHANGED <<peers, ready, data, blocks, faults>>

\* write takes some of the bytes, and they are logged.
WriteSome ==
  /\ pc = "write" /\ dir \notin stalled
  /\ \E n \in 1..off[dir] :
       /\ out' = [out EXCEPT ![dir] = @ \o Chunk(buf[dir], n)]
       /\ log' = [log EXCEPT ![dir] = @ \o Logged(buf[dir], n, off[dir])]
       /\ buf' = [buf EXCEPT ![dir] = Moved(@, n, off[dir])]
       /\ off' = [off EXCEPT ![dir] = @ - n]
  /\ Turn("select")
  /\ UNCHANGED <<peers, ready, got, blocks, faults>>

\* EWOULDBLOCK: the bytes stay for the next loop.
WriteBlocks ==
  /\ pc = "write" /\ off[dir] > 0
  /\ \/ dir \in stalled /\ UNCHANGED blocks
     \/ Hindered
  /\ Turn("select")
  /\ UNCHANGED <<peers, ready, data, faults>>

\* Any other error, or SIGPIPE, ends the process.
WriteFails ==
  /\ pc = "write" /\ off[dir] > 0 /\ end[Target(dir)] = "closed"
  /\ Exit
  /\ UNCHANGED <<peers, ready, data, blocks, faults>>

-----------------------------------------------------------------------------
(* select.                                                                 *)

\* Mistake: a source is watched although its buffer is full.
WatchedAlways == Dirs

\* The sources there is room to read from.
Watched == {d \in Dirs : off[d] < BufSize}

Readable(d) == got[d] < sent[d] \/ end[Source(d)] # "open"

\* Mistake: select is called without a timeout.
SelectForever ==
  /\ pc = "select" /\ \E d \in Watched : Readable(d)
  /\ ready' = {d \in Watched : Readable(d)}
  /\ pc' = "read" /\ dir' = "C>S"
  /\ UNCHANGED <<peers, data, blocks, faults>>

\* It returns at once with what is readable, or after the timeout.
Select ==
  /\ pc = "select"
  /\ ready' = {d \in Watched : Readable(d)}
  /\ pc' = IF ready' = {} THEN "write" ELSE "read"
  /\ dir' = "C>S"
  /\ UNCHANGED <<peers, data, blocks, faults>>

\* EINTR: nothing is read in this loop.
SelectInterrupted ==
  /\ pc = "select" /\ Hindered
  /\ pc' = "write" /\ dir' = "C>S"
  /\ UNCHANGED <<peers, ready, data, faults>>

SelectFails ==
  /\ pc = "select" /\ faults < MaxFaults /\ faults' = faults + 1
  /\ Exit
  /\ UNCHANGED <<peers, ready, data, blocks>>

-----------------------------------------------------------------------------
(* The reads.                                                              *)

NotReady ==
  /\ pc = "read" /\ dir \notin ready
  /\ Turn("write")
  /\ UNCHANGED <<peers, ready, data, blocks, faults>>

\* Mistake: the offset is not taken off the size.
WholeBuffer(d) == BufSize

\* How many bytes read is asked for.
Room(d) == BufSize - off[d]

ReadSome ==
  /\ pc = "read" /\ dir \in ready
  /\ \E n \in 1..Room(dir) :
       /\ got[dir] + n <= sent[dir]
       /\ buf' = [buf EXCEPT ![dir] =
                    [i \in Index |-> IF i \in off[dir]..(off[dir] + n - 1)
                                     THEN got[dir] + 1 + i - off[dir] ELSE @[i]]]
       /\ off' = [off EXCEPT ![dir] = @ + n]
       /\ got' = [got EXCEPT ![dir] = @ + n]
  /\ Turn("write")
  /\ UNCHANGED <<peers, ready, out, log, blocks, faults>>

\* read returns 0 at the end of the stream and when it is asked for nothing,
\* and an error when the source is gone.  What the buffers hold is dropped.
ReadNone ==
  /\ pc = "read" /\ dir \in ready
  /\ \/ got[dir] = sent[dir] /\ end[Source(dir)] # "open"
     \/ Room(dir) = 0
     \/ end[Source(dir)] = "closed"
  /\ Exit
  /\ UNCHANGED <<peers, ready, data, blocks, faults>>

-----------------------------------------------------------------------------
Step == \/ NothingToWrite \/ WriteSome \/ WriteBlocks \/ WriteFails
        \/ Select \/ NotReady \/ ReadSome \/ ReadNone

Pump == Step \/ SelectInterrupted \/ SelectFails

Peers == \/ \E d \in Dirs : Send(d) \/ Stall(d)
         \/ \E e \in Ends : Shutdown(e) \/ Close(e)

Next == Pump \/ Peers

Spec == Init /\ [][Next]_vars

\* The process runs as long as it has not exited.  Nothing is assumed of the
\* two ends, and no interrupt or failure has to come.
FairSpec == Spec /\ WF_vars(Step)

-----------------------------------------------------------------------------
(* What it promises.                                                       *)

\* Partial writes, a buffer that is refilled behind what is left in it, full
\* buffers and interrupted calls lose, repeat or swap no byte: the target and
\* the log both get the bytes that were sent, in the order they were sent.
BytesInOrder ==
  \A d \in Dirs : /\ out[d] = [i \in 1..Len(out[d]) |-> i]
                  /\ log[d] = out[d]

\* The process leaves only with a cause: an orderly end only once everything
\* that end has sent was read.  A full buffer, for which read returns 0, is
\* not taken for an end.
ExitHasCause ==
  pc = "exited" =>
    \/ faults > 0
    \/ \E e \in Ends : end[e] = "closed"
    \/ \E d \in Dirs : end[Source(d)] = "half" /\ got[d] = sent[d]

Tap == INSTANCE TappedStream WITH delivered <- out, tape <- log,
                                  open <- (pc # "exited")

\* The process does what TappedStream promises.
TapsStream == Tap!Spec

\* A direction is forwarded whatever happens in the other one: every byte
\* arrives unless its own target stops to receive or the process exits.
Forwarded ==
  \A d \in Dirs : \A k \in 1..MaxSent[d] :
    sent[d] >= k ~> (Len(out[d]) >= k \/ d \in stalled \/ pc = "exited")
=============================================================================
