------------------------- MODULE TcProxyPumpProofs --------------------------
(***************************************************************************)
(* Theorems about TcProxyPump, for every size of the buffers and whatever  *)
(* the bounds are: no buffer is overrun, the bytes are forwarded and       *)
(* logged in order and without a gap, the process exits only with a cause, *)
(* and it implements TappedStream.                                         *)
(***************************************************************************)
EXTENDS TcProxyPump, SequenceTheorems, TLAPS

\* What was read of a direction and not written lies at the front of its
\* buffer, in order.
BufferHoldsRest ==
  \A d \in Dirs :
    /\ got[d] <= sent[d]
    /\ got[d] = Len(out[d]) + off[d]
    /\ \A i \in Index : i < off[d] => buf[d][i] = Len(out[d]) + i + 1

\* A source that is still to be read in this loop has room in its buffer.
ReadyHasRoom ==
  pc = "read" =>
    \A d \in ready : (d = dir \/ dir = "C>S") => off[d] < BufSize

\* The inductive invariant.
IndInv == TypeOK /\ BufferHoldsRest /\ BytesInOrder /\ ReadyHasRoom /\ ExitHasCause

-----------------------------------------------------------------------------
(* The operators.                                                          *)

\* A sequence that counts from 1 and is extended by the next n numbers counts
\* on.
LEMMA CountsOn ==
  ASSUME NEW s \in Seq(Nat), s = [i \in 1..Len(s) |-> i], NEW n \in Nat,
         NEW c, c = [i \in 1..n |-> Len(s) + i]
  PROVE  /\ s \o c \in Seq(Nat)
         /\ Len(s \o c) = Len(s) + n
         /\ s \o c = [i \in 1..Len(s \o c) |-> i]
<1>1. Len(s) \in Nat
  BY LenProperties
<1>2. c \in Seq(Nat) /\ Len(c) = n
  BY <1>1
<1>3. s \o c \in Seq(Nat) /\ Len(s \o c) = Len(s) + n
  BY <1>2, ConcatProperties
<1>4. \A i \in 1..Len(s) + n : (s \o c)[i] = i
  <2> TAKE i \in 1..Len(s) + n
  <2>1. CASE i <= Len(s)
    <3>1. (s \o c)[i] = s[i]
      BY <1>1, <1>2, <2>1, ConcatProperties
    <3>2. s[i] = i
      BY <1>1, <2>1
    <3>3. QED
      BY <3>1, <3>2
  <2>2. CASE i > Len(s)
    <3>1. (s \o c)[i] = c[i - Len(s)]
      BY <1>1, <1>2, <2>2, ConcatProperties
    <3>2. i - Len(s) \in 1..n
      BY <1>1, <2>2
    <3>3. c[i - Len(s)] = Len(s) + (i - Len(s))
      BY <3>2
    <3>4. QED
      BY <1>1, <3>1, <3>3
  <2>3. QED
    BY <1>1, <2>1, <2>2
<1>5. s \o c = [i \in 1..Len(s \o c) |-> (s \o c)[i]]
  BY <1>3, LenProperties
<1>6. QED
  BY <1>3, <1>4, <1>5

\* Turn moves to another call of the loop.
LEMMA TurnMoves ==
  ASSUME TypeOK, NEW p \in {"select", "write"}, Turn(p)
  PROVE  /\ pc' \in {pc, p} /\ dir' \in Dirs
         /\ dir' = "S>C" => pc' = pc /\ dir = "C>S"
         /\ dir' = "C>S" => pc' = p
BY DEF Turn, TypeOK, Dirs

\* The first n bytes of a buffer that holds the rest are the next bytes.
LEMMA ChunkIsNext ==
  ASSUME IndInv, NEW d \in Dirs, NEW n \in 1..off[d]
  PROVE  Chunk(buf[d], n) = [i \in 1..n |-> Len(out[d]) + i]
<1>1. \A i \in 1..n : i - 1 \in Index /\ i - 1 < off[d]
  <2>1. off[d] \in 0..BufSize /\ BufSize \in Nat
    BY BufSizeAssumption DEF IndInv, TypeOK
  <2>2. QED
    BY <2>1 DEF Index
<1>2. Len(out[d]) \in Nat
  BY LenProperties DEF IndInv, TypeOK
<1>3. \A i \in 1..n : buf[d][i - 1] = Len(out[d]) + i
  <2> TAKE i \in 1..n
  <2>1. buf[d][i - 1] = Len(out[d]) + (i - 1) + 1
    BY <1>1 DEF IndInv, BufferHoldsRest
  <2>2. QED
    BY <1>2, <2>1
<1>4. QED
  BY <1>3 DEF Chunk

-----------------------------------------------------------------------------
(* The steps that move bytes.                                              *)

\* A write takes the next bytes to the target and to the log alike.
LEMMA WriteStep ==
  ASSUME IndInv, WriteSome
  PROVE  TypeOK' /\ BufferHoldsRest' /\ BytesInOrder'
<1>1. PICK n \in 1..off[dir] :
        /\ out' = [out EXCEPT ![dir] = @ \o Chunk(buf[dir], n)]
        /\ log' = [log EXCEPT ![dir] = @ \o Logged(buf[dir], n, off[dir])]
        /\ buf' = [buf EXCEPT ![dir] = Moved(@, n, off[dir])]
        /\ off' = [off EXCEPT ![dir] = @ - n]
  BY DEF WriteSome
<1> DEFINE c == Chunk(buf[dir], n)
           s == out[dir]
<1>2. /\ dir \in Dirs /\ off[dir] \in 0..BufSize /\ n \in Nat /\ n <= off[dir]
      /\ buf[dir] \in [Index -> Nat] /\ s \in Seq(Nat) /\ Len(s) \in Nat
      /\ out \in [Dirs -> Seq(Nat)] /\ log \in [Dirs -> Seq(Nat)]
  BY BufSizeAssumption, LenProperties DEF IndInv, TypeOK
<1>3. c = [i \in 1..n |-> Len(s) + i]
  BY <1>2, ChunkIsNext
<1>4. s = [i \in 1..Len(s) |-> i] /\ log[dir] = s
  BY <1>2 DEF IndInv, BytesInOrder
<1>5. /\ s \o c \in Seq(Nat)
      /\ Len(s \o c) = Len(s) + n
      /\ s \o c = [i \in 1..Len(s \o c) |-> i]
  <2>1. s \in Seq(Nat) /\ n \in Nat /\ s = [i \in 1..Len(s) |-> i]
    BY <1>2, <1>4
  <2>2. c = [i \in 1..n |-> Len(s) + i]
    BY <1>3
  <2> HIDE DEF c, s
  <2>3. QED
    BY <2>1, <2>2, CountsOn
<1>6. /\ out'[dir] = s \o c /\ log'[dir] = s \o c
      /\ \A d \in Dirs \ {dir} : out'[d] = out[d] /\ log'[d] = log[d]
  BY <1>1, <1>2, <1>4 DEF Logged
<1>7. out' \in [Dirs -> Seq(Nat)] /\ log' \in [Dirs -> Seq(Nat)]
  <2> HIDE DEF c, s
  <2>1. /\ out' = [out EXCEPT ![dir] = out[dir] \o c]
        /\ log' = [log EXCEPT ![dir] = log[dir] \o c]
    BY <1>1 DEF c, Logged
  <2>2. out[dir] \o c \in Seq(Nat) /\ log[dir] \o c \in Seq(Nat)
    BY <1>4, <1>5 DEF s
  <2>3. QED
    BY <1>2, <2>1, <2>2
<1>8. Moved(buf[dir], n, off[dir]) \in [Index -> Nat]
  <2>1. \A i \in Index : i < off[dir] - n => i + n \in Index
    <3>1. off[dir] \in 0..BufSize /\ BufSize \in Nat /\ n \in Nat
      BY <1>2, BufSizeAssumption
    <3> HIDE DEF c, s
    <3>2. QED
      BY ONLY <3>1 DEF Index
  <2>2. QED
    BY <1>2, <2>1 DEF Moved
<1>9. TypeOK'
  <2>1. buf' \in [Dirs -> [Index -> Nat]]
    BY <1>1, <1>2, <1>8 DEF IndInv, TypeOK
  <2>2. off' \in [Dirs -> 0..BufSize]
    BY <1>1, <1>2, BufSizeAssumption DEF IndInv, TypeOK
  <2>3. pc' \in {"write", "select", "read", "exited"} /\ dir' \in Dirs
    BY TurnMoves DEF WriteSome, IndInv, TypeOK
  <2>4. QED
    BY <1>7, <2>1, <2>2, <2>3 DEF WriteSome, IndInv, TypeOK, peers
<1>10. BytesInOrder'
  BY <1>5, <1>6 DEF IndInv, BytesInOrder
<1>11. BufferHoldsRest'
  <2> SUFFICES ASSUME NEW d \in Dirs
               PROVE  /\ got'[d] <= sent'[d]
                      /\ got'[d] = Len(out'[d]) + off'[d]
                      /\ \A i \in Index :
                           i < off'[d] => buf'[d][i] = Len(out'[d]) + i + 1
    BY DEF BufferHoldsRest
  <2>1. /\ got[d] <= sent[d] /\ got[d] = Len(out[d]) + off[d]
        /\ \A i \in Index : i < off[d] => buf[d][i] = Len(out[d]) + i + 1
        /\ UNCHANGED <<got, sent>>
    BY DEF IndInv, BufferHoldsRest, WriteSome, peers
  <2>2. CASE d # dir
    BY <1>1, <1>2, <1>6, <2>1, <2>2 DEF IndInv, TypeOK
  <2>3. CASE d = dir
    <3>1. off'[d] = off[d] - n /\ Len(out'[d]) = Len(out[d]) + n
      BY <1>1, <1>2, <1>5, <1>6, <2>3 DEF IndInv, TypeOK
    <3>2. ASSUME NEW i \in Index, i < off'[d]
          PROVE  buf'[d][i] = Len(out'[d]) + i + 1
      <4>1. i + n \in Index /\ i + n < off[d] /\ i \in Int
        BY <1>2, <2>3, <3>1, <3>2, BufSizeAssumption DEF Index
      <4>2. buf'[d] = Moved(buf[d], n, off[d])
        BY <1>1, <2>3 DEF IndInv, TypeOK
      <4>3. buf'[d][i] = buf[d][i + n]
        BY <3>1, <3>2, <4>2 DEF Moved
      <4>4. buf[d][i + n] = Len(out[d]) + (i + n) + 1
        BY <2>1, <4>1
      <4>5. QED
        BY <1>2, <2>3, <3>1, <4>1, <4>3, <4>4
    <3>3. QED
      BY <1>2, <2>1, <2>3, <3>1, <3>2
  <2>4. QED
    BY <2>2, <2>3
<1>12. QED
  BY <1>9, <1>10, <1>11

\* A read puts the next bytes behind what the buffer holds, and fits.
LEMMA ReadStep ==
  ASSUME IndInv, ReadSome
  PROVE  TypeOK' /\ BufferHoldsRest' /\ BytesInOrder'
<1>1. PICK n \in 1..Room(dir) :
        /\ got[dir] + n <= sent[dir]
        /\ buf' = [buf EXCEPT ![dir] =
                     [i \in Index |-> IF i \in off[dir]..(off[dir] + n - 1)
                                      THEN got[dir] + 1 + i - off[dir] ELSE @[i]]]
        /\ off' = [off EXCEPT ![dir] = @ + n]
        /\ got' = [got EXCEPT ![dir] = @ + n]
  BY DEF ReadSome
<1>2. /\ dir \in Dirs /\ off[dir] \in 0..BufSize /\ n \in Nat
      /\ off[dir] + n <= BufSize /\ got[dir] \in Nat /\ sent[dir] \in Nat
      /\ buf[dir] \in [Index -> Nat] /\ Len(out[dir]) \in Nat
  BY BufSizeAssumption, LenProperties DEF IndInv, TypeOK, Room
<1>3. TypeOK'
  <2>1. \A i \in off[dir]..(off[dir] + n - 1) : got[dir] + 1 + i - off[dir] \in Nat
    <3>1. off[dir] \in Nat /\ got[dir] \in Nat /\ n \in Nat
      BY <1>2, BufSizeAssumption
    <3>2. QED
      BY ONLY <3>1
  <2>2. buf' \in [Dirs -> [Index -> Nat]]
    BY <1>1, <1>2, <2>1 DEF IndInv, TypeOK
  <2>3. off' \in [Dirs -> 0..BufSize] /\ got' \in [Dirs -> Nat]
    <3>1. off \in [Dirs -> 0..BufSize] /\ got \in [Dirs -> Nat]
      BY DEF IndInv, TypeOK
    <3>2. off[dir] + n \in 0..BufSize /\ got[dir] + n \in Nat
      BY <1>2, BufSizeAssumption
    <3>3. QED
      BY <1>1, <3>1, <3>2
  <2>4. pc' \in {"write", "select", "read", "exited"} /\ dir' \in Dirs
    BY TurnMoves DEF ReadSome, IndInv, TypeOK
  <2>5. QED
    BY <2>2, <2>3, <2>4 DEF ReadSome, IndInv, TypeOK, peers
<1>4. BytesInOrder'
  BY DEF IndInv, BytesInOrder, ReadSome
<1>5. BufferHoldsRest'
  <2> SUFFICES ASSUME NEW d \in Dirs
               PROVE  /\ got'[d] <= sent'[d]
                      /\ got'[d] = Len(out'[d]) + off'[d]
                      /\ \A i \in Index :
                           i < off'[d] => buf'[d][i] = Len(out'[d]) + i + 1
    BY DEF BufferHoldsRest
  <2>1. /\ got[d] <= sent[d] /\ got[d] = Len(out[d]) + off[d]
        /\ \A i \in Index : i < off[d] => buf[d][i] = Len(out[d]) + i + 1
        /\ UNCHANGED <<out, sent>>
    BY DEF IndInv, BufferHoldsRest, ReadSome, peers
  <2>2. CASE d # dir
    BY <1>1, <1>2, <2>1, <2>2 DEF IndInv, TypeOK
  <2>3. CASE d = dir
    <3>1. off'[d] = off[d] + n /\ got'[d] = got[d] + n
      BY <1>1, <2>3 DEF IndInv, TypeOK
    <3>2. ASSUME NEW i \in Index, i < off'[d]
          PROVE  buf'[d][i] = Len(out'[d]) + i + 1
      <4>1. buf'[d][i] = IF i \in off[d]..(off[d] + n - 1)
                         THEN got[d] + 1 + i - off[d] ELSE buf[d][i]
        BY <1>1, <2>3 DEF IndInv, TypeOK
      <4>2. i \in Int /\ 0 <= i
        BY DEF Index
      <4>3. CASE i < off[d]
        <5>1. i \notin off[d]..(off[d] + n - 1)
          BY <1>2, <2>3, <4>2, <4>3
        <5>2. QED
          BY <2>1, <4>1, <4>3, <5>1
      <4>4. CASE ~(i < off[d])
        <5>1. i \in off[d]..(off[d] + n - 1)
          BY <1>2, <2>3, <3>1, <3>2, <4>2, <4>4
        <5>2. buf'[d][i] = got[d] + 1 + i - off[d]
          BY <4>1, <5>1
        <5>3. got[d] = Len(out[d]) + off[d] /\ Len(out[d]) \in Nat /\ off[d] \in Nat
          BY <1>2, <2>1, <2>3
        <5>4. got[d] + 1 + i - off[d] = Len(out[d]) + i + 1
          BY <4>2, <5>3
        <5>5. QED
          BY <2>1, <5>2, <5>4
      <4>5. QED
        BY <4>3, <4>4
    <3>3. QED
      BY <1>1, <1>2, <2>1, <2>3, <3>1, <3>2
  <2>4. QED
    BY <2>2, <2>3
<1>6. QED
  BY <1>3, <1>4, <1>5

-----------------------------------------------------------------------------
(* The inductive invariant.                                                *)

\* The steps that move no byte keep the types and what the buffers hold.
LEMMA OtherSteps ==
  ASSUME IndInv, Next, ~WriteSome, ~ReadSome
  PROVE  TypeOK' /\ BufferHoldsRest' /\ BytesInOrder' /\ UNCHANGED data
<1>1. UNCHANGED data
  BY DEF Next, Pump, Step, Peers, NothingToWrite, WriteBlocks, WriteFails, Select,
         SelectInterrupted, SelectFails, NotReady, ReadNone, Send, Shutdown,
         Close, Stall
<1>2. BytesInOrder'
  BY <1>1 DEF IndInv, BytesInOrder, data
<1>3. TypeOK' /\ \A d \in Dirs : sent[d] <= sent'[d]
  <2>1. CASE Pump
    <3>1. pc' \in {"write", "select", "read", "exited"} /\ dir' \in Dirs
      BY <2>1, TurnMoves DEF Pump, Step, NothingToWrite, WriteBlocks, WriteFails, Select,
         SelectInterrupted, SelectFails, NotReady, ReadNone, Exit, IndInv, TypeOK, Dirs
    <3>2. /\ ready' \subseteq Dirs /\ blocks' \in Nat /\ faults' \in Nat
          /\ UNCHANGED peers
      BY <2>1 DEF Pump, Step, NothingToWrite, WriteBlocks, WriteFails, Select, Watched,
         SelectInterrupted, SelectFails, NotReady, ReadNone, Hindered, IndInv, TypeOK
    <3>3. TypeOK'
      BY <1>1, <3>1, <3>2 DEF IndInv, TypeOK, peers, data
    <3>4. \A d \in Dirs : sent[d] \in Nat /\ sent'[d] = sent[d]
      BY <3>2 DEF IndInv, TypeOK, peers
    <3>5. QED
      BY <3>3, <3>4
  <2>2. CASE Peers
    <3>1. UNCHANGED <<pc, dir, ready, blocks, faults>> /\ stalled' \subseteq Dirs
      BY <2>2 DEF Peers, Send, Shutdown, Close, Stall, IndInv, TypeOK
    <3>2. end' \in [Ends -> {"open", "half", "closed"}]
      BY <2>2 DEF Peers, Send, Shutdown, Close, Stall, IndInv, TypeOK
    <3>3. /\ sent' \in [Dirs -> Nat]
          /\ \A d \in Dirs : sent[d] <= sent'[d]
      <4>1. sent \in [Dirs -> Nat]
        BY DEF IndInv, TypeOK
      <4>2. sent' = sent \/ \E d \in Dirs : sent' = [sent EXCEPT ![d] = @ + 1]
        BY <2>2 DEF Peers, Send, Shutdown, Close, Stall
      <4>3. QED
        BY <4>1, <4>2
    <3>4. QED
      BY <1>1, <3>1, <3>2, <3>3 DEF IndInv, TypeOK, data
  <2>3. QED
    BY <2>1, <2>2 DEF Next
<1>4. BufferHoldsRest'
  <2>1. \A d \in Dirs : got[d] \in Nat /\ sent[d] \in Nat /\ sent'[d] \in Nat
    BY <1>3 DEF IndInv, TypeOK
  <2>2. QED
    BY <1>1, <1>3, <2>1 DEF IndInv, BufferHoldsRest, data
<1>5. QED
  BY <1>1, <1>2, <1>3, <1>4

\* select has found room in what it watches, and a read takes the room of its
\* own direction only.
LEMMA ReadyStep ==
  ASSUME IndInv, Next
  PROVE  ReadyHasRoom'
<1>1. CASE Select
  BY <1>1 DEF Select, Watched, ReadyHasRoom, data
<1>2. CASE ReadSome
  <2>1. /\ pc = "read" /\ Turn("write") /\ UNCHANGED ready
        /\ \A d \in Dirs \ {dir} : off'[d] = off[d]
    BY <1>2 DEF ReadSome, IndInv, TypeOK
  <2>2. QED
    BY <2>1 DEF Turn, ReadyHasRoom, IndInv, TypeOK, Dirs
<1>3. CASE NotReady
  BY <1>3 DEF NotReady, Turn, ReadyHasRoom, IndInv, TypeOK, data, Dirs
<1>4. CASE NothingToWrite \/ WriteSome \/ WriteBlocks
  <2>1. pc' # "read"
    BY <1>4 DEF NothingToWrite, WriteSome, WriteBlocks, Turn
  <2>2. QED
    BY <2>1 DEF ReadyHasRoom
<1>5. CASE WriteFails \/ SelectInterrupted \/ SelectFails \/ ReadNone
  <2>1. pc' # "read"
    BY <1>5 DEF WriteFails, SelectInterrupted, SelectFails, ReadNone, Exit
  <2>2. QED
    BY <2>1 DEF ReadyHasRoom
<1>6. CASE Peers
  BY <1>6 DEF Peers, Send, Shutdown, Close, Stall, IndInv, ReadyHasRoom, data
<1>7. QED
  BY <1>1, <1>2, <1>3, <1>4, <1>5, <1>6 DEF Next, Pump, Step

\* read is never asked for nothing, and an end that has shut down or is gone
\* remains so.
LEMMA ExitStep ==
  ASSUME IndInv, Next
  PROVE  ExitHasCause'
<1>1. CASE Peers
  <2>1. /\ UNCHANGED <<pc, faults, got>>
        /\ \A e \in Ends : end[e] = "closed" => end'[e] = "closed"
        /\ \A d \in Dirs : end[Source(d)] = "half" =>
             \/ end'[Source(d)] = "closed"
             \/ end'[Source(d)] = "half" /\ sent'[d] = sent[d]
    BY <1>1 DEF Peers, Send, Shutdown, Close, Stall, data, IndInv, TypeOK,
                Dirs, Ends, Source
  <2>2. \A d \in Dirs : Source(d) \in Ends
    BY DEF Source, Ends
  <2>3. QED
    BY <2>1, <2>2 DEF IndInv, ExitHasCause
<1>2. CASE WriteFails
  BY <1>2 DEF WriteFails, ExitHasCause, peers, Target, Ends
<1>3. CASE SelectFails
  BY <1>3 DEF SelectFails, ExitHasCause, IndInv, TypeOK
<1>4. CASE ReadNone
  <2>1. off[dir] < BufSize /\ dir \in Dirs /\ off[dir] \in 0..BufSize
    BY <1>4 DEF ReadNone, IndInv, ReadyHasRoom, TypeOK
  <2>2. Room(dir) # 0
    BY <2>1, BufSizeAssumption DEF Room
  <2>3. end[Source(dir)] \in {"open", "half", "closed"} /\ Source(dir) \in Ends
    BY <2>1 DEF IndInv, TypeOK, Source, Ends
  <2>4. \/ end[Source(dir)] = "closed"
        \/ end[Source(dir)] = "half" /\ got[dir] = sent[dir]
    BY <1>4, <2>2, <2>3 DEF ReadNone
  <2>5. UNCHANGED <<end, got, sent>>
    BY <1>4 DEF ReadNone, peers, data
  <2>6. QED
    BY <2>1, <2>3, <2>4, <2>5 DEF ExitHasCause
<1>5. CASE \/ NothingToWrite \/ WriteSome \/ WriteBlocks \/ Select
           \/ SelectInterrupted \/ NotReady \/ ReadSome
  <2>1. pc' # "exited"
    BY <1>5 DEF NothingToWrite, WriteSome, WriteBlocks, Select, SelectInterrupted,
                NotReady, ReadSome, Turn
  <2>2. QED
    BY <2>1 DEF ExitHasCause
<1>6. QED
  BY <1>1, <1>2, <1>3, <1>4, <1>5 DEF Next, Pump, Step

\* The inductive invariant holds of every behaviour.
THEOREM Invariance == Spec => []IndInv
<1>1. Init => IndInv
  <2> SUFFICES ASSUME Init PROVE IndInv
    OBVIOUS
  <2>1. TypeOK
    BY BufSizeAssumption DEF Init, TypeOK, Dirs, Ends
  <2>2. BufferHoldsRest /\ BytesInOrder
    BY DEF Init, BufferHoldsRest, BytesInOrder, Index
  <2>3. QED
    BY <2>1, <2>2 DEF Init, IndInv, ReadyHasRoom, ExitHasCause
<1>2. IndInv /\ [Next]_vars => IndInv'
  <2>1. ASSUME IndInv, Next PROVE IndInv'
    BY <2>1, WriteStep, ReadStep, OtherSteps, ReadyStep, ExitStep DEF IndInv
  <2>2. ASSUME IndInv, UNCHANGED vars PROVE IndInv'
    BY <2>2 DEF IndInv, TypeOK, BufferHoldsRest, BytesInOrder, ReadyHasRoom,
                ExitHasCause, vars, peers, data
  <2>3. QED
    BY <2>1, <2>2
<1>3. QED
  BY <1>1, <1>2, PTL DEF Spec

\* No buffer is overrun, and every variable keeps its type.
THEOREM TypeCorrect == Spec => []TypeOK
<1>1. IndInv => TypeOK
  BY DEF IndInv
<1>2. QED
  BY <1>1, Invariance, PTL

\* The target and the log get the bytes in the order they were sent, without a
\* gap or a repetition, for every size of the buffers.
THEOREM OrderKept == Spec => []BytesInOrder
<1>1. IndInv => BytesInOrder
  BY DEF IndInv
<1>2. QED
  BY <1>1, Invariance, PTL

\* The process never takes a full buffer for the end of a stream, nor leaves
\* before it has read all that an orderly end has sent.
THEOREM ExitJustified == Spec => []ExitHasCause
<1>1. IndInv => ExitHasCause
  BY DEF IndInv
<1>2. QED
  BY <1>1, Invariance, PTL

-----------------------------------------------------------------------------
(* Refinement.                                                             *)

\* A write is a Forward of TappedStream, the end of the process its Cut, and
\* every other step of the process changes nothing there.
THEOREM Implementation == Spec => TapsStream
<1>1. Init => Tap!Init
  BY DEF Init, Tap!Init
<1>2. IndInv /\ [Next]_vars => [Tap!Next]_Tap!vars
  <2> SUFFICES ASSUME IndInv, [Next]_vars
               PROVE  Tap!Next \/ UNCHANGED Tap!vars
    OBVIOUS
  <2>1. CASE WriteSome
    <3>1. PICK n \in 1..off[dir] :
            /\ out' = [out EXCEPT ![dir] = @ \o Chunk(buf[dir], n)]
            /\ log' = [log EXCEPT ![dir] = @ \o Logged(buf[dir], n, off[dir])]
      BY <2>1 DEF WriteSome
    <3>2. dir \in Dirs /\ off[dir] \in Nat /\ Len(out[dir]) \in Nat /\ sent[dir] \in Nat
      BY LenProperties, BufSizeAssumption DEF IndInv, TypeOK
    <3>3. Chunk(buf[dir], n) = Tap!NextBytes(dir, n)
      BY <3>2, ChunkIsNext DEF Tap!NextBytes
    <3>4. n \in 1..(sent[dir] - Len(out[dir]))
      <4>1. got[dir] = Len(out[dir]) + off[dir] /\ got[dir] <= sent[dir]
        BY <3>2 DEF IndInv, BufferHoldsRest
      <4>2. QED
        BY <3>2, <4>1
    <3>5. pc # "exited" /\ pc' # "exited" /\ UNCHANGED sent
      BY <2>1 DEF WriteSome, Turn, peers
    <3>6. Tap!Forward(dir)
      BY <3>1, <3>3, <3>4, <3>5 DEF Tap!Forward, Logged
    <3>7. QED
      BY <3>2, <3>6 DEF Tap!Next
  <2>2. CASE WriteFails \/ SelectFails \/ ReadNone
    BY <2>2 DEF WriteFails, SelectFails, ReadNone, Exit, peers, data,
                Tap!Next, Tap!Cut
  <2>3. CASE \/ NothingToWrite \/ WriteBlocks \/ Select \/ SelectInterrupted
             \/ NotReady \/ ReadSome
    <3>1. pc # "exited" /\ pc' # "exited" /\ UNCHANGED <<sent, out, log>>
      BY <2>3 DEF NothingToWrite, WriteBlocks, Select, SelectInterrupted, NotReady,
                  ReadSome, Turn, peers, data
    <3>2. QED
      BY <3>1 DEF Tap!vars
  <2>4. ASSUME NEW d \in Dirs, Send(d) PROVE Tap!Next
    BY <2>4 DEF Send, data, Tap!Next, Tap!Send
  <2>5. CASE \/ \E d \in Dirs : Stall(d)
             \/ \E e \in Ends : Shutdown(e) \/ Close(e)
             \/ UNCHANGED vars
    BY <2>5 DEF Stall, Shutdown, Close, vars, peers, data, Tap!vars
  <2>6. QED
    BY <2>1, <2>2, <2>3, <2>4, <2>5 DEF Next, Pump, Step, Peers
<1>3. QED
  BY <1>1, <1>2, Invariance, PTL DEF Spec, TapsStream, Tap!Spec
=============================================================================
