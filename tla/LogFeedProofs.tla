--------------------------- MODULE LogFeedProofs ----------------------------
(***************************************************************************)
(* What a client of the log is sent, for any number of clients, readers    *)
(* and lines: the lines of a reader come one after the other, and at most  *)
(* one of them comes after the word that the log is closed.                *)
(***************************************************************************)
EXTENDS LogFeed, SequenceTheorems, TLAPS

-----------------------------------------------------------------------------
(* The messages of one reader in a sequence of messages.                   *)

Messages == Readers \X (0..MaxLines)

LineAt(s, r, i) == i \in 1..Len(s) /\ s[i][1] = r /\ s[i][2] # 0
ExitAt(s, r, i) == i \in 1..Len(s) /\ s[i][1] = r /\ s[i][2] = 0

\* LinesInOrder and AtMostOneLate, of one client and one reader.
OrderIn(s, r) ==
  \A i, j \in 1..Len(s) :
    i < j /\ LineAt(s, r, i) /\ LineAt(s, r, j) /\ (\A k \in (i + 1)..(j - 1) : ~LineAt(s, r, k))
    => s[j][2] = s[i][2] + 1

OneLateIn(s, r) ==
  \A i, j, k \in 1..Len(s) :
    i < j /\ j < k /\ ExitAt(s, r, i) /\ LineAt(s, r, j) => ~LineAt(s, r, k)

\* The last line, if there is one, is line n.
LastIs(s, r, n) ==
  \A i \in 1..Len(s) :
    LineAt(s, r, i) /\ (\A k \in (i + 1)..Len(s) : ~LineAt(s, r, k)) => s[i][2] = n

Closed(s, r) == \E i \in 1..Len(s) : ExitAt(s, r, i)
Late(s, r) == \E i, j \in 1..Len(s) : i < j /\ ExitAt(s, r, i) /\ LineAt(s, r, j)

\* What a client was sent, with one message more.
LEMMA OneMore ==
  ASSUME NEW s \in Seq(Messages), NEW e \in Messages
  PROVE  /\ Append(s, e) \in Seq(Messages)
         /\ Len(s) \in Nat /\ Len(Append(s, e)) = Len(s) + 1
         /\ \A i \in 1..Len(s) : Append(s, e)[i] = s[i]
         /\ Append(s, e)[Len(s) + 1] = e
         /\ \A i \in 1..Len(s) : s[i] \in Messages
  BY DEF Messages

\* A message that is not a line of r leaves the lines of r as they were.
LEMMA OtherMessage ==
  ASSUME NEW s \in Seq(Messages), NEW q \in Readers, NEW n \in 0..MaxLines,
         NEW r \in Readers, q # r \/ n = 0
  PROVE  LET t == Append(s, <<q, n>>)
         IN /\ OrderIn(s, r) => OrderIn(t, r)
            /\ OneLateIn(s, r) => OneLateIn(t, r)
            /\ \A m : LastIs(s, r, m) => LastIs(t, r, m)
            /\ Late(t, r) => Late(s, r)
            /\ q # r => (Closed(t, r) => Closed(s, r))
  <1> DEFINE t == Append(s, <<q, n>>)
  <1>1. /\ Len(s) \in Nat /\ Len(t) = Len(s) + 1
        /\ \A i \in 1..Len(s) : t[i] = s[i]
        /\ t[Len(s) + 1] = <<q, n>>
    BY OneMore DEF Messages
  <1> HIDE DEF t
  <1>2. \A i : LineAt(t, r, i) <=> LineAt(s, r, i)
    BY <1>1 DEF LineAt
  <1>3. \A i \in 1..Len(s) : ExitAt(t, r, i) <=> ExitAt(s, r, i)
    BY <1>1 DEF ExitAt
  <1>4. OrderIn(s, r) => OrderIn(t, r)
    <2> SUFFICES ASSUME OrderIn(s, r), NEW i \in 1..Len(t), NEW j \in 1..Len(t), i < j,
                        LineAt(t, r, i), LineAt(t, r, j),
                        \A k \in (i + 1)..(j - 1) : ~LineAt(t, r, k)
                 PROVE  t[j][2] = t[i][2] + 1
      BY DEF OrderIn
    <2>1. LineAt(s, r, i) /\ LineAt(s, r, j)
      BY <1>2
    <2>2. i \in 1..Len(s) /\ j \in 1..Len(s)
      BY <2>1 DEF LineAt
    <2>3. \A k \in (i + 1)..(j - 1) : ~LineAt(s, r, k)
      BY <1>2
    <2>4. s[j][2] = s[i][2] + 1
      BY <2>1, <2>2, <2>3 DEF OrderIn
    <2> QED BY <2>2, <2>4, <1>1
  <1>5. OneLateIn(s, r) => OneLateIn(t, r)
    <2> SUFFICES ASSUME OneLateIn(s, r), NEW i \in 1..Len(t), NEW j \in 1..Len(t),
                        NEW k \in 1..Len(t), i < j, j < k,
                        ExitAt(t, r, i), LineAt(t, r, j), LineAt(t, r, k)
                 PROVE  FALSE
      BY DEF OneLateIn
    <2>1. LineAt(s, r, j) /\ LineAt(s, r, k)
      BY <1>2
    <2>2. i \in 1..Len(s) /\ j \in 1..Len(s) /\ k \in 1..Len(s)
      BY <2>1, <1>1 DEF LineAt
    <2> QED BY <2>1, <2>2, <1>3 DEF OneLateIn
  <1>6. ASSUME NEW m, LastIs(s, r, m)
        PROVE  LastIs(t, r, m)
    <2> SUFFICES ASSUME NEW i \in 1..Len(t), LineAt(t, r, i),
                        \A k \in (i + 1)..Len(t) : ~LineAt(t, r, k)
                 PROVE  t[i][2] = m
      BY DEF LastIs
    <2>1. LineAt(s, r, i) /\ i \in 1..Len(s)
      BY <1>2 DEF LineAt
    <2>2. \A k \in (i + 1)..Len(s) : ~LineAt(s, r, k)
      BY <1>1, <1>2
    <2>3. s[i][2] = m
      BY <1>6, <2>1, <2>2 DEF LastIs
    <2> QED BY <2>1, <2>3, <1>1
  <1>7. Late(t, r) => Late(s, r)
    <2> SUFFICES ASSUME NEW i \in 1..Len(t), NEW j \in 1..Len(t), i < j,
                        ExitAt(t, r, i), LineAt(t, r, j)
                 PROVE  Late(s, r)
      BY DEF Late
    <2>1. LineAt(s, r, j)
      BY <1>2
    <2>2. i \in 1..Len(s) /\ j \in 1..Len(s)
      BY <2>1, <1>1 DEF LineAt
    <2> QED BY <2>1, <2>2, <1>3 DEF Late
  <1>8. q # r => (Closed(t, r) => Closed(s, r))
    BY <1>1, <1>3 DEF Closed, ExitAt
  <1> QED BY <1>4, <1>5, <1>6, <1>7, <1>8 DEF t

\* The next line of r: it follows the last one, and it is the first late one
\* at most.
LEMMA NextLine ==
  ASSUME NEW s \in Seq(Messages), NEW r \in Readers, NEW n \in 0..MaxLines, n # 0
  PROVE  LET t == Append(s, <<r, n>>)
         IN /\ OrderIn(s, r) /\ LastIs(s, r, n - 1) => OrderIn(t, r)
            /\ LastIs(t, r, n)
            /\ ~Late(s, r) => OneLateIn(t, r)
            /\ Closed(t, r) => Closed(s, r)
  <1> DEFINE t == Append(s, <<r, n>>)
  <1>1. /\ Len(s) \in Nat /\ Len(t) = Len(s) + 1
        /\ \A i \in 1..Len(s) : t[i] = s[i]
        /\ t[Len(s) + 1] = <<r, n>>
    BY OneMore DEF Messages
  <1> HIDE DEF t
  <1>2. \A i \in 1..Len(s) : /\ LineAt(t, r, i) <=> LineAt(s, r, i)
                             /\ ExitAt(t, r, i) <=> ExitAt(s, r, i)
    BY <1>1 DEF LineAt, ExitAt
  <1>3. LineAt(t, r, Len(s) + 1) /\ ~ExitAt(t, r, Len(s) + 1)
    BY <1>1 DEF LineAt, ExitAt
  <1>n. n \in Int
    OBVIOUS
  <1>4. OrderIn(s, r) /\ LastIs(s, r, n - 1) => OrderIn(t, r)
    <2> SUFFICES ASSUME OrderIn(s, r), LastIs(s, r, n - 1),
                        NEW i \in 1..Len(t), NEW j \in 1..Len(t), i < j,
                        LineAt(t, r, i), LineAt(t, r, j),
                        \A k \in (i + 1)..(j - 1) : ~LineAt(t, r, k)
                 PROVE  t[j][2] = t[i][2] + 1
      BY DEF OrderIn
    <2>1. i \in 1..Len(s) /\ LineAt(s, r, i)
      BY <1>1, <1>2
    <2>2. CASE j \in 1..Len(s)
      <3>1. \A k \in (i + 1)..(j - 1) : ~LineAt(s, r, k)
        BY <2>1, <2>2, <1>1, <1>2
      <3>2. s[j][2] = s[i][2] + 1
        BY <2>1, <2>2, <3>1, <1>2 DEF OrderIn
      <3> QED BY <2>1, <2>2, <3>2, <1>1
    <2>3. CASE j = Len(s) + 1
      <3>1. \A k \in (i + 1)..Len(s) : ~LineAt(s, r, k)
        BY <2>1, <2>3, <1>1, <1>2
      <3>2. s[i][2] = n - 1
        BY <2>1, <3>1 DEF LastIs
      <3>3. t[j][2] = n /\ t[i][2] = n - 1
        BY <2>1, <2>3, <3>2, <1>1
      <3> QED BY <3>3, <1>n
    <2> QED BY <2>2, <2>3, <1>1
  <1>5. LastIs(t, r, n)
    <2> SUFFICES ASSUME NEW i \in 1..Len(t), LineAt(t, r, i),
                        \A k \in (i + 1)..Len(t) : ~LineAt(t, r, k)
                 PROVE  t[i][2] = n
      BY DEF LastIs
    <2>1. i = Len(s) + 1
      BY <1>1, <1>3
    <2> QED BY <2>1, <1>1
  <1>6. ~Late(s, r) => OneLateIn(t, r)
    <2> SUFFICES ASSUME NEW i \in 1..Len(t), NEW j \in 1..Len(t), NEW k \in 1..Len(t),
                        i < j, j < k, ExitAt(t, r, i), LineAt(t, r, j)
                 PROVE  Late(s, r)
      BY DEF OneLateIn
    <2>1. i \in 1..Len(s) /\ j \in 1..Len(s)
      BY <1>1
    <2> QED BY <2>1, <1>2 DEF Late
  <1>7. Closed(t, r) => Closed(s, r)
    BY <1>1, <1>2, <1>3 DEF Closed
  <1> QED BY <1>4, <1>5, <1>6, <1>7 DEF t

-----------------------------------------------------------------------------
(* The invariant.                                                          *)

\* The list has one client at most; one that was never in it was sent nothing.
OneClient ==
  /\ Len(clients) <= 1
  /\ \A i \in 1..Len(clients) : clients[i] \in known
  /\ \A c \in Clients : c \notin known => feed[c] = <<>>

\* What a broadcast says, and which readers have been started.
Broadcasts ==
  /\ logReader # 0 => rpc[logReader] # "none"
  /\ \A r \in Readers : rpc[r] = "notify" =>
       item[r] \in {0, pos[r]} /\ (item[r] = 0 => ~keepReading[r])

\* Reader r has read a line that the client has not been sent.
InHand(r) == rpc[r] = "notify" /\ item[r] # 0 /\ idx[r] # -1
Sent(r) == IF InHand(r) THEN pos[r] - 1 ELSE pos[r]

UpToDate ==
  \A i \in 1..Len(clients) : \A r \in Readers : LastIs(feed[clients[i]], r, Sent(r))

InOrder == \A c \in Clients : \A r \in Readers : OrderIn(feed[c], r)
OneLate == \A c \in Clients : \A r \in Readers : OneLateIn(feed[c], r)

\* Who told a client that the log is closed reads no further line, and after
\* a late line it goes to the test of keepReading.
ClosedStops ==
  \A c \in Clients : \A r \in Readers :
    Closed(feed[c], r) => ~keepReading[r] /\ rpc[r] # "none"

Ending(r) == rpc[r] \in {"check", "done"} \/ (rpc[r] = "notify" /\ idx[r] = -1)
LateEnds == \A c \in Clients : \A r \in Readers : Late(feed[c], r) => Ending(r)

IndInv == /\ TypeOK /\ OneClient /\ Broadcasts /\ UpToDate
          /\ InOrder /\ OneLate /\ ClosedStops /\ LateEnds

-----------------------------------------------------------------------------
LEMMA NoMessage ==
  ASSUME NEW r
  PROVE  /\ OrderIn(<<>>, r) /\ OneLateIn(<<>>, r) /\ \A n : LastIs(<<>>, r, n)
         /\ ~Closed(<<>>, r) /\ ~Late(<<>>, r)
  BY DEF OrderIn, OneLateIn, LastIs, Closed, Late

LEMMA InitIsInd == Init => IndInv
  <1> SUFFICES ASSUME Init PROVE IndInv
    OBVIOUS
  <1>b. 0 \in 0..MaxLines /\ 0 \in 0..MaxReaders /\ 0 \in 0..MaxKills /\ 0 \in 0..MaxFaults
    BY BoundsAssumption
  <1>s. <<>> \in Seq(Clients) /\ <<>> \in Seq(Readers \X (0..MaxLines))
    OBVIOUS
  <1>1. TypeOK
    BY <1>b, <1>s DEF Init, TypeOK
  <1>2. OneClient /\ Broadcasts /\ UpToDate
    BY DEF Init, OneClient, Broadcasts, UpToDate
  <1>3. InOrder /\ OneLate /\ ClosedStops /\ LateEnds
    BY NoMessage DEF Init, InOrder, OneLate, ClosedStops, LateEnds
  <1> QED BY <1>1, <1>2, <1>3 DEF IndInv

LEMMA NumberOfClients ==
  ASSUME TypeOK, OneClient
  PROVE  Len(clients) \in {0, 1} /\ (Len(clients) = 1 => clients[1] \in Clients)
  <1>1. clients \in Seq(Clients)
    BY DEF TypeOK
  <1>2. Len(clients) <= 1
    BY DEF OneClient
  <1>3. Len(clients) \in Nat
    BY <1>1, LenProperties
  <1>4. Len(clients) \in {0, 1}
    <2> DEFINE n == Len(clients)
    <2>1. n \in Nat /\ n <= 1
      BY <1>2, <1>3
    <2> HIDE DEF n
    <2>2. n = 0 \/ n = 1
      BY <2>1
    <2> QED BY <2>2 DEF n
  <1>5. Len(clients) = 1 => clients[1] \in Clients
    BY <1>1, ElementOfSeq
  <1> QED BY <1>4, <1>5

\* Removing the only entry leaves none.
LEMMA RemovedIsEmpty ==
  ASSUME TypeOK, OneClient, NEW c \in Clients, Registered(c)
  PROVE  Removed(c) = <<>>
  <1>1. Len(clients) = 1
    BY NumberOfClients DEF Registered
  <1> QED BY <1>1 DEF Removed

\* The types.
LEMMA TypeKept ==
  ASSUME TypeOK, OneClient, Next
  PROVE  TypeOK'
  <1>0. Len(clients) \in {0, 1} /\ (Len(clients) = 1 => clients[1] \in Clients)
    BY NumberOfClients
  <1> USE DEF TypeOK, Readers, main, reader
  <1>1. CASE LogGrows
    BY <1>1, BoundsAssumption DEF LogGrows
  <1>2. CASE \E c \in Clients : Register(c)
    BY <1>2 DEF Register
  <1>3. ASSUME NEW c \in Clients, Unregister(c)
        PROVE  TypeOK'
    <2>1. Removed(c) = <<>>
      BY <1>3, RemovedIsEmpty DEF Unregister
    <2> QED BY <1>3, <2>1 DEF Unregister
  <1>4. CASE StartLogger
    BY <1>4 DEF StartLogger
  <1>5. CASE StartLoggerFails
    BY <1>5, BoundsAssumption DEF StartLoggerFails
  <1>6. CASE KillLogger
    <2>1. logReader \in Readers /\ <<logReader, 0>> \in Readers \X (0..MaxLines)
      BY <1>6, BoundsAssumption DEF KillLogger
    <2>2. feed' \in [Clients -> Seq(Readers \X (0..MaxLines))]
      BY <1>6, <2>1 DEF KillLogger
    <2>3. kills' \in 0..MaxKills
      BY <1>6, BoundsAssumption DEF KillLogger
    <2> QED BY <1>6, <2>2, <2>3 DEF KillLogger
  <1>7. ASSUME NEW r \in Readers, Run(r)
        PROVE  TypeOK'
    <2>1. CASE Check(r)
      BY <2>1 DEF Check, At
    <2>2. CASE ReadLine(r)
      <3>1. pos[r] + 1 \in 0..MaxLines
        BY <2>2, BoundsAssumption DEF ReadLine
      <3>2. Len(clients) - 1 \in Nat \cup {-1}
        BY <1>0
      <3> QED BY <2>2, <3>1, <3>2 DEF ReadLine, Broadcast
    <2>3. CASE WaitAtEnd(r)
      BY <2>3 DEF WaitAtEnd, At
    <2>4. CASE ReadFails(r)
      <3>1. 0 \in 0..MaxLines /\ faults + 1 \in 0..MaxFaults
        BY <2>4, BoundsAssumption DEF ReadFails
      <3>2. Len(clients) - 1 \in Nat \cup {-1}
        BY <1>0
      <3> QED BY <2>4, <3>1, <3>2 DEF ReadFails, Broadcast
    <2>5. CASE Notify(r)
      <3>i. idx[r] \in 0..(Len(clients) - 1)
        BY <2>5 DEF Notify
      <3>1. idx[r] = 0 /\ Len(clients) = 1
        <4> DEFINE n == Len(clients)
        <4> HIDE DEF n
        <4>1. n \in {0, 1} /\ idx[r] \in 0..(n - 1)
          BY <3>i, <1>0 DEF n
        <4>2. n = 1 /\ idx[r] = 0
          BY <4>1
        <4> QED BY <4>2 DEF n
      <3>2. clients[1] \in Clients
        BY <3>1, <1>0
      <3>3. feed' = [feed EXCEPT ![clients[1]] = Append(@, <<r, item[r]>>)]
        BY <2>5, <3>1 DEF Notify
      <3>4. feed' \in [Clients -> Seq(Readers \X (0..MaxLines))]
        <4>1. feed \in [Clients -> Seq(Readers \X (0..MaxLines))] /\ item[r] \in 0..MaxLines
          BY DEF TypeOK
        <4>2. Append(feed[clients[1]], <<r, item[r]>>) \in Seq(Readers \X (0..MaxLines))
          BY <3>2, <4>1
        <4> QED BY <3>3, <4>1, <4>2
      <3>5. idx' = [idx EXCEPT ![r] = -1]
        BY <2>5, <3>1 DEF Notify
      <3>6. idx' \in [Readers -> Nat \cup {-1}]
        BY <3>5
      <3> QED BY <2>5, <3>4, <3>6 DEF Notify
    <2>6. CASE GetThrows(r)
      BY <2>6 DEF GetThrows
    <2>7. CASE Notified(r)
      BY <2>7 DEF Notified, At
    <2> QED BY <1>7, <2>1, <2>2, <2>3, <2>4, <2>5, <2>6, <2>7 DEF Run
  <1> QED BY <1>1, <1>2, <1>3, <1>4, <1>5, <1>6, <1>7 DEF Next, Main


\* A step that sends nothing and leaves the list alone: no reader that was
\* told to stop starts anew, and none forgets what it has in hand.
LEMMA Quiet ==
  ASSUME IndInv, TypeOK', Broadcasts', UNCHANGED <<clients, known, feed>>,
         Len(clients) = 1 => \A r \in Readers : Sent(r)' = Sent(r),
         \A r \in Readers : ~keepReading[r] /\ rpc[r] # "none" =>
           ~keepReading'[r] /\ rpc'[r] # "none" /\ (Ending(r) => Ending(r)')
  PROVE  IndInv'
  <1>1. OneClient' /\ InOrder' /\ OneLate'
    BY DEF IndInv, OneClient, InOrder, OneLate
  <1>2. UpToDate'
    <2> SUFFICES ASSUME NEW i \in 1..Len(clients), NEW r \in Readers
                 PROVE  LastIs(feed[clients[i]], r, Sent(r)')
      BY DEF UpToDate
    <2>1. Len(clients) \in {0, 1}
      BY NumberOfClients DEF IndInv
    <2>2. Sent(r)' = Sent(r)
      BY <2>1
    <2> QED BY <2>2 DEF IndInv, UpToDate
  <1>3. ClosedStops'
    BY DEF IndInv, ClosedStops
  <1>4. \A c \in Clients : \A r \in Readers : Late(feed[c], r) => Closed(feed[c], r)
    BY DEF Late, Closed
  <1>5. LateEnds'
    BY <1>4 DEF IndInv, ClosedStops, LateEnds
  <1> QED BY <1>1, <1>2, <1>3, <1>5 DEF IndInv

LEMMA MainKeeps ==
  ASSUME IndInv, TypeOK', LogGrows \/ StartLogger \/ StartLoggerFails
  PROVE  IndInv'
  <1>1. CASE LogGrows
    <2>1. /\ Broadcasts' /\ UNCHANGED <<clients, known, feed>>
          /\ \A r \in Readers : Sent(r)' = Sent(r)
          /\ \A r \in Readers : ~keepReading[r] /\ rpc[r] # "none" =>
               ~keepReading'[r] /\ rpc'[r] # "none" /\ (Ending(r) => Ending(r)')
      BY <1>1 DEF IndInv, LogGrows, main, reader, Broadcasts, Sent, InHand, Ending
    <2> QED BY <2>1, Quiet
  <1>2. CASE StartLoggerFails
    <2>1. /\ Broadcasts' /\ UNCHANGED <<clients, known, feed>>
          /\ \A r \in Readers : Sent(r)' = Sent(r)
          /\ \A r \in Readers : ~keepReading[r] /\ rpc[r] # "none" =>
               ~keepReading'[r] /\ rpc'[r] # "none" /\ (Ending(r) => Ending(r)')
      BY <1>2 DEF IndInv, StartLoggerFails, reader, Broadcasts, Sent, InHand, Ending
    <2> QED BY <2>1, Quiet
  <1>3. CASE StartLogger
    <2>1. PICK q \in Readers : /\ rpc[q] = "none" /\ logReader' = q
                               /\ keepReading' = [keepReading EXCEPT ![q] = TRUE]
                               /\ rpc' = [rpc EXCEPT ![q] = "check"]
      BY <1>3 DEF StartLogger
    <2>2. UNCHANGED <<clients, known, pos, item, idx, feed>>
      BY <1>3 DEF StartLogger
    <2>t. keepReading \in [Readers -> BOOLEAN] /\ DOMAIN rpc = Readers
      BY DEF IndInv, TypeOK
    <2>3. \A r \in Readers : Sent(r)' = Sent(r)
      BY <2>1, <2>2, <2>t DEF Sent, InHand
    <2>4. \A r \in Readers : ~keepReading[r] /\ rpc[r] # "none" =>
            ~keepReading'[r] /\ rpc'[r] # "none" /\ (Ending(r) => Ending(r)')
      BY <2>1, <2>2, <2>t DEF Ending
    <2>5. Broadcasts'
      BY <2>1, <2>2, <2>t DEF IndInv, Broadcasts
    <2> QED BY <2>2, <2>3, <2>4, <2>5, Quiet
  <1> QED BY <1>1, <1>2, <1>3

LEMMA ReaderKeeps ==
  ASSUME IndInv, TypeOK', NEW q \in Readers,
         \/ Check(q) \/ ReadLine(q) \/ WaitAtEnd(q)
         \/ ReadFails(q) \/ GetThrows(q) \/ Notified(q)
  PROVE  IndInv'
  <1>t. /\ keepReading \in [Readers -> BOOLEAN]
        /\ DOMAIN rpc = Readers /\ DOMAIN item = Readers
        /\ DOMAIN idx = Readers /\ pos \in [Readers -> 0..MaxLines]
    BY DEF IndInv, TypeOK
  <1>u. UNCHANGED <<clients, known, logReader, feed>>
    BY DEF Check, ReadLine, WaitAtEnd, ReadFails, GetThrows, Notified, main, reader
  <1>1. CASE Check(q)
    <2>0. /\ rpc[q] = "check" /\ rpc' = [rpc EXCEPT ![q] = IF keepReading[q] THEN "read" ELSE "done"]
          /\ UNCHANGED <<keepReading, pos, item, idx>>
      BY <1>1 DEF Check, At
    <2>1. \A r \in Readers : Sent(r)' = Sent(r)
      BY <2>0, <1>t DEF Sent, InHand
    <2>2. \A r \in Readers : ~keepReading[r] /\ rpc[r] # "none" =>
            ~keepReading'[r] /\ rpc'[r] # "none" /\ (Ending(r) => Ending(r)')
      BY <2>0, <1>t DEF Ending
    <2>3. Broadcasts'
      BY <2>0, <1>t, <1>u DEF IndInv, Broadcasts
    <2> QED BY <1>u, <2>1, <2>2, <2>3, Quiet
  <1>2. CASE ReadLine(q)
    <2>0. /\ rpc[q] = "read" /\ rpc' = [rpc EXCEPT ![q] = "notify"]
          /\ pos' = [pos EXCEPT ![q] = pos[q] + 1]
          /\ item' = [item EXCEPT ![q] = pos[q] + 1]
          /\ idx' = [idx EXCEPT ![q] = Len(clients) - 1]
          /\ UNCHANGED keepReading
      BY <1>2 DEF ReadLine, At, Broadcast
    <2>p. pos[q] \in Nat
      BY <1>t
    <2>1. ASSUME Len(clients) = 1, NEW r \in Readers
          PROVE  Sent(r)' = Sent(r)
      <3>1. CASE r = q
        <4>1. InHand(q)' /\ ~InHand(q)
          BY <2>0, <2>p, <2>1, <1>t DEF InHand
        <4>2. pos'[q] = pos[q] + 1
          BY <2>0, <1>t
        <4>3. pos'[q] - 1 = pos[q]
          BY <4>2, <2>p
        <4> QED BY <3>1, <4>1, <4>3 DEF Sent
      <3>2. CASE r # q
        BY <3>2, <2>0, <1>t DEF Sent, InHand
      <3> QED BY <3>1, <3>2
    <2>2. \A r \in Readers : ~keepReading[r] /\ rpc[r] # "none" =>
            ~keepReading'[r] /\ rpc'[r] # "none" /\ (Ending(r) => Ending(r)')
      BY <2>0, <1>t DEF Ending
    <2>3. Broadcasts'
      <3>1. item'[q] # 0 /\ item'[q] = pos'[q]
        BY <2>0, <2>p, <1>t
      <3> QED BY <3>1, <2>0, <1>t, <1>u DEF IndInv, Broadcasts
    <2> QED BY <1>u, <2>1, <2>2, <2>3, Quiet
  <1>3. CASE WaitAtEnd(q)
    <2>0. /\ rpc[q] = "read" /\ rpc' = [rpc EXCEPT ![q] = "check"]
          /\ UNCHANGED <<keepReading, pos, item, idx>>
      BY <1>3 DEF WaitAtEnd, At
    <2>1. \A r \in Readers : Sent(r)' = Sent(r)
      BY <2>0, <1>t DEF Sent, InHand
    <2>2. \A r \in Readers : ~keepReading[r] /\ rpc[r] # "none" =>
            ~keepReading'[r] /\ rpc'[r] # "none" /\ (Ending(r) => Ending(r)')
      BY <2>0, <1>t DEF Ending
    <2>3. Broadcasts'
      BY <2>0, <1>t, <1>u DEF IndInv, Broadcasts
    <2> QED BY <1>u, <2>1, <2>2, <2>3, Quiet
  <1>4. CASE ReadFails(q)
    <2>0. /\ rpc[q] = "read" /\ rpc' = [rpc EXCEPT ![q] = "notify"]
          /\ keepReading' = [keepReading EXCEPT ![q] = FALSE]
          /\ item' = [item EXCEPT ![q] = 0]
          /\ idx' = [idx EXCEPT ![q] = Len(clients) - 1]
          /\ UNCHANGED pos
      BY <1>4 DEF ReadFails, At, Broadcast
    <2>1. \A r \in Readers : Sent(r)' = Sent(r)
      BY <2>0, <1>t DEF Sent, InHand
    <2>2. \A r \in Readers : ~keepReading[r] /\ rpc[r] # "none" =>
            ~keepReading'[r] /\ rpc'[r] # "none" /\ (Ending(r) => Ending(r)')
      BY <2>0, <1>t DEF Ending
    <2>3. Broadcasts'
      BY <2>0, <1>t, <1>u DEF IndInv, Broadcasts
    <2> QED BY <1>u, <2>1, <2>2, <2>3, Quiet
  <1>5. CASE GetThrows(q)
    <2>0. UNCHANGED <<keepReading, rpc, pos, item, idx>>
      BY <1>5 DEF GetThrows, reader
    <2>1. \A r \in Readers : Sent(r)' = Sent(r)
      BY <2>0 DEF Sent, InHand
    <2>2. \A r \in Readers : ~keepReading[r] /\ rpc[r] # "none" =>
            ~keepReading'[r] /\ rpc'[r] # "none" /\ (Ending(r) => Ending(r)')
      BY <2>0 DEF Ending
    <2>3. Broadcasts'
      BY <2>0, <1>u DEF IndInv, Broadcasts
    <2> QED BY <1>u, <2>1, <2>2, <2>3, Quiet
  <1>6. CASE Notified(q)
    <2>0. /\ rpc[q] = "notify" /\ idx[q] = -1 /\ rpc' = [rpc EXCEPT ![q] = "check"]
          /\ UNCHANGED <<keepReading, pos, item, idx>>
      BY <1>6 DEF Notified, At
    <2>1. \A r \in Readers : Sent(r)' = Sent(r)
      BY <2>0, <1>t DEF Sent, InHand
    <2>2. \A r \in Readers : ~keepReading[r] /\ rpc[r] # "none" =>
            ~keepReading'[r] /\ rpc'[r] # "none" /\ (Ending(r) => Ending(r)')
      BY <2>0, <1>t DEF Ending
    <2>3. Broadcasts'
      BY <2>0, <1>t, <1>u DEF IndInv, Broadcasts
    <2> QED BY <1>u, <2>1, <2>2, <2>3, Quiet
  <1> QED BY <1>1, <1>2, <1>3, <1>4, <1>5, <1>6

LEMMA ListKeeps ==
  ASSUME IndInv, TypeOK', NEW c \in Clients, Register(c) \/ Unregister(c)
  PROVE  IndInv'
  <1>u. UNCHANGED <<feed, logReader, keepReading, rpc, pos, item, idx>>
    BY DEF Register, Unregister, reader
  <1>1. OneClient' /\ UpToDate'
    <2>1. CASE Register(c)
      <3>1. clients' = <<c>> /\ known' = known \cup {c} /\ feed[c] = <<>>
        BY <2>1 DEF IndInv, OneClient, Register
      <3>2. OneClient'
        BY <3>1, <1>u DEF IndInv, OneClient
      <3>3. UpToDate'
        <4>1. \A i \in 1..Len(clients') : clients'[i] = c
          BY <3>1
        <4>2. feed'[c] = <<>>
          BY <3>1, <1>u
        <4>3. \A r \in Readers : \A n : LastIs(feed'[c], r, n)
          BY <4>2, NoMessage
        <4> QED BY <4>1, <4>3 DEF UpToDate
      <3> QED BY <3>2, <3>3
    <2>2. CASE Unregister(c)
      <3>1. clients' = <<>> /\ known' = known
        BY <2>2, RemovedIsEmpty DEF IndInv, Unregister
      <3> QED BY <3>1, <1>u DEF IndInv, OneClient, UpToDate
    <2> QED BY <2>1, <2>2
  <1>2. Broadcasts' /\ InOrder' /\ OneLate' /\ ClosedStops'
    BY <1>u DEF IndInv, Broadcasts, InOrder, OneLate, ClosedStops
  <1>3. LateEnds'
    BY <1>u DEF IndInv, LateEnds, Ending
  <1> QED BY <1>1, <1>2, <1>3 DEF IndInv

LEMMA KillKeeps ==
  ASSUME IndInv, TypeOK', KillLogger
  PROVE  IndInv'
  <1> DEFINE q == logReader
             Told(c) == Append(feed[c], <<q, 0>>)
  <1>0. /\ q \in Readers /\ rpc[q] # "none" /\ 0 \in 0..MaxLines
        /\ keepReading' = [keepReading EXCEPT ![q] = FALSE]
        /\ UNCHANGED <<clients, known, logReader, rpc, pos, item, idx>>
    BY BoundsAssumption DEF IndInv, KillLogger, TypeOK, Readers, Broadcasts, main, reader
  <1>1. \A c \in Clients : feed'[c] \in {feed[c], Told(c)} /\ (~Registered(c) => feed'[c] = feed[c])
    BY DEF KillLogger
  <1>t. keepReading \in [Readers -> BOOLEAN] /\ \A c \in Clients : feed[c] \in Seq(Messages)
    BY DEF IndInv, TypeOK, Messages
  <1>2. ASSUME NEW c \in Clients, NEW r \in Readers
        PROVE  /\ OrderIn(feed[c], r) => OrderIn(feed'[c], r)
               /\ OneLateIn(feed[c], r) => OneLateIn(feed'[c], r)
               /\ \A m : LastIs(feed[c], r, m) => LastIs(feed'[c], r, m)
               /\ Late(feed'[c], r) => Late(feed[c], r)
               /\ q # r => (Closed(feed'[c], r) => Closed(feed[c], r))
    <2>1. CASE feed'[c] = feed[c]
      BY <2>1
    <2>2. CASE feed'[c] = Told(c)
      <3> HIDE DEF q
      <3> QED BY <2>2, <1>0, <1>t, <1>2, OtherMessage
    <2> QED BY <1>1, <1>2, <2>1, <2>2
  <1> HIDE DEF q, Told
  <1>3. OneClient'
    <2>1. ASSUME NEW c \in Clients, c \notin known
          PROVE  feed'[c] = <<>>
      <3>1. ~Registered(c) /\ feed[c] = <<>>
        BY <2>1 DEF IndInv, OneClient, Registered
      <3> QED BY <3>1, <1>1
    <2> QED BY <2>1, <1>0 DEF IndInv, OneClient
  <1>4. Broadcasts'
    BY <1>0, <1>t DEF IndInv, Broadcasts
  <1>5. UpToDate'
    <2> SUFFICES ASSUME NEW i \in 1..Len(clients), NEW r \in Readers
                 PROVE  LastIs(feed'[clients[i]], r, Sent(r)')
      BY <1>0 DEF UpToDate
    <2>1. clients[i] \in Clients
      <3>1. clients \in Seq(Clients)
        BY DEF IndInv, TypeOK
      <3> QED BY <3>1
    <2>2. Sent(r)' = Sent(r)
      BY <1>0 DEF Sent, InHand
    <2>3. LastIs(feed[clients[i]], r, Sent(r))
      BY DEF IndInv, UpToDate
    <2> QED BY <2>1, <2>2, <2>3, <1>2
  <1>6. InOrder' /\ OneLate'
    BY <1>2 DEF IndInv, InOrder, OneLate
  <1>7. ClosedStops'
    <2> SUFFICES ASSUME NEW c \in Clients, NEW r \in Readers, Closed(feed'[c], r)
                 PROVE  ~keepReading'[r] /\ rpc'[r] # "none"
      BY DEF ClosedStops
    <2>1. CASE r = q
      BY <2>1, <1>0, <1>t
    <2>2. CASE r # q
      <3>1. ~keepReading[r] /\ rpc[r] # "none"
        BY <2>2, <1>2 DEF IndInv, ClosedStops
      <3> QED BY <3>1, <2>2, <1>0, <1>t
    <2> QED BY <2>1, <2>2
  <1>8. LateEnds'
    BY <1>0, <1>2 DEF IndInv, LateEnds, Ending
  <1> QED BY <1>3, <1>4, <1>5, <1>6, <1>7, <1>8 DEF IndInv

LEMMA NotifyKeeps ==
  ASSUME IndInv, TypeOK', NEW q \in Readers, Notify(q)
  PROVE  IndInv'
  <1> DEFINE d == clients[1]
             n == item[q]
  <1>n. Len(clients) = 1 /\ d \in Clients
    <2>1. idx[q] \in 0..(Len(clients) - 1)
      BY DEF Notify
    <2>2. Len(clients) # 0
      BY <2>1
    <2> QED BY <2>2, NumberOfClients DEF IndInv
  <1>0. /\ rpc[q] = "notify" /\ idx[q] = 0
        /\ UNCHANGED <<clients, known, logReader, keepReading, rpc, pos, item>>
    BY <1>n DEF Notify, At, main
  <1>1. idx' = [idx EXCEPT ![q] = -1]
    BY <1>0 DEF Notify
  <1>2. feed' = [feed EXCEPT ![d] = Append(feed[d], <<q, n>>)]
    BY <1>0 DEF Notify
  <1>t. /\ DOMAIN idx = Readers /\ feed \in [Clients -> Seq(Messages)]
        /\ n \in 0..MaxLines /\ pos[q] \in Nat
    <2>1. TypeOK
      BY DEF IndInv
    <2>2. idx \in [Readers -> Nat \cup {-1}] /\ feed \in [Clients -> Seq(Messages)]
      BY <2>1 DEF TypeOK, Messages
    <2>3. item[q] \in 0..MaxLines /\ pos[q] \in 0..MaxLines /\ MaxLines \in Nat
      BY <2>1, BoundsAssumption DEF TypeOK
    <2> QED BY <2>2, <2>3
  <1>3. n \in {0, pos[q]} /\ (n = 0 => ~keepReading[q])
    BY <1>0 DEF IndInv, Broadcasts
  <1> HIDE DEF d, n
  <1>4. \A r \in Readers : Ending(r) => Ending(r)'
    BY <1>0, <1>1, <1>t DEF Ending
  <1>5. ~Ending(q) /\ Ending(q)'
    BY <1>0, <1>1, <1>t DEF Ending
  <1>6. \A r \in Readers : r # q => Sent(r)' = Sent(r)
    BY <1>0, <1>1, <1>t DEF Sent, InHand
  <1>7. Sent(q)' = pos[q] /\ Sent(q) = IF n = 0 THEN pos[q] ELSE pos[q] - 1
    BY <1>0, <1>1, <1>t DEF Sent, InHand, n
  <1>8. \A c \in Clients : c # d => feed'[c] = feed[c]
    BY <1>2, <1>t
  <1>9. feed'[d] = Append(feed[d], <<q, n>>) /\ feed[d] \in Seq(Messages)
    BY <1>2, <1>n, <1>t
  <1>10. \A r \in Readers : /\ OrderIn(feed[d], r) /\ OneLateIn(feed[d], r)
                            /\ LastIs(feed[d], r, Sent(r))
                            /\ Closed(feed[d], r) => ~keepReading[r] /\ rpc[r] # "none"
                            /\ Late(feed[d], r) => Ending(r)
    BY <1>n DEF IndInv, InOrder, OneLate, UpToDate, ClosedStops, LateEnds, d
  <1>11. ASSUME NEW r \in Readers
         PROVE  /\ OrderIn(feed'[d], r) /\ OneLateIn(feed'[d], r)
                /\ LastIs(feed'[d], r, Sent(r)')
                /\ Closed(feed'[d], r) => ~keepReading[r] /\ rpc[r] # "none"
                /\ Late(feed'[d], r) => Ending(r)'
    <2>1. CASE r # q
      <3>1. /\ OrderIn(feed'[d], r) /\ OneLateIn(feed'[d], r)
            /\ LastIs(feed'[d], r, Sent(r))
            /\ Late(feed'[d], r) => Late(feed[d], r)
            /\ Closed(feed'[d], r) => Closed(feed[d], r)
        BY <2>1, <1>9, <1>10, <1>11, <1>t, OtherMessage
      <3> QED BY <3>1, <2>1, <1>4, <1>6, <1>10, <1>11
    <2>2. CASE r = q /\ n = 0
      <3>1. /\ OrderIn(feed'[d], q) /\ OneLateIn(feed'[d], q)
            /\ LastIs(feed'[d], q, Sent(q))
        <4>1. /\ OrderIn(feed[d], q) => OrderIn(Append(feed[d], <<q, n>>), q)
              /\ OneLateIn(feed[d], q) => OneLateIn(Append(feed[d], <<q, n>>), q)
              /\ \A m : LastIs(feed[d], q, m) => LastIs(Append(feed[d], <<q, n>>), q, m)
          BY <2>2, <1>9, <1>t, OtherMessage
        <4> QED BY <4>1, <1>9, <1>10
      <3>2. Sent(q)' = Sent(q)
        BY <2>2, <1>7
      <3> QED BY <2>2, <3>1, <3>2, <1>0, <1>3, <1>5
    <2>3. CASE r = q /\ n # 0
      <3>1. n = pos[q] /\ Sent(q) = n - 1 /\ Sent(q)' = n
        BY <2>3, <1>3, <1>7
      <3>2. /\ OrderIn(feed'[d], q) /\ OneLateIn(feed'[d], q)
            /\ LastIs(feed'[d], q, n)
            /\ Closed(feed'[d], q) => Closed(feed[d], q)
        BY <2>3, <3>1, <1>5, <1>9, <1>10, <1>t, NextLine
      <3> QED BY <2>3, <3>1, <3>2, <1>5, <1>10
    <2> QED BY <2>1, <2>2, <2>3
  <1>12. OneClient'
    <2>1. d \in known
      BY <1>n DEF IndInv, OneClient, d
    <2> QED BY <2>1, <1>0, <1>8 DEF IndInv, OneClient
  <1>13. Broadcasts'
    BY <1>0 DEF IndInv, Broadcasts
  <1>14. UpToDate'
    <2>1. \A i \in 1..Len(clients') : clients'[i] = d
      BY <1>0, <1>n DEF d
    <2> QED BY <2>1, <1>11 DEF UpToDate
  <1>15. InOrder' /\ OneLate'
    BY <1>8, <1>11 DEF IndInv, InOrder, OneLate
  <1>16. ClosedStops'
    BY <1>0, <1>8, <1>11 DEF IndInv, ClosedStops
  <1>17. LateEnds'
    BY <1>4, <1>8, <1>11 DEF IndInv, LateEnds
  <1> QED BY <1>12, <1>13, <1>14, <1>15, <1>16, <1>17 DEF IndInv

-----------------------------------------------------------------------------
(* The theorems.                                                           *)

\* Every step keeps the invariant.
THEOREM Invariance == Spec => []IndInv
  <1>1. IndInv /\ [Next]_vars => IndInv'
    <2> SUFFICES ASSUME IndInv, [Next]_vars PROVE IndInv'
      OBVIOUS
    <2>1. CASE UNCHANGED vars
      BY <2>1 DEF vars, main, reader, IndInv, TypeOK, OneClient, Broadcasts, UpToDate,
                  InOrder, OneLate, ClosedStops, LateEnds, Ending, Sent, InHand
    <2>2. CASE Next
      <3>1. TypeOK'
        BY <2>2, TypeKept DEF IndInv
      <3>2. CASE LogGrows \/ StartLogger \/ StartLoggerFails
        BY <3>1, <3>2, MainKeeps
      <3>3. CASE \E c \in Clients : Register(c) \/ Unregister(c)
        BY <3>1, <3>3, ListKeeps
      <3>4. CASE KillLogger
        BY <3>1, <3>4, KillKeeps
      <3>5. CASE \E q \in Readers : Run(q)
        BY <3>1, <3>5, ReaderKeeps, NotifyKeeps DEF Run
      <3> QED BY <2>2, <3>2, <3>3, <3>4, <3>5 DEF Next, Main
    <2> QED BY <2>1, <2>2
  <1> QED BY InitIsInd, <1>1, PTL DEF Spec

\* Every variable keeps its type: no walk through the list leaves it, and no
\* client is sent what is not a line of the log.
THEOREM TypeCorrect == Spec => []TypeOK
  <1>1. IndInv => TypeOK
    BY DEF IndInv
  <1> QED BY <1>1, Invariance, PTL

\* From each reader a client gets consecutive lines (LinesInOrder).
THEOREM LinesComeInOrder == Spec => []LinesInOrder
  <1>1. IndInv => LinesInOrder
    BY DEF IndInv, InOrder, OrderIn, LinesInOrder, Line, LineAt
  <1> QED BY <1>1, Invariance, PTL

\* After the word that the log is closed comes one line at most
\* (AtMostOneLate).
THEOREM OneLateAtMost == Spec => []AtMostOneLate
  <1>1. ASSUME IndInv
        PROVE  AtMostOneLate
    <2> SUFFICES ASSUME NEW c \in Clients, NEW i \in 1..Len(feed[c]),
                        NEW j \in 1..Len(feed[c]), NEW k \in 1..Len(feed[c]), i < j, j < k,
                        feed[c][i][2] = 0, Line(c, feed[c][i][1], j), Line(c, feed[c][i][1], k)
                 PROVE  FALSE
      BY DEF AtMostOneLate
    <2> DEFINE r == feed[c][i][1]
    <2>1. r \in Readers
      <3>1. feed[c] \in Seq(Readers \X (0..MaxLines))
        BY <1>1 DEF IndInv, TypeOK
      <3>2. feed[c][i] \in Readers \X (0..MaxLines)
        BY <3>1
      <3> QED BY <3>2
    <2>2. ExitAt(feed[c], r, i) /\ LineAt(feed[c], r, j) /\ LineAt(feed[c], r, k)
      BY DEF ExitAt, LineAt, Line
    <2> HIDE DEF r
    <2> QED BY <1>1, <2>1, <2>2 DEF IndInv, OneLate, OneLateIn
  <1> QED BY <1>1, Invariance, PTL
=============================================================================
