------------------------------- MODULE HexDump -------------------------------
(***************************************************************************)
(* write_hex of tcproxy: the dump of one write, laid out byte by byte at   *)
(* two moving places of one buffer, the numbers at hexpos and the          *)
(* characters ploc behind it.                                              *)
(***************************************************************************)
EXTENDS Integers, Sequences

CONSTANT Lengths \* of writes

VARIABLES
  len,    \* of this write
  hex,    \* position in the buffer |-> what was written there
  hexpos, ploc,
  bufpos, \* bytes done
  b,      \* of the line; 8 between two lines
  done

vars == <<len, hex, hexpos, ploc, bufpos, b, done>>

lines  == (len + 7) \div 8

\* Mistake: the end of the line is not counted.
ShortLines == lines * 40

hexlen == lines * 41

\* What the buffer can hold: <<"number", k>> for a digit of byte k, <<"char", k>>
\* for the byte itself, <<"offset">>, and
Space   == <<"space">>
Newline == <<"newline">>
NUL     == <<"NUL">>

TypeOK ==
  /\ len \in Lengths /\ DOMAIN hex \subseteq Int /\ hexpos \in Int /\ ploc \in Int
  /\ bufpos \in 0..len /\ b \in 0..8 /\ done \in BOOLEAN

Init ==
  /\ len \in Lengths /\ hex = <<>> /\ hexpos = 0 /\ ploc = 0 /\ bufpos = 0 /\ b = 8
  /\ done = FALSE

\* h with these characters from this position on.
Put(h, pos, chars) ==
  LET to == pos..(pos + Len(chars) - 1)
  IN [p \in to \cup DOMAIN h |-> IF p \in to THEN chars[p - pos + 1] ELSE h[p]]

\* sprintf puts a NUL behind what it prints.
Offset == LET o == <<"offset">> IN <<o, o, o, Space, Space, NUL>>
Number == <<<<"number", bufpos>>, <<"number", bufpos>>, Space, NUL>>

StartLine ==
  /\ b = 8 /\ bufpos < len
  /\ hex' = Put(hex, hexpos, Offset) /\ hexpos' = hexpos + 5
  /\ ploc' = 25 /\ b' = 0 /\ UNCHANGED <<len, bufpos, done>>

\* Mistake: the gap between the halves of a short line is forgotten.
PadShort(pos, loc) == [pos |-> pos + 3 * (7 - b) + 1, ploc |-> loc - 3 * (7 - b)]

\* The numbers that a short line lacks: three spaces each, one after the
\* fourth and one after the eighth.
Pad(pos, loc) ==
  LET gap == IF b < 3 THEN 1 ELSE 0
  IN [pos |-> pos + 3 * (7 - b) + gap + 1, ploc |-> loc - 3 * (7 - b) - gap]

Spaces(n) == [i \in 1..n |-> Space]

\* The number at hexpos, the character behind the space the line still needs,
\* and a gap after the fourth of both and after the eighth number; after the
\* last byte, spaces up to where the characters begin, and the end of the line.
Byte ==
  /\ b < 8
  /\ LET pos  == hexpos + 3
         loc  == ploc - 2
         one  == Put(Put(hex, hexpos, Number), pos + loc, <<<<"char", bufpos>>>>)
         gap  == b \in {3, 7}
         pos2 == IF gap THEN pos + 1 ELSE pos
         two  == IF gap THEN Put(one, pos, <<Space>>) ELSE one
         three == IF b = 3 THEN Put(two, pos2 + loc, <<Space>>) ELSE two
         last == bufpos + 1 = len /\ b < 7
         pad  == IF last THEN Pad(pos2, loc) ELSE [pos |-> pos2, ploc |-> loc]
         four == Put(three, pos2, Spaces(pad.pos - pos2))
     IN IF last \/ b = 7
        THEN /\ hex' = Put(four, pad.pos + pad.ploc, <<Newline>>)
             /\ hexpos' = pad.pos + pad.ploc + 1 /\ ploc' = pad.ploc /\ b' = 8
        ELSE hex' = four /\ hexpos' = pos2 /\ ploc' = loc /\ b' = b + 1
  /\ bufpos' = bufpos + 1 /\ UNCHANGED <<len, done>>

\* The dump ends with an empty line; its characters are written to the log.
Finish ==
  /\ b = 8 /\ bufpos = len /\ ~done /\ done' = TRUE
  /\ hex' = Put(hex, hexpos, <<Newline, NUL>>) /\ hexpos' = hexpos + 1
  /\ UNCHANGED <<len, ploc, bufpos, b>>

Next == StartLine \/ Byte \/ Finish

Spec == Init /\ [][Next]_vars

-----------------------------------------------------------------------------
(* Properties.                                                             *)

\* Nothing is ever written outside of the buffer, which has 41 characters for
\* each line and two more, however many bytes the last line has.
InBuffer == \A p \in DOMAIN hex : 0 <= p /\ p < hexlen + 2

\* The dump has no hole and no NUL, and the number and the character of each
\* byte are in the column of its place in the line.
ColumnsAlign ==
  done =>
    /\ \A p \in 0..(hexpos - 1) : p \in DOMAIN hex /\ hex[p] # NUL
    /\ \A k \in 0..(len - 1) :
         LET line == 41 * (k \div 8)
             col  == k % 8
             gap  == IF col > 3 THEN 1 ELSE 0
         IN /\ hex[line + 5 + 3 * col + gap] = <<"number", k>>
            /\ hex[line + 6 + 3 * col + gap] = <<"number", k>>
            /\ hex[line + 31 + col + gap] = <<"char", k>>

\* Both of these: for every number of bytes the dump is laid out right, within
\* its buffer.
DumpFits == InBuffer /\ ColumnsAlign
=============================================================================
