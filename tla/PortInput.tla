------------------------------ MODULE PortInput ------------------------------
(***************************************************************************)
(* The text of one port selector of LogSettingsActivity: what the length   *)
(* filter of its layout and the range filter of its view let through.      *)
(***************************************************************************)
EXTENDS Integers, Sequences, FiniteSetsExt

CONSTANTS Digits, MaxPaste \* the keys, and the digits inserted at once

VARIABLE text \* the digits shown

MAX_LENGTH == 5
MAX_PORT   == 65535

Value(digits) ==
  LET first[n \in 0..Len(digits)] ==
        IF n = 0 THEN 0 ELSE 10 * first[n - 1] + digits[n]
  IN first[Len(digits)]

TypeOK == text \in Seq(0..9) /\ Len(text) <= MAX_LENGTH

Init == text = <<>>

\* The port of a selector, or -1.
getPort == IF text = <<>> THEN -1 ELSE Value(text)

\* Mistake: what is there already is not counted.
CutAlone(new, kept) == SubSeq(new, 1, Min({Len(new), MAX_LENGTH}))

\* The length filter cuts an insertion that finds no room.
Fitting(new, kept) == SubSeq(new, 1, Min({Len(new), MAX_LENGTH - kept}))

\* Mistake: the insertion alone must be a port.
InsertionOnly(new) == new # <<>> /\ Value(new) <= MAX_PORT

\* The range filter joins the insertion and the whole old text, wherever the
\* one goes and whatever of the other it replaces.
Accepted(new) == new \o text # <<>> /\ Value(new \o text) <= MAX_PORT

\* text[from+1..to] is replaced; what is refused is replaced by nothing.
Edit(from, to, typed) ==
  LET new == Fitting(typed, Len(text) - (to - from)) IN
  text' = SubSeq(text, 1, from) \o (IF Accepted(new) THEN new ELSE <<>>)
            \o SubSeq(text, to + 1, Len(text))

\* The view is made anew and its text set again, through the filters.
Restore == text' = IF getPort <= MAX_PORT THEN text ELSE <<>>

Next ==
  \/ \E to \in 0..Len(text) : \E from \in 0..to :
       \E n \in 0..MaxPaste : \E typed \in [1..n -> Digits] : Edit(from, to, typed)
  \/ Restore

Spec == Init /\ [][Next]_text

-----------------------------------------------------------------------------
(* Properties.                                                             *)

\* The highest number with five digits that are those of a port: 59999 is one.
HIGHEST == 99995

\* However it was typed, pasted and cut, the digits of the text and of the port
\* that is asked for are, in some order, those of a port: 80001 may be entered
\* (and 27017 is refused from left to right), but not 99999.
DigitsOfPort ==
  /\ \E order \in Bijection(1..Len(text), 1..Len(text)) :
       Value([i \in 1..Len(text) |-> text[order[i]]]) <= MAX_PORT
  /\ getPort <= HIGHEST
=============================================================================
