---------------------------- MODULE PortSelectors ----------------------------
(***************************************************************************)
(* The port selectors of LogSettingsActivity: the list the activity keeps, *)
(* the fragments the framework keeps, and the tags that should bring the   *)
(* two together again when the activity is made anew.                      *)
(***************************************************************************)
EXTENDS Integers, Sequences, SequencesExt

CONSTANTS
  NULL,
  MaxSelectors, MaxRestores \* bounds

VARIABLES
  portSelectors, \* of the activity: fragments, or NULL
  shown,         \* the fragments on the screen, in the order of their addition,
                 \* with their tags
  made,          \* fragments made so far
  restores,      \* times the activity was made anew
  asked,         \* the fragments whose ports a recording was started with
  crashed

vars == <<portSelectors, shown, made, restores, asked, crashed>>

Fragments == {shown[i].id : i \in DOMAIN shown}

TypeOK ==
  /\ portSelectors \in Seq(1..MaxSelectors \cup {NULL})
  /\ shown \in Seq([id : 1..MaxSelectors, tag : Nat]) /\ made \in 0..MaxSelectors
  /\ restores \in 0..MaxRestores /\ asked \subseteq 1..MaxSelectors /\ crashed \in BOOLEAN

\* onCreate adds a first selector.
Init ==
  /\ portSelectors = <<1>> /\ shown = <<[id |-> 1, tag |-> 1]>> /\ made = 1
  /\ restores = 0 /\ asked = {} /\ crashed = FALSE

Open == asked = {} /\ ~crashed

\* What _addPortFragment makes of a list and a screen.
WithNew(selectors, screen) ==
  /\ made < MaxSelectors /\ made' = made + 1
  /\ portSelectors' = Append(selectors, made')
  /\ shown' = Append(screen, [id |-> made', tag |-> Len(selectors) + 1])

AddPort ==
  /\ Open /\ shown # <<>> /\ WithNew(portSelectors, shown)
  /\ UNCHANGED <<restores, asked, crashed>>

\* Mistake: the fragment stays on the screen.
StillShown(id) == shown

\* Mistake: the selector stays in the list.
StillListed(id) == portSelectors

\* The list may hold a selector twice once the screen was made anew: it is the
\* first that goes.
Unlisted(id) == RemoveFirst(portSelectors, id)
Hidden(id)   == RemoveFirstMatch(shown, LAMBDA f : f.id = id)

\* _removePortFragment: one that is not in the list stays; the list does not
\* stay empty.
RemovePort(id) ==
  /\ Open /\ Contains(portSelectors, id)
  /\ IF Unlisted(id) = <<>> THEN WithNew(<<>>, Hidden(id))
     ELSE portSelectors' = Unlisted(id) /\ shown' = Hidden(id) /\ UNCHANGED made
  /\ UNCHANGED <<restores, asked, crashed>>

\* findFragmentByTag: the last one that was added under the tag.
ByTag(tag) ==
  LET with == {i \in DOMAIN shown : shown[i].tag = tag}
  IN IF with = {} THEN NULL ELSE shown[CHOOSE i \in with : \A j \in with : j <= i].id

\* onSaveInstanceState and onCreate: the tags are looked up from 0, and were
\* given from 1.
Restore ==
  /\ Open /\ restores < MaxRestores /\ restores' = restores + 1
  /\ portSelectors' = [i \in 1..Len(portSelectors) |-> ByTag(i - 1)]
  /\ UNCHANGED <<shown, made, asked, crashed>>

\* onAppHeaderToggleClicked: every selector of the list is asked for its port;
\* one that is not there, or has no view, ends the process.
Toggle ==
  /\ Open
  /\ IF \A i \in DOMAIN portSelectors : portSelectors[i] \in Fragments
     THEN asked' = {portSelectors[i] : i \in DOMAIN portSelectors} /\ UNCHANGED crashed
     ELSE crashed' = TRUE /\ UNCHANGED asked
  /\ UNCHANGED <<portSelectors, shown, made, restores>>

Next ==
  \/ AddPort \/ Restore \/ Toggle
  \/ \E id \in Fragments : RemovePort(id)

Spec == Init /\ [][Next]_vars

-----------------------------------------------------------------------------
(* Properties.                                                             *)

\* A recording is started with the ports of every selector on the screen and of
\* no other: selectors the list has lost never make it start with fewer.
AsksWhatIsShown == asked # {} => asked = Fragments

\* The start button ends the process only on a screen that was made anew.
CrashNeedsRestore == crashed => restores > 0

\* Both of these: the list of selectors and the screen agree until the screen is
\* made anew.
SelectorsAgree == AsksWhatIsShown /\ CrashNeedsRestore
=============================================================================
