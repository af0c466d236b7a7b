------------------------------ MODULE NatTable ------------------------------
(***************************************************************************)
(* The nat table in the kernel, the scripts of IPTables.java that edit it, *)
(* and another program that does so too.                                   *)
(*                                                                         *)
(* Every line of a script is a process of its own: it reads the whole      *)
(* table (TC_INIT), edits its copy, and writes the whole table back        *)
(* (TC_COMMIT), first the entries and then, since the kernel starts them   *)
(* at zero, the counters.  The kernel refuses a table when the number of   *)
(* entries is not the one that was read, and nothing else.                 *)
(*                                                                         *)
(* The table has the built-in chain OUTPUT, which ends in its policy,      *)
(* netrec once it is made, between its name and its return, and an error   *)
(* entry at the end.  The other program keeps one rule in OUTPUT.          *)
(***************************************************************************)
EXTENDS Naturals, Sequences, FiniteSets, SequencesExt

CONSTANTS
  Ports,        \* application id |-> the ports of its rules, in order
  MaxScripts, MaxFailures, MaxEdits, MaxPackets  \* bounds

VARIABLES
  table,     \* the entries in the kernel: chain, rule and packet counter
  session,   \* of the recorder's command and of the other program
  script,    \* the script that runs, or ran last
  foreign,   \* the rule that the other program has written, or None
  hits,      \* rule |-> packets that matched it since it is in the table
  collided,  \* a table was written over one of the same length that was not read,
             \* or its counters added to one that was not written
  blind,     \* a listing of OUTPUT failed
  budget     \* scripts, failures, edits of the other program and packets so far

vars == <<table, session, script, foreign, hits, collided, blind, budget>>

Uids     == DOMAIN Ports
Redirect == UNION {{<<"redirect", u, Ports[u][k]>> : k \in DOMAIN Ports[u]} : u \in Uids}
Jump     == <<"jump">>
Other    == {<<"other", 1>>, <<"other", 2>>}
Rules    == Redirect \cup {Jump} \cup Other
None     == <<"none">>
Policy   == <<"policy">>
Marks    == {Policy, <<"head">>, <<"return">>, <<"error">>}
Procs    == {"recorder", "other"}

Entry(c, r) == [chain |-> c, rule |-> r, cnt |-> 0]
Idle        == [at |-> "idle", cache |-> <<>>, num |-> 0, stale |-> FALSE, plus |-> <<>>]
RuleSet(t)    == {t[i].rule : i \in DOMAIN t}

TypeOK ==
  /\ \A i \in DOMAIN table : table[i].rule \in Rules \cup Marks /\ table[i].cnt \in Nat
  /\ \A p \in Procs :
       /\ session[p].at \in {"idle", "cached", "adding"}
       /\ session[p].plus \in Seq(Nat)
  /\ script.status \in {"running", "ok", "failed"} /\ foreign \in Other \cup {None}
  /\ hits \in [Rules \cup {Policy} -> 0..MaxPackets]
  /\ collided \in BOOLEAN /\ blind \in BOOLEAN

Init ==
  /\ table = <<Entry("OUTPUT", Policy), Entry("", <<"error">>)>>
  /\ session = [p \in Procs |-> Idle]
  /\ script = [kind |-> "remove", uid |-> 0, step |-> "end", k |-> 0, status |-> "ok"]
  /\ foreign = None /\ hits = [r \in Rules \cup {Policy} |-> 0]
  /\ collided = FALSE /\ blind = FALSE
  /\ budget = [scripts |-> 0, failures |-> 0, edits |-> 0, packets |-> 0]

-----------------------------------------------------------------------------
(* A process and its copy of the table.                                    *)

\* Mistake: a rule gets the counter of the entry at its new place.
ParseUnmapped(t) ==
  [i \in DOMAIN t |->
     [chain |-> t[i].chain, rule |-> t[i].rule, cnt |-> t[i].cnt, pos |-> 1,
      map |-> IF t[i].rule \in Rules THEN "NORMAL_MAP" ELSE "NOMAP"]]

\* cache_add_entry: a policy is marked as if it were zeroed.
Parse(t) ==
  [i \in DOMAIN t |->
     [chain |-> t[i].chain, rule |-> t[i].rule, cnt |-> t[i].cnt, pos |-> i,
      map |-> IF t[i].rule \in Rules THEN "NORMAL_MAP"
              ELSE IF t[i].rule = Policy THEN "ZEROED" ELSE "NOMAP"]]

New(c, r) == [chain |-> c, rule |-> r, cnt |-> 0, pos |-> 0, map |-> "SET"]
HasChain(t, c) == \E i \in DOMAIN t : t[i].chain = c
HeadOf(t, c)   == CHOOSE i \in DOMAIN t : t[i].chain = c /\ t[i].rule = <<"head">>
FootOf(t, c)   == CHOOSE i \in DOMAIN t : t[i].chain = c /\ t[i].rule \in {Policy, <<"return">>}
FirstOf(t, r)  == CHOOSE i \in DOMAIN t : t[i].rule = r

\* TC_CREATE_CHAIN, TC_APPEND_ENTRY, TC_INSERT_ENTRY at the head of OUTPUT,
\* TC_REPLACE_ENTRY, TC_DELETE_ENTRY, TC_FLUSH_ENTRIES.
CreateChain(t, c)     == SubSeq(t, 1, Len(t) - 1)
                           \o <<New(c, <<"head">>), New(c, <<"return">>)>> \o <<Last(t)>>
AppendEntry(t, c, r)  == InsertAt(t, FootOf(t, c), New(c, r))
InsertEntry(t, c, r)  == InsertAt(t, 1, New(c, r))
ReplaceEntry(t, o, r) == [t EXCEPT ![FirstOf(t, o)] = New(@.chain, r)]
DeleteEntry(t, r)     == RemoveAt(t, FirstOf(t, r))
FlushEntries(t, c)    == SubSeq(t, 1, HeadOf(t, c)) \o SubSeq(t, FootOf(t, c), Len(t))

\* TC_INIT, and the edit of the copy.
Cached(edited) ==
  [at |-> "cached", cache |-> edited, num |-> Len(table), stale |-> FALSE, plus |-> <<>>]

\* What to add to the counter of entry e: `old' is what the kernel returned.
Plus(e, old) ==
  CASE e.map = "NORMAL_MAP" -> old[e.pos].cnt
    [] e.map = "ZEROED" -> IF old[e.pos].cnt >= e.cnt THEN old[e.pos].cnt - e.cnt ELSE 0
    [] e.map \in {"NOMAP", "SET"} -> 0

\* Mistake: whatever is in the kernel is replaced.
AcceptAny(p) == TRUE

\* The kernel's comparison of repl->num_counters with what it has.
Accepts(p) == session[p].num = Len(table)

\* SO_SET_REPLACE
Replace(p) ==
  /\ session[p].at = "cached" /\ Accepts(p)
  /\ LET new == session[p].cache
         q   == CHOOSE x \in Procs : x # p
     IN /\ table' = [i \in DOMAIN new |-> Entry(new[i].chain, new[i].rule)]
        /\ session' = [session EXCEPT
             ![p] = [at |-> "adding", cache |-> <<>>, num |-> 0, stale |-> FALSE,
                     plus |-> [i \in DOMAIN new |-> Plus(new[i], table)]],
             ![q].stale = session[q].at # "idle"]
        /\ hits' = [r \in DOMAIN hits |->
                      IF r \in RuleSet(table) \cap RuleSet(new) THEN hits[r] ELSE 0]
        /\ foreign' = IF p = "recorder" THEN foreign
                      ELSE IF RuleSet(new) \cap Other = {} THEN None
                      ELSE CHOOSE r \in Other : r \in RuleSet(new)
        /\ collided' = (collided \/ (session[p].stale /\ session[p].num = Len(table)))
  /\ UNCHANGED <<script, blind, budget>>

\* Mistake: the counters of the new table are left as they are.
AddNothing(p) == table

\* SO_SET_ADD_COUNTERS
Added(p) == [i \in DOMAIN table |-> [table[i] EXCEPT !.cnt = @ + session[p].plus[i]]]

AddCounters(p) ==
  /\ session[p].at = "adding" /\ Len(session[p].plus) = Len(table)
  /\ table' = Added(p) /\ session' = [session EXCEPT ![p] = Idle]
  /\ collided' = (collided \/ session[p].stale)
  /\ UNCHANGED <<foreign, hits, blind, budget>>

\* Either call is refused.
Refused(p) ==
  /\ \/ session[p].at = "cached" /\ ~Accepts(p) /\ UNCHANGED collided
     \/ /\ session[p].at = "adding" /\ Len(session[p].plus) # Len(table)
        /\ collided' = TRUE
  /\ session' = [session EXCEPT ![p] = Idle]
  /\ UNCHANGED <<table, foreign, hits, blind, budget>>

-----------------------------------------------------------------------------
(* The scripts of applyRules and removeRules, command by command.          *)

Spend(what) == budget' = [budget EXCEPT ![what] = @ + 1]

Start(kind, u) ==
  /\ script.step = "end" /\ budget.scripts < MaxScripts /\ Spend("scripts")
  /\ script' = [kind |-> kind, uid |-> u, step |-> "find", k |-> 1, status |-> "running"]
  /\ UNCHANGED <<table, session, foreign, hits, collided, blind>>

ExitWith(status) == [script EXCEPT !.step = "end", !.status = status]
At(step)         == script.step = step /\ session["recorder"] = Idle

\* -L netrec
Find ==
  /\ At("find")
  /\ script' = [script EXCEPT !.step = IF script.kind = "remove" THEN "flush"
                                       ELSE IF HasChain(table, "netrec") THEN "grep" ELSE "new"]
  /\ script.kind = "remove" => HasChain(table, "netrec")
  /\ UNCHANGED <<table, session, foreign, hits, collided, blind, budget>>

\* Mistake: the chain is linked whether it was or not.
GrepNothing ==
  /\ At("grep") /\ script' = [script EXCEPT !.step = "link"]
  /\ UNCHANGED <<table, session, foreign, hits, collided, blind, budget>>

\* -L OUTPUT | grep netrec
Grep ==
  /\ At("grep")
  /\ script' = [script EXCEPT !.step = IF Jump \in RuleSet(table) THEN "flush" ELSE "link"]
  /\ UNCHANGED <<table, session, foreign, hits, collided, blind, budget>>

NextRedirect == <<"redirect", script.uid, Ports[script.uid][script.k]>>

\* Mistake: the rules are added to those of the last recording.
EditUnflushed(t) ==
  CASE script.step = "new"    -> CreateChain(t, "netrec")
    [] script.step = "link"   -> AppendEntry(t, "OUTPUT", Jump)
    [] script.step = "flush"  -> t
    [] script.step = "append" -> AppendEntry(t, "netrec", NextRedirect)

\* --new netrec; -A OUTPUT -j netrec; -F netrec; -A netrec ... REDIRECT
Edit(t) ==
  CASE script.step = "new"    -> CreateChain(t, "netrec")
    [] script.step = "link"   -> AppendEntry(t, "OUTPUT", Jump)
    [] script.step = "flush"  -> FlushEntries(t, "netrec")
    [] script.step = "append" -> AppendEntry(t, "netrec", NextRedirect)

Possible == HasChain(table, "netrec") <=> script.step # "new"

Edits ==
  /\ script.step \in {"new", "link", "flush", "append"} /\ At(script.step) /\ Possible
  /\ session' = [session EXCEPT !["recorder"] = Cached(Edit(Parse(table)))]
  /\ UNCHANGED <<table, script, foreign, hits, collided, blind, budget>>

\* Mistake: the chain is not linked when it is new.
NextCommandUnlinked ==
  CASE script.step = "new"  -> [script EXCEPT !.step = "flush"]
    [] script.step = "link" -> [script EXCEPT !.step = "flush"]
    [] script.step = "flush" /\ script.kind = "apply" -> [script EXCEPT !.step = "append"]
    [] script.step = "append" /\ script.k < Len(Ports[script.uid]) -> [script EXCEPT !.k = @ + 1]
    [] OTHER -> ExitWith("ok")

NextCommand ==
  CASE script.step = "new"  -> [script EXCEPT !.step = "grep"]
    [] script.step = "link" -> [script EXCEPT !.step = "flush"]
    [] script.step = "flush" /\ script.kind = "apply" -> [script EXCEPT !.step = "append"]
    [] script.step = "append" /\ script.k < Len(Ports[script.uid]) -> [script EXCEPT !.k = @ + 1]
    [] OTHER -> ExitWith("ok")

Done == AddCounters("recorder") /\ script' = NextCommand

\* A command that could not commit: all that do are followed by an exit.
NotDone == Refused("recorder") /\ script' = ExitWith("failed")

\* A command that does not get to its commit: it cannot do what it is to do, or
\* fails.  TC_INIT fails when the table changes between its two calls, since it
\* tries again on a socket that it has closed.
Fails ==
  /\ script.step # "end" /\ session["recorder"].at # "adding"
  /\ \/ /\ budget.failures < MaxFailures /\ Spend("failures")
     \/ /\ At(script.step) /\ UNCHANGED budget
        /\ \/ script.step \in {"new", "link", "flush", "append"} /\ ~Possible
           \/ script.step = "find" /\ script.kind = "remove" /\ ~HasChain(table, "netrec")
  /\ script' = CASE script.step = "find" /\ script.kind = "apply" -> [script EXCEPT !.step = "new"]
                 [] script.step = "grep" -> [script EXCEPT !.step = "link"]
                 [] OTHER -> ExitWith("failed")
  /\ blind' = (blind \/ script.step = "grep")
  /\ session' = [session EXCEPT !["recorder"] = Idle]
  /\ UNCHANGED <<table, foreign, hits, collided>>

-----------------------------------------------------------------------------
(* The other program, and the traffic.                                     *)

OtherEdits ==
  /\ session["other"] = Idle /\ budget.edits < MaxEdits /\ Spend("edits")
  /\ LET t == Parse(table) IN \E new \in
       {InsertEntry(t, "OUTPUT", r) : r \in IF RuleSet(t) \cap Other = {} THEN {<<"other", 1>>} ELSE {}}
         \cup {DeleteEntry(t, r) : r \in RuleSet(t) \cap Other}
         \cup {ReplaceEntry(t, <<"other", 1>>, r) :
                 r \in IF <<"other", 1>> \in RuleSet(t) THEN {<<"other", 2>>} ELSE {}} :
       session' = [session EXCEPT !["other"] = Cached(new)]
  /\ UNCHANGED <<table, script, foreign, hits, collided, blind>>

OtherDone == (AddCounters("other") \/ Refused("other")) /\ UNCHANGED script

Packet(i) ==
  /\ table[i].rule \in Rules \cup {Policy} /\ budget.packets < MaxPackets /\ Spend("packets")
  /\ table' = [table EXCEPT ![i].cnt = @ + 1]
  /\ hits' = [hits EXCEPT ![table[i].rule] = @ + 1]
  /\ UNCHANGED <<session, script, foreign, collided, blind>>

Next ==
  \/ \E u \in Uids : Start("apply", u)
  \/ Start("remove", 0)
  \/ Find \/ Grep \/ Edits \/ Done \/ NotDone \/ Fails
  \/ OtherEdits \/ OtherDone
  \/ \E p \in Procs : Replace(p)
  \/ \E i \in DOMAIN table : Packet(i)

\* Once collided, nothing is promised any more: the end of what is modelled.
Step == ~collided /\ Next

Spec == Init /\ [][Step]_vars

-----------------------------------------------------------------------------
(* Properties.                                                             *)

\* The rules between the name of the chain and its return.
Netrec ==
  IF ~HasChain(table, "netrec") THEN <<>>
  ELSE [i \in 1..(FootOf(table, "netrec") - HeadOf(table, "netrec") - 1) |->
          table[HeadOf(table, "netrec") + i].rule]

Times(r) == Cardinality({i \in DOMAIN table : table[i].rule = r})

\* A script that reports success has done its work, whatever scripts failed half
\* way before it: the chain has the rules of the application, all of them and no
\* other, and is reached from OUTPUT; or it is empty.
ScriptKeepsPromise ==
  script.status = "ok" /\ ~collided =>
    IF script.kind = "apply"
    THEN /\ Netrec = [k \in DOMAIN Ports[script.uid] |-> <<"redirect", script.uid, Ports[script.uid][k]>>]
         /\ Times(Jump) > 0
    ELSE Netrec = <<>>

\* Redirects of two applications are never in the chain together, not even
\* after a script that failed.
OneUid == ~collided => Cardinality({r[2] : r \in RuleSet(table) \cap Redirect}) <= 1

\* However often scripts run and fail, the chain is linked once, unless a
\* listing of OUTPUT failed, which grep takes for one without the chain.
LinkedOnce == ~collided /\ ~blind => Times(Jump) <= 1

\* The packets counted for a rule, by all of its entries.
Sums(counts) ==
  LET upTo[n \in 0..Len(counts)] == IF n = 0 THEN 0 ELSE upTo[n - 1] + counts[n] IN upTo
Counts(r)  == [i \in 1..Len(table) |-> IF table[i].rule = r THEN table[i].cnt ELSE 0]
Counted(r) == Sums(Counts(r))[Len(table)]

\* When no counters are on their way, those of every rule that stayed have every
\* packet that matched it, also between the two calls of a commit; those of the
\* policy, which libiptc parses as zeroed, have some.
CountersKept ==
  (\A p \in Procs : session[p].at # "adding") /\ ~collided =>
    /\ \A r \in Rules : Counted(r) = hits[r]
    /\ \A i \in DOMAIN table : table[i].rule = Policy => table[i].cnt <= hits[Policy]

\* The rule of the other program is what it wrote last: its changes are lost
\* only to a table of the same length.
OthersKept ==
  ~collided => RuleSet(table) \cap Other = {foreign} \ {None}

\* The first three: whatever failed before, a script leaves in the table what it
\* says.
ScriptsWork == ScriptKeepsPromise /\ OneUid /\ LinkedOnce

\* The last two: a commit loses nothing that came into the table meanwhile.
CommitsMerge == CountersKept /\ OthersKept
=============================================================================
