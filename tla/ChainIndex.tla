----------------------------- MODULE ChainIndex -----------------------------
(***************************************************************************)
(* How libiptc, on which every iptables command of the recorder runs,      *)
(* finds a chain: a list of the user-defined chains that is kept sorted,   *)
(* and an index into it, an array with a pointer to the first chain of     *)
(* every bucket.  Creating a chain only makes a bucket longer; deleting or *)
(* renaming one moves or rebuilds the pointers.                            *)
(*                                                                         *)
(* A name is a number, compared by size.  The list is circular: what       *)
(* follows the last chain is the head of the list inside struct            *)
(* xtc_handle, and the code takes the memory behind it, the iterator, for  *)
(* a chain's name.  Every command has walked the iterator to its end by    *)
(* the time it deletes a chain, so that this name is the empty one, below  *)
(* all others: HEAD is 0.  Built-in chains, which precede the others and   *)
(* are not indexed, are left out; the chains deleted have no rules and no  *)
(* references.                                                             *)
(***************************************************************************)
EXTENDS Integers, Sequences, FiniteSetsExt

CONSTANTS
  Names,                   \* names of chains, numbers above 0
  CHAIN_INDEX_BUCKET_LEN,
  CHAIN_INDEX_INSERT_MAX,
  NULL

HEAD == 0

VARIABLES
  chains,       \* the names in the list, in its order
  chain_index,  \* pointers to chains, HEAD or NULL
  renamed,      \* a chain has been renamed since the table was read
  faulted       \* NULL was followed, or a pointer to a freed chain is left: the
                \* end of what is modelled

vars == <<chains, chain_index, renamed, faulted>>

TypeOK ==
  /\ chains \in Seq(Names) /\ chain_index \in Seq(Names \cup {HEAD, NULL})
  /\ renamed \in BOOLEAN /\ faulted \in BOOLEAN

Init == chains = <<>> /\ chain_index = <<>> /\ renamed = FALSE /\ faulted = FALSE

-----------------------------------------------------------------------------
(* Search.                                                                 *)

\* Where a search ends: at a pointer, and its place in the array, -1 if none.
Stop(ptr, idx) == [ptr |-> ptr, idx |-> idx, fault |-> FALSE]
Fault          == [ptr |-> HEAD, idx |-> -1, fault |-> TRUE]

\* From every place of the array, and end of what is left of it, that the loop
\* may come to.  A NULL at pos is noticed, a NULL behind it is followed.
Search(name, index) ==
  LET sz == Len(index)
      At(i) == index[i + 1]
      loop[p \in {q \in (0..sz) \X (0..sz) : q[1] < q[2]}] ==
        LET pos == p[1]  end == p[2] IN
        CASE At(pos) = NULL -> Stop(HEAD, -1)
          [] At(pos) # NULL /\ name <= At(pos) /\ (name = At(pos) \/ pos = 0)
               -> Stop(At(pos), pos)
          [] At(pos) # NULL /\ name < At(pos) /\ pos > 0
               -> loop[<<pos \div 2, pos>>]
          [] OTHER ->
               IF pos = sz - 1 THEN Stop(At(pos), pos)
               ELSE IF At(pos + 1) = NULL THEN Fault
               ELSE IF name < At(pos + 1) THEN Stop(At(pos), pos)
               ELSE loop[<<(pos + end) \div 2, end>>]
  IN loop

Bsearch(name, index) ==
  IF index = <<>> THEN Stop(HEAD, -1)
  ELSE Search(name, index)[<<Len(index) \div 2, Len(index)>>]

\* Mistake: an early end of the search means that there is no such chain.
StartOrNone(ptr) ==
  IF ptr \in Range(chains) THEN CHOOSE i \in DOMAIN chains : chains[i] = ptr
  ELSE Len(chains) + 1

\* A search that ended early starts at the first chain.
StartAt(ptr) ==
  IF ptr \in Range(chains) THEN CHOOSE i \in DOMAIN chains : chains[i] = ptr ELSE 1

\* The walk along the list ends at the first name that is not lower.
FindLabel(name) ==
  \E i \in StartAt(Bsearch(name, chain_index).ptr)..Len(chains) :
    /\ chains[i] = name
    /\ \A j \in StartAt(Bsearch(name, chain_index).ptr)..i - 1 : chains[j] < name

-----------------------------------------------------------------------------
(* The list and its index.                                                 *)

\* Where the list has its first name that is not lower, from start on.
Inserted(list, name, start) ==
  LET above == {i \in start..Len(list) : name <= list[i]}
      at == Min(above)
  IN IF above = {} THEN Append(list, name)
     ELSE SubSeq(list, 1, at - 1) \o <<name>> \o SubSeq(list, at, Len(list))

\* Mistake: a chain below all others does not become the first of its bucket.
InsertBehind(list, index, name) ==
  LET s == Bsearch(name, index)
      start == IF s.ptr \in Range(list) THEN CHOOSE i \in DOMAIN list : list[i] = s.ptr ELSE 1
  IN [list |-> Inserted(list, name, start), index |-> index, fault |-> s.fault]

\* iptc_insert_chain: from where the search ended, or from the first chain.
Insert(list, index, name) ==
  LET s     == Bsearch(name, index)
      first == s.idx = 0 /\ name <= index[1]
      start == IF ~first /\ s.ptr \in Range(list)
               THEN CHOOSE i \in DOMAIN list : list[i] = s.ptr ELSE 1
  IN [list  |-> Inserted(list, name, start),
      index |-> IF first THEN [index EXCEPT ![1] = name] ELSE index,
      fault |-> s.fault]

\* The list without a chain.
Without(list, name) ==
  LET at == CHOOSE i \in DOMAIN list : list[i] = name
  IN SubSeq(list, 1, at - 1) \o SubSeq(list, at + 1, Len(list))

\* An array for num chains, filled from the list.
Rebuilt(list, num) ==
  [k \in 1..((num + CHAIN_INDEX_BUCKET_LEN - 1) \div CHAIN_INDEX_BUCKET_LEN) |->
     LET i == (k - 1) * CHAIN_INDEX_BUCKET_LEN + 1
     IN IF i <= Len(list) THEN list[i] ELSE NULL]

\* Mistake: the chain is only taken out of the list.
IndexKept(name, num) == {[index |-> chain_index, fault |-> FALSE]}

\* The index without the chain, when num chains are counted: its pointer moves
\* to the next chain if that is in the same bucket.  A search that ends early
\* leaves idx2 as it was, which is anything.
IndexWithout(name, num) ==
  LET s    == Bsearch(name, chain_index)
      at   == CHOOSE i \in DOMAIN chains : chains[i] = name
      next == IF at < Len(chains) THEN chains[at + 1] ELSE HEAD
      s2   == Bsearch(next, chain_index)
      moved   == [index |-> [chain_index EXCEPT ![s.idx + 1] = next], fault |-> s2.fault]
      rebuilt == [index |-> Rebuilt(Without(chains, name), num), fault |-> s2.fault]
  IN IF s.fault \/ s.ptr # name THEN {[index |-> chain_index, fault |-> s.fault]}
     ELSE CASE s2.idx = s.idx -> {moved}
            [] s2.idx = -1    -> {moved, rebuilt}
            [] OTHER          -> {rebuilt}

-----------------------------------------------------------------------------
(* Operations.                                                             *)

CreateChain(name) ==
  /\ ~faulted /\ ~Bsearch(name, chain_index).fault /\ ~FindLabel(name)
  /\ LET new == Insert(chains, chain_index, name)
         num == Len(chains) + 1
     IN /\ chains' = new.list
        /\ chain_index' =
             IF num - Len(chain_index) * CHAIN_INDEX_BUCKET_LEN > CHAIN_INDEX_INSERT_MAX
             THEN Rebuilt(new.list, num) ELSE new.index
  /\ UNCHANGED <<renamed, faulted>>

DeleteChain(name) ==
  /\ ~faulted /\ ~Bsearch(name, chain_index).fault /\ FindLabel(name)
  /\ chains' = Without(chains, name)
  /\ \E i \in IndexWithout(name, Len(chains) - 1) :
       chain_index' = i.index /\ faulted' = (i.fault \/ name \in Range(i.index))
  /\ UNCHANGED renamed

\* The chain is still counted while it is out of the list; a pointer that was
\* left to it is one to its new name.
RenameChain(old, new) ==
  /\ ~faulted /\ \A n \in {old, new} : ~Bsearch(n, chain_index).fault
  /\ ~FindLabel(new) /\ FindLabel(old)
  /\ \E i \in IndexWithout(old, Len(chains)) :
       LET kept  == [k \in DOMAIN i.index |-> IF i.index[k] = old THEN new ELSE i.index[k]]
           moved == Insert(Without(chains, old), kept, new)
       IN /\ chains' = moved.list /\ chain_index' = moved.index
          /\ faulted' = (i.fault \/ moved.fault)
  /\ renamed' = TRUE

\* Any of them looks for a chain and follows a NULL.
Crash ==
  /\ ~faulted /\ \E n \in Names : Bsearch(n, chain_index).fault
  /\ faulted' = TRUE /\ UNCHANGED <<chains, chain_index, renamed>>

\* The table is written and read by the next command.
Reopen ==
  /\ ~faulted /\ chain_index' = Rebuilt(chains, Len(chains)) /\ renamed' = FALSE
  /\ UNCHANGED <<chains, faulted>>

Next ==
  \/ \E n \in Names : CreateChain(n) \/ DeleteChain(n)
  \/ \E old, new \in Names : RenameChain(old, new)
  \/ Crash
  \/ Reopen

Spec == Init /\ [][Next]_vars

-----------------------------------------------------------------------------
(* Properties.                                                             *)

\* A chain is found through the index if and only if it is in the list, after
\* any sequence of creations, deletions and renamings: a pointer that is past
\* the chain would hide it, and "iptables -N netrec" would add a second one.
FindsExactly ==
  \A n \in Names : Bsearch(n, chain_index).fault \/ (FindLabel(n) <=> n \in Range(chains))

\* The list is sorted, without duplicates: an insertion that started behind its
\* place would break it for every search after.
Sorted == \A i \in 1..Len(chains) - 1 : chains[i] < chains[i + 1]

\* Until a chain is renamed, whose rebuild counts one too many and leaves a NULL,
\* the index has no NULL and no pointer to a chain that was freed, and no search
\* follows one.
IndexIsLive ==
  ~renamed => ~faulted /\ Range(chain_index) \subseteq Range(chains) \cup {HEAD}

\* All of these: after any sequence of edits the index answers as a walk through
\* the sorted list would.
IndexFindsChains == FindsExactly /\ Sorted /\ IndexIsLive
=============================================================================
