-------------------------- MODULE LibconfigOverlay --------------------------
(***************************************************************************)
(* How a commit patches rr.conf, sib.conf and rb.conf and how they are     *)
(* read again: patchLibconfigScalar and patchQCIProfile (internal/ems/     *)
(* configuration/renderer.go) against ParseRR, ParseSIB and ParseRB        *)
(* (srsranconf).  A file is the sequence of its assignments, each in a     *)
(* block; a block that may get new assignments shows as one itself.        *)
(* Comments and strings are skipped alike by both sides.  The layout is    *)
(* not: ParseRR goes by lines and ignores the case of a key, the others    *)
(* scan the bytes and ignore it too, and the patch scans the bytes for the *)
(* very key.                                                               *)
(***************************************************************************)
EXTENDS Integers, Sequences, SequencesExt

CONSTANTS
  Blocks,      \* the blocks of the file
  Keys,        \* the keys of its assignments
  Leaves,      \* the managed leaves in the order of sortedDirtyKeys; of each: the block
               \* it is read in ("any"), the key it is read from, the key that is
               \* patched, whether the patch keeps to the block, whether it may add
               \* the key, whether it is read line by line, whether the first or the
               \* last assignment is read, and whether a file without it is refused
  Forms,       \* how an assignment is written: of "line", at the start of a line in
               \* lower case, "upper", the same in another case, "inline", behind
               \* other text in the line, and "open", that without a semicolon in
               \* front of the brace that ends the block
  Values,      \* the values of a leaf
  MaxItems,    \* bound: the assignments at first
  MaxCommits   \* bound: the commits

VARIABLES
  items,    \* the assignments of the file
  orig,     \* those at first
  want,     \* the value of each leaf, as it was read or committed
  refused,  \* the leaves of the last commit if it was refused
  commits   \* the commits so far

vars == <<items, orig, want, refused, commits>>

Absent == -1
Container == -2    \* the value of an assignment that opens a container
Items == [block : Blocks, key : Keys, value : {0}, form : Forms]
           \cup [block : Blocks, key : {"container"}, value : {Container}, form : {"line"}]
-----------------------------------------------------------------------------
(* the assignment a leaf is read from: for ParseSIB and ParseRB the first of its
   block, however it is written (findAssignmentInText); for ParseRR the first or the
   last of the file at the start of a line (parseAssignmentLine) *)
ReadAt(is, l) ==
  LET Test(x) == /\ x.key = l.reads
                 /\ l.block = "any" \/ x.block = l.block
                 /\ l.lines => x.form \in {"line", "upper"}
  IN IF l.rule = "first" THEN SelectInSeq(is, Test) ELSE SelectLastInSeq(is, Test)

(* findScalarValueEnd, and findTextScalarValueEnd alike, want the end of a value *)
HasEnd(is, at) == at # 0 /\ is[at].form # "open"

Read(is, l) == LET at == ReadAt(is, l) IN IF HasEnd(is, at) THEN is[at].value ELSE Absent

(* findQCIBlock: a field of a profile is looked for in the block of its qci only *)
InProfile(x, l) == l.within => x.block = l.block

(* findAssignment: the first one with that very key *)
FindAssignment(is, l) ==
  SelectInSeq(is, LAMBDA x : x.key = l.patches /\ x.form # "upper" /\ InProfile(x, l))

(* findLibconfigContainer: a container of the profile; up to the next one the
   assignments of the block are in it *)
FindContainer(is, l) ==
  SelectInSeq(is, LAMBDA x : x.key = "container" /\ x.block = l.block)

(* insertQCIAssignment: a line at the end of the container *)
Insert(is, l, v) ==
  LET box == FindContainer(is, l)
      after == SelectInSeq(SubSeq(is, box + 1, Len(is)),
                           LAMBDA x : x.block # l.block \/ x.key = "container")
      end == IF after = 0 THEN Len(is) + 1 ELSE box + after
  IN InsertAt(is, end, [block |-> l.block, key |-> l.patches, value |-> v, form |-> "line"])

(* Fault: findAssignment from the start of the file in a profile too *)
PatchAnywhere(is, l, v) ==
  LET at == SelectInSeq(is, LAMBDA x : x.key = l.patches)
  IN IF at = 0 THEN is ELSE [is EXCEPT ![at].value = v]

(* Fault: the file is written anew with the managed leaves only *)
PatchRewrites(is, l, v) ==
  LET at == FindAssignment(is, l)
      new == IF HasEnd(is, at) THEN [is EXCEPT ![at].value = v] ELSE Insert(is, l, v)
  IN SelectSeq(new, LAMBDA x : \E i \in DOMAIN Leaves : x.key = Leaves[i].patches)

(* patchLibconfigScalar and patchQCIProfile *)
Patch(is, l, v) ==
  LET at == FindAssignment(is, l)
  IN IF HasEnd(is, at) THEN [is EXCEPT ![at].value = v] ELSE Insert(is, l, v)

(* Fault: the container is looked for although the key is there *)
NeedsContainer(is, l) == FindContainer(is, l) # 0

(* the key is there, or there is a place for it *)
CanPatch(is, l) ==
  \/ HasEnd(is, FindAssignment(is, l))
  \/ l.adds /\ FindContainer(is, l) # 0
-----------------------------------------------------------------------------
Init ==
  /\ items \in UNION {[1..n -> Items] : n \in 1..MaxItems}
  /\ \A i, j, k \in DOMAIN items :
       i < j /\ j < k /\ items[i].block = items[k].block => items[j].block = items[i].block
  /\ \A i \in DOMAIN Leaves : Leaves[i].required => Read(items, Leaves[i]) # Absent
  /\ orig = items
  /\ want = [i \in DOMAIN Leaves |-> Read(items, Leaves[i])]
  /\ refused = {}
  /\ commits = 0

(* Fault: the loop over the dirty keys ends after the first *)
CommitFirst(changes) ==
  LET first == CHOOSE i \in DOMAIN changes : \A j \in DOMAIN changes : i <= j
  IN /\ \A i \in DOMAIN changes : CanPatch(items, Leaves[i])
     /\ items' = Patch(items, Leaves[first], changes[first])
     /\ want' = [i \in DOMAIN want |-> IF i \in DOMAIN changes THEN changes[i] ELSE want[i]]
     /\ refused' = {}

(* a commit; changes is by the index of the leaf *)
Commit(changes) ==
  /\ \A i \in DOMAIN changes : CanPatch(items, Leaves[i])
  /\ items' = FoldLeft(LAMBDA is, i : Patch(is, Leaves[i], changes[i]), items,
                       SelectSeq([i \in DOMAIN Leaves |-> i], LAMBDA i : i \in DOMAIN changes))
  /\ want' = [i \in DOMAIN want |-> IF i \in DOMAIN changes THEN changes[i] ELSE want[i]]
  /\ refused' = {}

(* one leaf that cannot be patched refuses the commit *)
Refuse(changes) ==
  /\ \E i \in DOMAIN changes : ~CanPatch(items, Leaves[i])
  /\ refused' = DOMAIN changes
  /\ UNCHANGED <<items, want>>

Next ==
  /\ commits < MaxCommits
  /\ commits' = commits + 1
  /\ \E dirty \in SUBSET DOMAIN Leaves \ {{}} : \E changes \in [dirty -> Values] :
       Commit(changes) \/ Refuse(changes)
  /\ UNCHANGED orig

Spec == Init /\ [][Next]_vars
-----------------------------------------------------------------------------
(* Both sides mean the same assignment of the file at first, or none.  They do not
   where a key is written in another case (renderer.go:563), behind other text in a
   line of rr.conf (parser.go:332), twice in rr.conf with the last one read
   (parser.go:373), or in sib.conf in another block before its own (renderer.go:313);
   reference_signal_power is even read from another key (sib_rb_parser.go:87). *)
SameToBoth(l) ==
  LET at == ReadAt(orig, l)
  IN at = FindAssignment(orig, l) /\ (at # 0 => HasEnd(orig, at))

(* After any sequence of commits the file reads as the values that were committed,
   and as before for the other leaves: also if a key was added to a profile, the
   same key is in the other profiles, or a leaf beside it is one that the two sides
   see differently. *)
ReadsBack ==
  \A i \in DOMAIN Leaves : SameToBoth(Leaves[i]) => Read(items, Leaves[i]) = want[i]

(* A commit changes no assignment of a key that is not managed and, if both sides
   mean the same, none that is not read as a managed leaf. *)
OthersKept ==
  LET Picked(is, Test(_)) == LET at == SelectSeq([i \in DOMAIN is |-> i], Test)
                             IN [n \in DOMAIN at |-> is[at[n]]]
      ByKey(is) == Picked(is, LAMBDA i : \A n \in DOMAIN Leaves : is[i].key # Leaves[n].patches)
      Unread(is) == Picked(is, LAMBDA i : \A n \in DOMAIN Leaves : i # ReadAt(is, Leaves[n]))
  IN /\ ByKey(items) = ByKey(orig)
     /\ (\A n \in DOMAIN Leaves : SameToBoth(Leaves[n])) => Unread(items) = Unread(orig)

(* A commit is refused only for a leaf that the file does not have, or that the two
   sides see differently: what both see can be edited, again and again. *)
ReadMeansEditable ==
  refused # {} =>
    \E i \in refused : Read(items, Leaves[i]) = Absent \/ ~SameToBoth(Leaves[i])

(* What the patches are to leave alone: the assignments that are not read as a
   managed leaf. *)
UnreadKept ==
  \A i \in DOMAIN orig :
    (\A n \in DOMAIN Leaves : i # ReadAt(orig, Leaves[n])) => \E j \in DOMAIN items : items[j] = orig[i]
=============================================================================
