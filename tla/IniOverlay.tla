----------------------------- MODULE IniOverlay -----------------------------
(***************************************************************************)
(* How a commit patches enb.conf and how the file is read again:           *)
(* renderENBConfig and patchINIAssignment (internal/ems/configuration/     *)
(* renderer.go) against ParseENB (srsranconf/parser.go).  A file is a      *)
(* sequence of lines, each a section header, an assignment or a comment,   *)
(* the former with a comment behind them or none; the last line may lack   *)
(* its newline.                                                            *)
(* Numbers are in units of 1/10000.                                        *)
(***************************************************************************)
EXTENDS Integers, Sequences, SequencesExt

CONSTANTS
  Sections,     \* the sections of the file
  Leaves,       \* the managed leaves, <<section, key>>, in the order of sortedDirtyKeys
  Keys,         \* the keys of the file, managed or not
  Required,     \* the leaves without which the file is refused
  Floats,       \* the keys that are written with trimFloat
  Values,       \* the values of a leaf
  Notes,        \* the comments at the end of an assignment: of "", "#", "//"
  HeaderNotes,  \* those of a section header
  Ends,         \* whether the file ends with a newline
  MaxLines,     \* bound: the lines of the file at first
  MaxCommits    \* bound: the commits

VARIABLES
  lines,    \* the lines of enb.conf
  newline,  \* whether the last one has its newline
  orig,     \* both at first
  want,     \* the value of each key of each section, as it was read or committed
  commits   \* the commits so far

vars == <<lines, newline, orig, want, commits>>

Absent == -1   \* the key is not in the section
Glued == -2    \* two lines have run into one

Header(s, note) == [kind |-> "section", name |-> s, value |-> 0, note |-> note]
Assign(k, v, note) == [kind |-> "set", name |-> k, value |-> v, note |-> note]
Text == [kind |-> "text", name |-> "", value |-> 0, note |-> ""]

Lines == {Header(s, n) : s \in Sections, n \in HeaderNotes}
           \cup {Assign(k, 10, n) : k \in Keys, n \in Notes} \cup {Text}
-----------------------------------------------------------------------------
(* ParseENB: stripInlineComment, parseSectionLine, parseAssignmentLine; the last
   assignment of a key in sections of that name is the one that counts *)
SectionOf(ls, i) ==
  LET heads == {j \in 1..i : ls[j].kind = "section"}
  IN IF heads = {} THEN "" ELSE ls[CHOOSE j \in heads : \A k \in heads : k <= j].name

ParseENB(ls) ==
  [leaf \in Sections \X Keys |->
     LET at == SelectLastInSeq([i \in DOMAIN ls |-> <<i, ls[i]>>],
                 LAMBDA x : x[2].kind = "set" /\ x[2].name = leaf[2] /\ SectionOf(ls, x[1]) = leaf[1])
     IN IF at = 0 THEN Absent ELSE ls[at].value]

(* trimFloat: three decimals *)
TrimFloat(v) == ((v + 5) \div 10) * 10

(* enbPatch: the text of a value *)
Format(key, v) == IF key \in Floats THEN TrimFloat(v) ELSE v
-----------------------------------------------------------------------------
(* parseINISection knows a header only without a comment behind it *)
IsHeader(line) == line.kind = "section" /\ line.note = ""

(* Fault: the comment behind the value is lost *)
ReplacedBare(line, v) == Assign(line.name, v, "")

(* replaceAssignmentLine keeps a comment that begins with # *)
Replaced(line, v) == Assign(line.name, v, IF line.note = "#" THEN "#" ELSE "")

(* a line that runs into the next: a comment takes it in, a header is none any
   more, a value is spoilt *)
WithGlued(line) ==
  IF line.note # "" THEN line
  ELSE IF line.kind = "section" THEN Text ELSE [line EXCEPT !.value = Glued]

(* Fault: the line goes in front of the section *)
PlaceAtHead(ls, head, next) == head

(* where patchINIAssignment inserts: before the next header, or after the last
   line of the file that is no comment *)
PlaceFor(ls, head, next) ==
  IF next <= Len(ls) THEN next
  ELSE 1 + SelectLastInSeq([i \in DOMAIN ls |-> <<i, ls[i]>>],
                           LAMBDA x : x[1] = head \/ (x[1] > head /\ x[2].kind # "text"))

(* patchINIAssignment on <<lines, newline>>: the first section of that name, from
   its header to the next one *)
PatchINI(file, section, key, v) ==
  LET ls == file[1]
      head == SelectInSeq(ls, LAMBDA x : IsHeader(x) /\ x.name = section)
      after == SelectInSeq(SubSeq(ls, head + 1, Len(ls)), LAMBDA x : IsHeader(x))
      next == IF after = 0 THEN Len(ls) + 1 ELSE head + after
      at == SelectInSeq(SubSeq(ls, head + 1, next - 1), LAMBDA x : x.kind = "set" /\ x.name = key)
      pos == PlaceFor(ls, head, next)
  IN IF head = 0
     THEN <<ls \o <<Header(section, ""), Assign(key, v, "")>>, TRUE>>
     ELSE IF at # 0
     THEN <<[ls EXCEPT ![head + at] = Replaced(@, v)], file[2]>>
     ELSE IF pos = Len(ls) + 1 /\ ~file[2]
     THEN <<[ls EXCEPT ![Len(ls)] = WithGlued(@)], TRUE>>
     ELSE <<InsertAt(ls, pos, Assign(key, v, "")), file[2]>>
-----------------------------------------------------------------------------
Init ==
  /\ lines \in UNION {[1..n -> Lines] : n \in 1..MaxLines}
  /\ \A l \in Required : ParseENB(lines)[l] # Absent
  /\ newline \in Ends
  /\ orig = <<lines, newline>>
  /\ want = ParseENB(lines)
  /\ commits = 0

(* a commit: renderENBConfig with these changes *)
Commit(changes) ==
  LET dirty == SelectSeq(Leaves, LAMBDA l : l \in DOMAIN changes)
      file == FoldLeft(LAMBDA f, l : PatchINI(f, l[1], l[2], Format(l[2], changes[l])),
                       <<lines, newline>>, dirty)
  IN /\ commits < MaxCommits
     /\ commits' = commits + 1
     /\ lines' = file[1]
     /\ newline' = file[2]
     /\ want' = [l \in DOMAIN want |-> IF l \in DOMAIN changes THEN changes[l] ELSE want[l]]
     /\ UNCHANGED orig

Next == \E dirty \in SUBSET ToSet(Leaves) \ {{}} : \E changes \in [dirty -> Values] : Commit(changes)

Spec == Init /\ [][Next]_vars
-----------------------------------------------------------------------------
(* The file at first names no section and no key of a section twice. *)
Unambiguous ==
  LET ls == orig[1] IN
  \A i, j \in DOMAIN ls :
    i < j /\ ls[i].kind = ls[j].kind /\ ls[i].name = ls[j].name /\ ls[i].kind # "text"
      => ls[i].kind = "set" /\ SectionOf(ls, i) # SectionOf(ls, j)

(* Both sides see the same sections, that is, no header has a comment behind it, which
   parseINISection does not take (renderer.go:683); and there is a newline at the end
   unless no key can be missing, as a key is added behind the last line as it is
   (renderer.go:300). *)
SameToBoth ==
  /\ Unambiguous
  /\ \A i \in DOMAIN orig[1] : orig[1][i].kind = "section" => IsHeader(orig[1][i])
  /\ orig[2] \/ \A l \in ToSet(Leaves) : ParseENB(orig[1])[l] # Absent

(* After any sequence of commits the file reads as the values that were committed,
   to three decimals, and as it did before for every other key, managed or not;
   also where a key or a whole section had to be added (renderENBConfig,
   ParseENB). *)
ReadsBack ==
  SameToBoth => \A l \in DOMAIN want :
    LET got == ParseENB(lines)[l] IN
    IF want[l] = Absent THEN got = Absent ELSE got - want[l] \in -5..5

(* The lines that hold no managed leaf, and of the comments behind those that do the
   ones in keep, are still there and in the same order. *)
Kept(keep) ==
  LET Leaf(ls, i) == ls[i].kind = "set" /\ <<SectionOf(ls, i), ls[i].name>> \in ToSet(Leaves)
      Rest(ls) == SelectSeq([i \in DOMAIN ls |->
                    IF Leaf(ls, i) THEN [kind |-> "leaf", note |-> ls[i].note] ELSE ls[i]],
                    LAMBDA x : x.kind # "leaf" \/ x.note \in keep)
  IN IsPrefix(Rest(orig[1]), Rest(lines))

(* Of the comments behind a leaf only those that begin with # are kept (renderer.go:
   712), all other lines stay. *)
OthersKept == SameToBoth => Kept({"#"})

(* What the patches are to leave alone: also the comments that begin with two
   slashes, which the parser takes for comments as well. *)
UnreadKept == Kept({"#", "//"})
=============================================================================
