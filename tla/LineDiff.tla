------------------------------ MODULE LineDiff ------------------------------
(***************************************************************************)
(* The line diff of runtime/diff.rs and the patch that file_ops.rs makes   *)
(* of it: what a model and a user are shown of a change.  A text is a      *)
(* sequence of lines, a line any value.                                    *)
(***************************************************************************)
EXTENDS Integers, Sequences, FiniteSets
LOCAL INSTANCE SequencesExt
LOCAL INSTANCE FiniteSetsExt

CONSTANTS MaxCells,       \* MAX_LCS_CELLS
          Context,        \* PATCH_CONTEXT_LINES
          MaxPatchLines   \* MAX_PATCH_LINES

Smaller(m, n) == IF m <= n THEN m ELSE n
Larger(m, n) == IF m >= n THEN m ELSE n

Marked(op, seq) == [i \in DOMAIN seq |-> [op |-> op, text |-> seq[i]]]

(* How many lines two texts have in common at the beginning, and at the    *)
(* end of what is left behind a prefix.                                    *)
CommonPrefix(s, t) ==
    Max({n \in 0..Smaller(Len(s), Len(t)) : SubSeq(s, 1, n) = SubSeq(t, 1, n)})

(* Faulty variant: the suffix may run into the prefix.                     *)
CommonSuffixOverlapping(s, t) == CommonPrefix(Reverse(s), Reverse(t))

CommonSuffix(s, t) ==
    Max({n \in 0..(Smaller(Len(s), Len(t)) - CommonPrefix(s, t)) :
            SubSeq(s, Len(s) - n + 1, Len(s)) = SubSeq(t, Len(t) - n + 1, Len(t))})

(* The table: the longest common subsequence of what is left from i and j. *)
Table(s, t) ==
    LET longest[i \in 1..(Len(s) + 1), j \in 1..(Len(t) + 1)] ==
          IF i > Len(s) \/ j > Len(t) THEN 0
          ELSE IF s[i] = t[j] THEN longest[i + 1, j + 1] + 1
          ELSE Larger(longest[i + 1, j], longest[i, j + 1])
    IN  longest

(* Faulty variant: the walk looks only one line ahead.                     *)
WalkGreedily(s, t) ==
    LET from[i \in 1..(Len(s) + 1), j \in 1..(Len(t) + 1)] ==
          IF i > Len(s) \/ j > Len(t)
          THEN Marked("remove", SubSeq(s, i, Len(s))) \o Marked("insert", SubSeq(t, j, Len(t)))
          ELSE IF s[i] = t[j] THEN Marked("equal", <<s[i]>>) \o from[i + 1, j + 1]
          ELSE Marked("remove", <<s[i]>>) \o from[i + 1, j]
    IN  from[1, 1]

Walk(s, t) ==
    LET table == Table(s, t)
        from[i \in 1..(Len(s) + 1), j \in 1..(Len(t) + 1)] ==
          IF i > Len(s) \/ j > Len(t)
          THEN Marked("remove", SubSeq(s, i, Len(s))) \o Marked("insert", SubSeq(t, j, Len(t)))
          ELSE IF s[i] = t[j] THEN Marked("equal", <<s[i]>>) \o from[i + 1, j + 1]
          ELSE IF table[i + 1, j] >= table[i, j + 1]
               THEN Marked("remove", <<s[i]>>) \o from[i + 1, j]
               ELSE Marked("insert", <<t[j]>>) \o from[i, j + 1]
    IN  from[1, 1]

(* middle_ops: in blocks where the table would be too large.               *)
InBlocks(s, t) == s = << >> \/ t = << >> \/ Len(s) * Len(t) > MaxCells
MiddleOps(s, t) ==
    IF InBlocks(s, t) THEN Marked("remove", s) \o Marked("insert", t) ELSE Walk(s, t)

Middle(s, t) == SubSeq(s, CommonPrefix(s, t) + 1, Len(s) - CommonSuffix(s, t))

LineOps(old, new) ==
    LET prefix == CommonPrefix(old, new)
        suffix == CommonSuffix(old, new)
    IN  Marked("equal", SubSeq(old, 1, prefix))
        \o MiddleOps(Middle(old, new), Middle(new, old))
        \o Marked("equal", SubSeq(old, Len(old) - suffix + 1, Len(old)))

-----------------------------------------------------------------------------
(* make_patch *)

Texts(ops) == [i \in DOMAIN ops |-> ops[i].text]
OldPart(ops) == SelectSeq(ops, LAMBDA o : o.op # "insert")
NewPart(ops) == SelectSeq(ops, LAMBDA o : o.op # "remove")

(* The lines near a change; where the surroundings of two meet, they are   *)
(* of one hunk.                                                            *)
Near(ops) == {k \in DOMAIN ops : \E c \in DOMAIN ops :
                 ops[c].op # "equal" /\ k \in (c - Context)..(c + Context)}

(* Faulty variant: surroundings that overlap are two hunks.                *)
RangesOverlapping(ops) ==
    {<<Larger(1, c - Context), Smaller(Len(ops), c + Context)>> :
        c \in {c \in DOMAIN ops : ops[c].op # "equal"}}

Ranges(ops) ==
    {r \in Near(ops) \X Near(ops) : /\ (r[1]..r[2]) \subseteq Near(ops) /\ r[1] <= r[2]
                                    /\ {r[1] - 1, r[2] + 1} \cap Near(ops) = {}}

(* Faulty variant: a hunk is counted from what is shown of it.             *)
HunkOfShown(ops, range, before) ==
    LET shown == SubSeq(ops, range[1], Smaller(range[2], range[1] + (MaxPatchLines - before) - 1))
    IN  [oldStart |-> Len(OldPart(SubSeq(ops, 1, range[1] - 1))) + 1,
         oldLines |-> Len(OldPart(shown)),
         newStart |-> Len(NewPart(SubSeq(ops, 1, range[1] - 1))) + 1,
         newLines |-> Len(NewPart(shown)),
         lines |-> shown, truncated |-> range[2] - range[1] + 1 - Len(shown)]

(* A hunk, of which as many lines are shown as are left of the ceiling.    *)
Hunk(ops, range, before) ==
    LET all == SubSeq(ops, range[1], range[2])
        shown == SubSeq(all, 1, Smaller(Len(all), MaxPatchLines - before))
    IN  [oldStart |-> Len(OldPart(SubSeq(ops, 1, range[1] - 1))) + 1,
         oldLines |-> Len(OldPart(all)),
         newStart |-> Len(NewPart(SubSeq(ops, 1, range[1] - 1))) + 1,
         newLines |-> Len(NewPart(all)),
         lines |-> shown, truncated |-> Len(all) - Len(shown)]

(* Hunks are made until the ceiling is reached.                            *)
MakePatch(old, new) ==
    LET ops == LineOps(old, new)
        before(range) == Cardinality({k \in Near(ops) : k < range[1]})
        made == {r \in Ranges(ops) : before(r) < MaxPatchLines \/ before(r) = 0}
        ordered == SetToSortSeq(made, LAMBDA r, q : r[1] < q[1])
    IN  [i \in DOMAIN ordered |-> Hunk(ops, ordered[i], before(ordered[i]))]

-----------------------------------------------------------------------------
(* Properties *)

Subsequences(s) == {LET places == SetToSortSeq(A, <)
                    IN  [i \in DOMAIN places |-> s[places[i]]] : A \in SUBSET DOMAIN s}
CommonLength(s, t) == Max({Len(u) : u \in Subsequences(s) \cap Subsequences(t)})

(* The diff shows the old text without its insertions, the new one without *)
(* its removals, and keeps as many lines as any diff could, unless the     *)
(* middle was too large for the table.                                     *)
OpsAreRight(ops, old, new) ==
    /\ Texts(OldPart(ops)) = old /\ Texts(NewPart(ops)) = new
    /\ ~InBlocks(Middle(old, new), Middle(new, old)) =>
          Len(SelectSeq(ops, LAMBDA o : o.op = "equal")) = CommonLength(old, new)
DiffIsRight(old, new) == OpsAreRight(LineOps(old, new), old, new)

(* The place of a hunk, and the texts around the hunks, do not depend on   *)
(* what the ceiling hides: each hunk replaces its lines of the old text by *)
(* its lines of the new one, and up to the last hunk that was made nothing *)
(* else differs; nor behind it, when the ceiling stopped no hunk.          *)
HunkIsRight(h, a, b, old, new) ==
    /\ h.oldStart - a = h.newStart - b /\ h.oldStart >= a
    /\ SubSeq(old, a, h.oldStart - 1) = SubSeq(new, b, h.newStart - 1)
    /\ IsPrefix(Texts(OldPart(h.lines)), SubSeq(old, h.oldStart, h.oldStart + h.oldLines - 1))
    /\ IsPrefix(Texts(NewPart(h.lines)), SubSeq(new, h.newStart, h.newStart + h.newLines - 1))
    /\ h.truncated = 0 => /\ Len(OldPart(h.lines)) = h.oldLines
                          /\ Len(NewPart(h.lines)) = h.newLines
HunksAreRight(hunks, old, new) ==
    LET oldEnd(i) == IF i = 0 THEN 1 ELSE hunks[i].oldStart + hunks[i].oldLines
        newEnd(i) == IF i = 0 THEN 1 ELSE hunks[i].newStart + hunks[i].newLines
    IN  /\ old # new /\ MaxPatchLines > 0 => hunks # << >>
        /\ hunks # << >> /\ Len(hunks) = Cardinality(Ranges(LineOps(old, new))) =>
              SubSeq(old, oldEnd(Len(hunks)), Len(old))
              = SubSeq(new, newEnd(Len(hunks)), Len(new))
        /\ \A i \in DOMAIN hunks :
              HunkIsRight(hunks[i], oldEnd(i - 1), newEnd(i - 1), old, new)
PatchIsRight(old, new) == HunksAreRight(MakePatch(old, new), old, new)
=============================================================================
