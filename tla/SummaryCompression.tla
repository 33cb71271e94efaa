------------------------- MODULE SummaryCompression -------------------------
(***************************************************************************)
(* What runtime/summary_compression.rs leaves of the detail a sub-agent    *)
(* ends with: each line once, the lines in the order of their importance   *)
(* as long as they fit.  A line is its beginning and its rest, either any  *)
(* value up to case, its length, what its beginning marks it as, and       *)
(* whether it ends with a colon.  Blank lines, which are dropped, spaces   *)
(* that are made one, and a limit that cuts into the beginning are left    *)
(* out.                                                                    *)
(***************************************************************************)
EXTENDS Integers, Sequences

CONSTANTS Details,      \* the lines an agent may write
          NoticeChars,  \* the length of an omission notice
          Budgets,      \* the budgets tried: [chars, lines, lineChars]
          MaxLines      \* bound on the lines of a text

VARIABLES text,     \* the detail of a sub-agent
          budget

Line(begins, rest, chars, mark, colon) ==
    [begins |-> begins, rest |-> rest, chars |-> chars, mark |-> mark, colon |-> colon]
Lines == [begins : {l.begins : l \in Details} \cup {"omitted"},
          rest : {l.rest : l \in Details} \cup {"cut"} \cup Int,
          chars : Nat, mark : {"core", "detail", "other"}, colon : BOOLEAN]

SizesFit ==
    /\ Details \subseteq Lines /\ NoticeChars \in Nat
    /\ Budgets \subseteq [chars : Nat, lines : Nat, lineChars : Nat]

(* line_priority: a header ends with a colon, whatever it begins with.     *)
Priority(line) ==
    IF line.mark = "core" THEN 0 ELSE IF line.colon THEN 1
    ELSE IF line.mark = "detail" THEN 2 ELSE 3

(* truncate_line: of a line that is cut the beginning is left.             *)
Cut(line, max) ==
    IF max = 0 \/ line.chars <= max THEN line
    ELSE Line(line.begins, "cut", max, line.mark, FALSE)

(* dedupe_key: what was cut to another length is another line.             *)
Same(l, m) == l.begins = m.begins /\ l.rest = m.rest /\ l.chars = m.chars

(* The lines at these places.                                              *)
At(lines, places) ==
    LET upto[n \in 0..Len(lines)] ==
          IF n = 0 THEN << >>
          ELSE upto[n - 1] \o IF n \in places THEN <<lines[n]>> ELSE << >>
    IN  upto[Len(lines)]

(* normalize_lines: what is the same, or has become the same by the cut,   *)
(* stands once.                                                            *)
Normalized(lines, max) ==
    LET cut == [i \in DOMAIN lines |-> Cut(lines[i], max)]
    IN  At(cut, {i \in DOMAIN cut : \A j \in 1..(i - 1) : ~Same(cut[j], cut[i])})

(* joined_char_count: with the line breaks between them.                   *)
Total(lines) ==
    LET upto[n \in 0..Len(lines)] == IF n = 0 THEN 0 ELSE upto[n - 1] + lines[n].chars
    IN  upto[Len(lines)]
Chars(lines) == Total(lines) + IF lines = << >> THEN 0 ELSE Len(lines) - 1

Fits(lines, b) == Len(lines) <= b.lines /\ Chars(lines) <= b.chars

(* Faulty variant: the line breaks are not counted.                        *)
PickTight(lines, b, priority, taken, n) ==
    IF /\ Priority(lines[n]) = priority
       /\ LET more == At(lines, taken \cup {n}) IN Len(more) <= b.lines /\ Total(more) <= b.chars
    THEN taken \cup {n} ELSE taken

(* Faulty variant: lines of any importance are taken in passing.           *)
PickAny(lines, b, priority, taken, n) ==
    IF Fits(At(lines, taken \cup {n}), b) THEN taken \cup {n} ELSE taken

(* A line of this priority is taken if it fits with those taken already.   *)
Pick(lines, b, priority, taken, n) ==
    IF Priority(lines[n]) = priority /\ Fits(At(lines, taken \cup {n}), b)
    THEN taken \cup {n} ELSE taken

Picked(lines, b, priority, taken) ==
    LET upto[n \in 0..Len(lines)] ==
          IF n = 0 THEN taken ELSE Pick(lines, b, priority, upto[n - 1], n)
    IN  upto[Len(lines)]

(* select_line_indexes: rank by rank, and from the top.                    *)
Selected(lines, b) ==
    Picked(lines, b, 3, Picked(lines, b, 2, Picked(lines, b, 1, Picked(lines, b, 0, {}))))

(* If nothing fits, the beginning of the first line is left.               *)
Kept(lines, b) ==
    LET selected == Selected(lines, b)
    IN  IF selected = {} THEN <<Cut(lines[1], b.chars)>> ELSE At(lines, selected)

Notice(n) == Line("omitted", n, NoticeChars, "detail", FALSE)

(* push_line_with_budget: a notice of what was left out, if it fits.       *)
Noticed(kept, omitted, b) ==
    IF omitted > 0 /\ Fits(Append(kept, Notice(omitted)), b)
    THEN Append(kept, Notice(omitted)) ELSE kept

(* compress_summary *)
Result(lines, omitted, duplicates) ==
    [lines |-> lines, omitted |-> omitted, duplicates |-> duplicates]
Compressed(lines, b) ==
    LET whole == Normalized(lines, b.lineChars)
        kept == Kept(whole, b)
        omitted == Len(whole) - Len(kept)
    IN  IF whole = << >> \/ b.chars = 0 \/ b.lines = 0
        THEN Result(<< >>, Len(whole), Len(lines) - Len(whole))
        ELSE Result(Noticed(kept, omitted, b), omitted, Len(lines) - Len(whole))

-----------------------------------------------------------------------------
(* An agent writes its detail; ending, it is compressed, and a following   *)
(* run may write behind what was left of it.                               *)

Init == text = << >> /\ budget \in Budgets

Add(line) == Len(text) < MaxLines /\ text' = Append(text, line) /\ UNCHANGED budget

Compress == text' = Compressed(text, budget).lines /\ UNCHANGED budget

Next == (\E line \in Details : Add(line)) \/ Compress

Spec == Init /\ [][Next]_<<text, budget>>

-----------------------------------------------------------------------------
(* Properties *)

(* What is left fits, and counts with what was omitted or a duplicate to   *)
(* what there was.                                                         *)
Accounts(c, lines, b) ==
    LET counted == Len(c.lines) + c.omitted + c.duplicates
    IN  /\ c.lines # << >> => Fits(c.lines, b)
        /\ \/ counted = Len(lines)
           \/ /\ counted = Len(lines) + 1 /\ c.omitted > 0
              /\ c.lines[Len(c.lines)] = Notice(c.omitted)
WithinBudget == Accounts(Compressed(text, budget), text, budget)

(* Nothing that would still have fitted is left out, and no line gives way *)
(* to one that matters less.                                               *)
Before(lines, j, i) ==
    \/ Priority(lines[j]) < Priority(lines[i])
    \/ Priority(lines[j]) = Priority(lines[i]) /\ j < i
LeavesNone(lines, selected, b) ==
    \A i \in DOMAIN lines \ selected :
        ~Fits(At(lines, {j \in selected : Before(lines, j, i)} \cup {i}), b)
NothingIsWasted ==
    LET whole == Normalized(text, budget.lineChars)
    IN  LeavesNone(whole, Selected(whole, budget), budget)

(* Compressing twice is compressing once, unless the line limit cuts the   *)
(* notice, or the same notice stood there already: of two that are the     *)
(* same the next compression drops one.                                    *)
CompressedOnce ==
    LET whole == Normalized(text, budget.lineChars)
        once == Compressed(text, budget)
    IN  /\ budget.lineChars = 0 \/ NoticeChars <= budget.lineChars
        /\ \A i \in DOMAIN whole : ~Same(whole[i], Notice(once.omitted))
        => Compressed(once.lines, budget).lines = once.lines
=============================================================================
