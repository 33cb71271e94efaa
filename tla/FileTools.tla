----------------------------- MODULE FileTools -----------------------------
(***************************************************************************)
(* The file tools of runtime/file_ops.rs on one file, called by agents     *)
(* that share a worktree: the agent of each tab, and the sub-agents, each  *)
(* on a thread of its own.  A call reads the file, and fs::write opens it, *)
(* which empties it, and then writes from its beginning: nothing keeps     *)
(* another call, or a crash, out from between.  A text is a sequence of    *)
(* lines, all equally long.                                                *)
(***************************************************************************)
EXTENDS LineDiff
LOCAL INSTANCE SequencesExt

CONSTANTS Callers,
          NewTexts,   \* the texts a model writes
          Alphabet,      \* the lines it looks for and replaces
          MaxWrite,   \* MAX_WRITE_SIZE
          Missing     \* there is no such file, or it is not text

TextsFit == NewTexts \subseteq Seq(Alphabet)

VARIABLES contents,       \* what the file holds
          call,       \* agent -> the call it is in, Idle if none
          promised    \* history: what the file holds by the last call that had
                      \* the file to itself; Missing is also "nobody can say"

vars == <<contents, call, promised>>

Idle == [at |-> "idle"]
TextOf(text) == IF text = Missing THEN << >> ELSE text

-----------------------------------------------------------------------------
(* What a call makes of the text it has read *)

Replaced(text, old, new, all) ==
    [i \in DOMAIN text |->
        IF text[i] = old /\ (all \/ \A j \in 1..(i - 1) : text[j] # old)
        THEN new ELSE text[i]]

(* What write_file and edit_file refuse; the file is left alone.           *)
Refused(req, text) ==
    \/ req.tool = "write" /\ Len(req.content) > MaxWrite
    \/ req.tool = "edit" /\ (text = Missing \/ req.old = req.new \/ ~Contains(text, req.old))

Result(req, text) ==
    IF req.tool = "write" THEN req.content
    ELSE Replaced(text, req.old, req.new, req.all)

Requests == [tool : {"write"}, content : NewTexts]
            \cup [tool : {"edit"}, old : Alphabet, new : Alphabet, all : BOOLEAN]

-----------------------------------------------------------------------------
(* Calls *)

Busy == {a \in Callers : call[a] # Idle}

Init ==
    /\ contents \in {Missing} \cup NewTexts
    /\ call = [a \in Callers |-> Idle]
    /\ promised = contents

(* write_file and edit_file up to fs::write; a refused call is over.       *)
Read(a, req) ==
    /\ call[a] = Idle
    /\ ~Refused(req, contents)
    /\ call' = [b \in Callers |->
                  IF b = a THEN [at |-> "read", after |-> Result(req, contents),
                                 alone |-> Busy = {}]
                  ELSE IF b \in Busy THEN [call[b] EXCEPT !.alone = FALSE]
                  ELSE Idle]
    /\ UNCHANGED <<contents, promised>>

(* Faulty variant: the file is opened without being emptied.               *)
OpenAsItIs(a) ==
    /\ call[a].at = "read"
    /\ contents' = TextOf(contents)
    /\ call' = [call EXCEPT ![a].at = "opened"]
    /\ UNCHANGED promised

(* fs::write opens the file and empties it.                                *)
Open(a) ==
    /\ call[a].at = "read"
    /\ contents' = << >>
    /\ call' = [call EXCEPT ![a].at = "opened"]
    /\ UNCHANGED promised

(* The lines go over what has come to stand there since.                   *)
Over(text, under) == text \o SubSeq(under, Len(text) + 1, Len(under))

(* fs::write writes it all, and the call answers.                          *)
Write(a) ==
    /\ call[a].at = "opened"
    /\ contents' = Over(call[a].after, contents)
    /\ promised' = IF call[a].alone THEN call[a].after ELSE Missing
    /\ call' = [call EXCEPT ![a] = Idle]

(* fs::write fails after some lines: the disk is full.                     *)
Fail(a) ==
    /\ call[a].at = "opened"
    /\ \E n \in 0..Len(call[a].after) :
          contents' = Over(SubSeq(call[a].after, 1, n), contents)
    /\ promised' = Missing
    /\ call' = [call EXCEPT ![a] = Idle]

(* The program is gone between two steps.                                  *)
Crash ==
    /\ Busy # {}
    /\ call' = [a \in Callers |-> Idle]
    /\ promised' = Missing
    /\ UNCHANGED contents

Next == \/ \E a \in Callers : \/ \E req \in Requests : Read(a, req)
                             \/ Open(a)
                             \/ Write(a)
                             \/ Fail(a)
        \/ Crash

Spec == Init /\ [][Next]_vars

-----------------------------------------------------------------------------
(* read_file *)

(* Faulty variant: the offset is a line number, counted from 1.            *)
PageFromLine(text, offset, limit) ==
    LET start == IF offset = 0 THEN 0 ELSE Smaller(offset, Len(text)) - 1
        end == Smaller(start + limit, Len(text))
    IN  [lines |-> SubSeq(text, start + 1, end), startLine |-> start + 1,
         numLines |-> end - start, totalLines |-> Len(text)]

(* The offset counts lines from 0, the answer names the first one from 1.  *)
Page(text, offset, limit) ==
    LET start == Smaller(offset, Len(text))
        end == Smaller(start + limit, Len(text))
    IN  [lines |-> SubSeq(text, start + 1, end), startLine |-> start + 1,
         numLines |-> end - start, totalLines |-> Len(text)]

(* A reader of the whole file: each page from where the last ended.        *)
PageByPage(text, limit) ==
    LET from[offset \in 0..Len(text)] ==
          LET page == Page(text, offset, limit)
              next == page.startLine - 1 + page.numLines
          IN  IF next >= page.totalLines THEN page.lines
              ELSE IF next <= offset THEN << >> ELSE page.lines \o from[next]
    IN  from[0]

-----------------------------------------------------------------------------
(* grep_search, over the texts of several files *)

(* Faulty variant: the offset is taken off after the limit.                *)
ApplyLimitThenOffset(items, limit, offset) ==
    LET kept == IF limit = 0 THEN items ELSE SubSeq(items, 1, Smaller(limit, Len(items)))
    IN  [items |-> SubSeq(kept, offset + 1, Len(kept)),
         more |-> limit # 0 /\ Len(items) > limit]

(* apply_limit; no limit is 250 there, and 0 means all.                    *)
ApplyLimit(items, limit, offset) ==
    LET rest == SubSeq(items, offset + 1, Len(items))
    IN  [items |-> IF limit = 0 THEN rest ELSE SubSeq(rest, 1, Smaller(limit, Len(rest))),
         more |-> limit # 0 /\ Len(rest) > limit]

(* The lines of a text that match, each with the lines around it.          *)
Hits(text, line) == SelectSeq([i \in DOMAIN text |-> i], LAMBDA i : text[i] = line)
Window(text, i, context) ==
    LET first == Larger(1, i - context)
        last == Smaller(Len(text), i + context)
    IN  [k \in 1..(last - first + 1) |-> first + k - 1]
Around(texts, file, line, context) ==
    LET hits == Hits(texts[file], line)
        shown == FlattenSeq([h \in DOMAIN hits |-> Window(texts[file], hits[h], context)])
    IN  [k \in DOMAIN shown |-> <<file, shown[k]>>]

Grep(texts, line, context, limit, offset) ==
    LET found == SelectSeq([f \in DOMAIN texts |-> f], LAMBDA f : Hits(texts[f], line) # << >>)
        shown == FlattenSeq([k \in DOMAIN found |-> Around(texts, found[k], line, context)])
    IN  [files |-> ApplyLimit(found, limit, offset).items,
         content |-> ApplyLimit(shown, limit, offset).items,
         more |-> ApplyLimit(shown, limit, offset).more]

-----------------------------------------------------------------------------
(* Properties *)

(* The file is missing or holds lines; a call under way has read it.       *)
TypeOK ==
    /\ contents = Missing \/ contents \in Seq(Alphabet)
    /\ \A a \in Busy : call[a].at \in {"read", "opened"} /\ call[a].after \in Seq(Alphabet)

(* The patch that a call answers with leads from what it has read to what  *)
(* it writes, for every call that the file there is may be given.  (Who    *)
(* else is at work makes no difference: both texts are the call's own.)    *)
PatchesTell ==
    Busy = {} =>
        \A req \in {r \in Requests : ~Refused(r, contents)} :
            LET before == TextOf(contents)
                after == Result(req, contents)
            IN  DiffIsRight(before, after) /\ PatchIsRight(before, after)

(* What a call that had the file to itself has promised, the file holds:   *)
(* until the next one opens it, and through every call that fails before.  *)
PromisesAreKept ==
    promised # Missing /\ (\A a \in Busy : call[a].at = "read") => contents = promised

(* Pages that are read one after the other, each from where the last ended,*)
(* are the text, none left out and none twice.  (This and the next look at *)
(* a file nobody is writing; a crash brings every content there.)          *)
PagesAreTheText ==
    contents # Missing /\ Busy = {} =>
        \A limit \in 1..(Len(contents) + 1) : PageByPage(contents, limit) = contents

(* A search shows every line that matches and only lines near one, in the  *)
(* order of the files, and its pages put together are the whole answer.    *)
SearchesAreWhole ==
    contents # Missing /\ Busy = {} =>
        LET texts == <<contents, Reverse(contents)>> IN
        \A line \in Alphabet, context \in 0..1 :
            LET all == Grep(texts, line, context, 0, 0).content
                lines == ToSet(all)
                matching == {p \in {1, 2} \X DOMAIN contents : texts[p[1]][p[2]] = line}
            IN  /\ matching \subseteq lines
                /\ \A p \in lines : \E q \in matching :
                      p[1] = q[1] /\ p[2] \in (q[2] - context)..(q[2] + context)
                /\ \A i, j \in DOMAIN all : i < j => all[i][1] <= all[j][1]
                /\ \A limit \in 1..2 :
                      LET from[offset \in 0..Len(all)] ==
                            LET page == Grep(texts, line, context, limit, offset)
                            IN  IF page.more /\ offset + limit <= Len(all)
                                THEN page.content \o from[offset + limit]
                                ELSE page.content
                      IN  from[0] = all
=============================================================================
