---------------------------- MODULE SessionStore ----------------------------
(***************************************************************************)
(* The files of one session on disk (runtime/session.rs) under a tab of    *)
(* the terminal UI that pushes messages, saves, crashes and is started     *)
(* again (appui/worker.rs, appui/ui.rs): one action per change of the file *)
(* system, and a crash or an error between any two of them.                *)
(*                                                                         *)
(* A file is the sequence of its message lines; the record with the        *)
(* session's data, always the first line, is left out, and sizes are       *)
(* counted in lines.  The temporary file of write_atomic is left out too:  *)
(* nothing reads one, and the rename makes the new file whole at once.     *)
(***************************************************************************)
EXTENDS Integers, FiniteSets, SequencesExt

CONSTANTS RotateAfter,   \* lines from which a save rotates (the code: 256 KiB)
          MaxRotated,    \* rotated files kept (the code: 3)
          MayFail,       \* may file operations fail?
          Torn,          \* may a failed or interrupted append leave part of a line?
          OpensAny,      \* does the user go on in any tab, or in the one in front?
          NoPath,
          MaxMessages, MaxClock, MaxCrashes    \* bounds of the model

ASSUME LimitsAssumption == RotateAfter \in Nat \ {0} /\ MaxRotated \in Nat
ASSUME ChoicesAssumption == {MayFail, Torn, OpensAny} \subseteq BOOLEAN
ASSUME BoundsAssumption ==
    /\ MaxMessages \in Nat /\ MaxClock \in Nat \ {0} /\ MaxCrashes \in Nat

VARIABLES files,     \* [name, lines, open], the one modified last at the end
          clock,     \* the current millisecond
          messages,  \* Session.messages
          path,      \* Session.persistence
          pc,        \* where the thread is
          op,        \* "push" or "save", the call under way
          pushed,    \* messages pushed so far
          crashes,
          saved      \* messages of the saves that succeeded (history)

disk == <<files, clock>>
session == <<messages, path>>
counters == <<pushed, crashes>>
vars == <<disk, session, pc, op, counters, saved>>

-----------------------------------------------------------------------------
(* The directory *)

Main == 0                      \* <id>.jsonl
Rotated == 1..MaxClock         \* <id>.rot-<ms>.jsonl
Names == {Main} \cup Rotated
Unreadable == 0                \* a line that is no JSON
Lines == 0..MaxMessages

File(name, lines, open) == [name |-> name, lines |-> lines, open |-> open]
Has(name) == \E i \in DOMAIN files : files[i].name = name
Place(name) == CHOOSE i \in DOMAIN files : files[i].name = name
Get(name) == files[Place(name)]

Without(name) == IF Has(name) THEN RemoveAt(files, Place(name)) ELSE files
Written(f) == Append(Without(f.name), f)

(* A rename replaces what has the new name and keeps the time of writing.  *)
Renamed(from, to) ==
    LET fs == Without(to)
    IN  [i \in DOMAIN fs |-> IF fs[i].name = from THEN [fs[i] EXCEPT !.name = to] ELSE fs[i]]

RotatedFiles == {i \in DOMAIN files : files[i].name \in Rotated}
Oldest == CHOOSE i \in RotatedFiles : \A j \in RotatedFiles : i <= j

(* A line is written behind what is there, be it the end of a line or not. *)
Appended(f, line, open) ==
    [f EXCEPT !.lines = IF f.open THEN [@ EXCEPT ![Len(@)] = Unreadable] ELSE Append(@, line),
              !.open = open]

Held(f) == ToSet(f.lines)

(* load_from_path rejects a file for a single bad line; the start-up scan  *)
(* passes over rejected and empty files.                                   *)
Restorable(f) == Unreadable \notin Held(f) /\ f.lines # << >>
RestorableFiles == {i \in DOMAIN files : Restorable(files[i])}

-----------------------------------------------------------------------------
Idle == pc' = "idle" /\ op' = "none"

(* A push takes its message back when it returns an error.                 *)
Failed ==
    /\ MayFail
    /\ Idle
    /\ messages' = IF op = "push" THEN SubSeq(messages, 1, Len(messages) - 1) ELSE messages

(* Faulty variant: a missing file is appended to like any other.           *)
PushAppends ==
    /\ pc = "idle" /\ pushed < MaxMessages
    /\ pushed' = pushed + 1
    /\ messages' = Append(messages, pushed + 1)
    /\ IF path = NoPath THEN UNCHANGED <<pc, op>>
       ELSE op' = "push" /\ pc' = "append"
    /\ UNCHANGED <<disk, path, crashes, saved>>

(* push_message: memory first.  A new session has no path and writes       *)
(* nothing until it is saved; a missing file is created by a save.         *)
Push ==
    /\ pc = "idle" /\ pushed < MaxMessages
    /\ pushed' = pushed + 1
    /\ messages' = Append(messages, pushed + 1)
    /\ IF path = NoPath THEN UNCHANGED <<pc, op>>
       ELSE op' = "push" /\ pc' = IF Has(path) THEN "append" ELSE "rotate"
    /\ UNCHANGED <<disk, path, crashes, saved>>

(* What is left of an append that was cut short: part of the line, or all  *)
(* of it without its end, which is a write of its own.                     *)
TornFiles == {Appended(Get(path), line, TRUE) : line \in {Unreadable, messages[Len(messages)]}}

(* Faulty variant: the message stays although the file does not have it.   *)
AppendLineKeeps ==
    /\ pc = "append"
    /\ \/ /\ files' = Written(Appended(Get(path), messages[Len(messages)], FALSE))
          /\ Idle /\ UNCHANGED messages
       \/ MayFail /\ Idle /\ UNCHANGED <<files, messages>>
    /\ UNCHANGED <<clock, path, counters, saved>>

AppendLine ==
    /\ pc = "append"
    /\ \/ /\ files' = Written(Appended(Get(path), messages[Len(messages)], FALSE))
          /\ Idle /\ UNCHANGED messages
       \/ Failed /\ UNCHANGED files
       \/ Failed /\ Torn /\ files' \in {Written(f) : f \in TornFiles}
    /\ UNCHANGED <<clock, path, counters, saved>>

(* The end of a turn, whether it went well or not.                         *)
Save ==
    /\ pc = "idle"
    /\ pc' = "rotate" /\ op' = "save"
    /\ UNCHANGED <<disk, session, counters, saved>>

(* A tab saves to the file named after the session, whichever it loaded.   *)
Target == IF op = "save" THEN Main ELSE path

TooLong == Has(Target) /\ Len(Get(Target).lines) >= RotateAfter

(* Faulty variant: a log that is too long is removed.                      *)
RotateAway ==
    /\ pc = "rotate"
    /\ files' = IF TooLong THEN Without(Target) ELSE files
    /\ pc' = "write"
    /\ UNCHANGED <<clock, session, op, counters, saved>>

(* rotate_session_file_if_needed.  The name is the time: two rotations in  *)
(* one millisecond share it.                                               *)
Rotate ==
    /\ pc = "rotate"
    /\ \/ /\ TooLong
          /\ clock' \in {clock, clock + 1} \cap Rotated
          /\ files' = Renamed(Target, clock')
          /\ pc' = "write" /\ UNCHANGED <<op, messages>>
       \/ ~TooLong /\ pc' = "write" /\ UNCHANGED <<disk, op, messages>>
       \/ TooLong /\ Failed /\ UNCHANGED disk
    /\ UNCHANGED <<path, counters, saved>>

(* write_atomic.                                                           *)
Write ==
    /\ pc = "write"
    /\ \/ /\ files' = Written(File(Target, messages, FALSE))
          /\ pc' = "cleanup" /\ UNCHANGED <<op, messages>>
       \/ Failed /\ UNCHANGED files
    /\ UNCHANGED <<clock, path, counters, saved>>

TooMany == Target = Main /\ Cardinality(RotatedFiles) > MaxRotated

(* The one written first goes; what is left when it fails stays.           *)
RemoveOldest ==
    /\ TooMany
    /\ files' = RemoveAt(files, Oldest)
    /\ UNCHANGED <<pc, op, messages, saved>>

(* Faulty variant: a push goes on to append after the file was created.    *)
CleanupThenAppend ==
    /\ pc = "cleanup"
    /\ \/ RemoveOldest
       \/ /\ ~TooMany
          /\ IF op = "push" THEN pc' = "append" /\ UNCHANGED op ELSE Idle
          /\ saved' = IF op = "save" THEN saved \cup ToSet(messages) ELSE saved
          /\ UNCHANGED <<files, messages>>
       \/ Failed /\ UNCHANGED <<files, saved>>
    /\ UNCHANGED <<clock, path, counters>>

(* cleanup_rotated_logs; its errors are errors of the save.                *)
Cleanup ==
    /\ pc = "cleanup"
    /\ \/ RemoveOldest
       \/ /\ ~TooMany /\ Idle
          /\ saved' = IF op = "save" THEN saved \cup ToSet(messages) ELSE saved
          /\ UNCHANGED <<files, messages>>
       \/ Failed /\ UNCHANGED <<files, saved>>
    /\ UNCHANGED <<clock, path, counters>>

-----------------------------------------------------------------------------
(* The process ends at any point.                                          *)
Crash ==
    /\ pc # "down" /\ crashes < MaxCrashes
    /\ crashes' = crashes + 1
    /\ \/ UNCHANGED files
       \/ pc = "append" /\ Torn /\ files' \in {Written(f) : f \in TornFiles}
    /\ messages' = << >> /\ path' = NoPath /\ pc' = "down" /\ op' = "none"
    /\ UNCHANGED <<clock, pushed, saved>>

(* load_recent_sessions: every file that loads becomes a tab, the one      *)
(* written last is in front.  The session remembers the file it was loaded *)
(* from.                                                                   *)
Start ==
    /\ pc = "down" /\ clock < MaxClock
    /\ clock' = clock + 1
    /\ \E i \in RestorableFiles :
         /\ OpensAny \/ \A j \in RestorableFiles : j <= i
         /\ messages' = files[i].lines
         /\ path' = files[i].name
    /\ pc' = "idle"
    /\ UNCHANGED <<files, op, counters, saved>>

Init ==
    /\ files = << >> /\ clock = 1
    /\ messages = << >> /\ path = NoPath
    /\ pc = "idle" /\ op = "none"
    /\ pushed = 0 /\ crashes = 0
    /\ saved = {}

Next == \/ Push \/ AppendLine
        \/ Save \/ Rotate \/ Write \/ Cleanup
        \/ Crash \/ Start

Spec == Init /\ [][Next]_vars

-----------------------------------------------------------------------------
(* Properties *)

TypeOK ==
    /\ \A i \in DOMAIN files : files[i] \in [name : Names, lines : Seq(Lines), open : BOOLEAN]
    /\ clock \in Rotated
    /\ messages \in Seq(1..MaxMessages) /\ path \in Names \cup {NoPath}
    /\ pc \in {"idle", "append", "rotate", "write", "cleanup", "down"}
    /\ pc = "append" => Has(path)
    /\ op \in {"none", "push", "save"}
    /\ pushed \in 0..MaxMessages /\ crashes \in 0..MaxCrashes
    /\ saved \subseteq 1..MaxMessages

(* Whatever step a crash interrupts or an error ends, the tab that is in   *)
(* front after the next start has every message of every save that         *)
(* succeeded: a rotation never leaves only an older state behind.          *)
SavedIsReopened ==
    saved # {} =>
        \E i \in RestorableFiles :
            /\ \A j \in RestorableFiles : j <= i
            /\ saved \subseteq Held(files[i])

(* Between two calls the file a session appends to, if it is there, has    *)
(* every message of the memory: a push that returned Ok is on disk, one    *)
(* that did not is out of memory.                                          *)
FileLeadsMemory ==
    pc = "idle" /\ path # NoPath /\ Has(path) =>
        ToSet(messages) \subseteq Held(Get(path))

(* No file has a message twice or out of order, so none is loaded so,      *)
(* over bootstraps, failed pushes, rotations and restarts.                 *)
InOrder ==
    \A n \in DOMAIN files :
        LET lines == files[n].lines IN
        \A i, j \in DOMAIN lines : i < j /\ lines[j] # Unreadable => lines[i] < lines[j]

(* worker.rs:231: the session is saved always, "so that the history is not *)
(* lost": what was saved is still in a file that can be loaded.            *)
NothingSavedIsLost ==
    \A m \in saved : \E i \in RestorableFiles : m \in Held(files[i])
=============================================================================
