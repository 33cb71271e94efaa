------------------------------ MODULE MCFiles ------------------------------
(* Model checking of the parts that keep their state in files: the session *)
(* store, the REPL, the plugin commands, the saved login, the prompt cache *)
(* and the file tools; and of what is left of an agent's detail.  They     *)
(* share no file: a behaviour is one of one part, and the others stay      *)
(* where they begin.                                                       *)
EXTENDS SessionStore, TLC

CONSTANTS Sessions, Retitled, N, Modes, MaxTurns,     \* Repl
          External, Bundled, MaxVersion,             \* PluginManager
          Procs, MaxAge, None, Empty, Garbled,       \* Credentials
          Callers, NewTexts, Alphabet, MaxWrite, Missing, MaxCells, Context,
          MaxPatchLines,                             \* FileTools
          Details, NoticeChars, Budgets, MaxLines,   \* SummaryCompression
          Caches, Asks, CompletionTtl, PromptTtl, CacheReads, MinDrop, NoEntry,
          MaxNow,                                    \* PromptCache
          lineA, lineB                               \* lines of a text

VARIABLES part,
          rt, fresh, handle, mode, doing, turns, file, enabled, gone, told, owed, closed, spoilt,
          upstream, dir, registry, switch, command, cut,
          proc, name, inode, now, valid, rotates, overlapped, lost,
          contents, call, promised,
          text, budget,
          cache, entry, state, time, contact, verdict

R == INSTANCE Repl WITH op <- doing
M == INSTANCE PluginManager WITH op <- command
C == INSTANCE Credentials
F == INSTANCE FileTools
S == INSTANCE SummaryCompression
K == INSTANCE PromptCache WITH now <- time

ASSUME TurnsAssumption == R!Bounds
ASSUME PluginsAssumption == M!Populated
ASSUME LoginAssumption == C!Distinct
ASSUME TtlAssumption == K!Distinct
ASSUME TextsAssumption == F!TextsFit
ASSUME LinesAssumption == S!SizesFit

FilesAlphabet == {lineA, lineB}
FilesTexts == {<< >>, <<lineA, lineA, lineA>>, <<lineB, lineA, lineB>>,
               <<lineB, lineA, lineA, lineA, lineB>>}

Detail(begins, rest, chars, mark, colon) ==
    [begins |-> begins, rest |-> rest, chars |-> chars, mark |-> mark, colon |-> colon]
FilesDetails == {Detail("scope", "x", 3, "core", FALSE), Detail("header", "x", 8, "detail", TRUE),
                 Detail("point", "x", 2, "detail", FALSE), Detail("point", "y", 5, "detail", FALSE),
                 Detail("word", "x", 7, "other", FALSE), Detail("word", "y", 11, "other", FALSE)}
NoBudget == [chars |-> 0, lines |-> 0, lineChars |-> 0]
FilesBudgets == [chars : {0, 3, 9, 14, 20}, lines : {0, 1, 3}, lineChars : {0, 6}]

repl == <<rt, fresh, handle, mode, doing, turns, file, enabled, gone, told, owed, closed, spoilt>>
plugins == <<upstream, dir, registry, switch, command, cut>>
login == <<proc, name, inode, now, valid, rotates, overlapped, lost>>
edits == <<contents, call, promised>>
summary == <<text, budget>>
prompts == <<cache, entry, state, time, contact, verdict>>

all == <<vars, repl, plugins, login, edits, summary, prompts>>

FilesInit ==
    /\ part \in {"store", "repl", "plugins", "login", "edits", "summary", "prompts"}
    /\ Init /\ R!Init /\ M!Init /\ C!Init /\ F!Init /\ S!Init /\ K!Init
    /\ part # "repl" => /\ handle = CHOOSE s \in Sessions \ Retitled : TRUE
                        /\ mode = CHOOSE m \in Modes : TRUE
                        /\ enabled = {}
    /\ part # "login" => name.live = None /\ rotates /\ inode[C!First] = C!NoRoot
    /\ part # "edits" => contents = Missing
    /\ part # "summary" => budget = NoBudget

FilesNext ==
    \/ part = "store" /\ Next
       /\ UNCHANGED <<part, repl, plugins, login, edits, summary, prompts>>
    \/ part = "repl" /\ R!Next
       /\ UNCHANGED <<part, vars, plugins, login, edits, summary, prompts>>
    \/ part = "plugins" /\ M!Next
       /\ UNCHANGED <<part, vars, repl, login, edits, summary, prompts>>
    \/ part = "login" /\ C!Next
       /\ UNCHANGED <<part, vars, repl, plugins, edits, summary, prompts>>
    \/ part = "edits" /\ F!Next
       /\ UNCHANGED <<part, vars, repl, plugins, login, summary, prompts>>
    \/ part = "summary" /\ S!Next
       /\ UNCHANGED <<part, vars, repl, plugins, login, edits, prompts>>
    \/ part = "prompts" /\ K!Next
       /\ UNCHANGED <<part, vars, repl, plugins, login, edits, summary>>

FilesSpec == FilesInit /\ [][FilesNext]_<<part, all>>

(* Each with the type invariant of its module.  What has been saved is     *)
(* opened again, the file leads the memory, no line out of order.          *)
SessionFiles == part = "store" => TypeOK /\ SavedIsReopened /\ FileLeadsMemory /\ InOrder

(* Every plugin that was started is stopped once, and the turns the user   *)
(* has seen are in the file of the session they belong to.                 *)
ReplSessions == part = "repl" => /\ R!TypeOK /\ R!PluginsAreClosed /\ R!UpInTurns
                                 /\ R!TurnsAreOnDisk /\ R!ClosedStaysClosed

(* What is listed heals, and what is installed was built.                  *)
PluginDirectories == part = "plugins" => M!TypeOK /\ M!ListingHeals /\ M!InstalledIsBuilt

(* The saved login is whole, and its tokens can be refreshed.              *)
CredentialsFile == part = "login" => C!TypeOK /\ C!FileIsWhole /\ C!TokensCanBeRefreshed

(* A file holds what a tool said it wrote, and its pages put together are  *)
(* what it holds.                                                          *)
FileContents == part = "edits" => F!TypeOK /\ F!PromisesAreKept /\ F!PagesAreTheText

(* A patch tells what was done to a text, and a search shows it as it is.  *)
FileEdits == part = "edits" => F!PatchesTell /\ F!SearchesAreWhole

(* A summary fits its budget, wastes none of it, and is compressed once.   *)
SummariesFit == part = "summary" => S!WithinBudget /\ S!NothingIsWasted /\ S!CompressedOnce

(* What the cache answers is recent, and a break it reports is one.        *)
CachedPrompts == part = "prompts" => K!AnswersAreRecent /\ K!BreaksAreBreaks
=============================================================================
