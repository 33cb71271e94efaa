--------------------------- MODULE WorkspaceProofs ---------------------------
(***************************************************************************)
(* Proofs about the REPL and its session files, the edits of files and the *)
(* compression of summaries, for any number of sessions and callers, every *)
(* text and every budget, and without the bounds of the runs.              *)
(***************************************************************************)
EXTENDS MCFiles, SequenceTheorems, FiniteSetTheorems, WellFoundedInduction, TLAPS

-----------------------------------------------------------------------------
(* The composition: what it does is a step of each of the three, or none   *)
(* of its variables changes.                                               *)

LEMMA WorkspaceNext ==
  ASSUME [FilesNext]_<<part, all>>
  PROVE  [R!Next]_(R!vars) /\ [F!Next]_(F!vars) /\ [S!Next]_<<text, budget>>
<1>1. CASE UNCHANGED <<part, all>>
  BY <1>1 DEF all, repl, edits, summary, R!vars, R!world, F!vars
<1>2. CASE FilesNext
  BY <1>2 DEF FilesNext, repl, edits, summary, R!vars, R!world, F!vars
<1> QED BY <1>1, <1>2

LEMMA WorkspaceParts == FilesSpec => R!Spec /\ F!Spec /\ S!Spec
<1>1. FilesInit => R!Init /\ F!Init /\ S!Init
  BY DEF FilesInit
<1> QED BY <1>1, WorkspaceNext, PTL DEF FilesSpec, R!Spec, F!Spec, S!Spec

(* A set of numbers has a least one.                                       *)
LEMMA LeastNat ==
  ASSUME NEW T \in SUBSET Nat, T # {}
  PROVE  \E x \in T : \A y \in T : x <= y
<1> DEFINE less == {ss \in Nat \X Nat : ss[1] < ss[2]}
<1>1. IsWellFoundedOn(less, Nat)
  BY NatLessThanWellFounded DEF OpToRel
<1> HIDE DEF less
<1>2. PICK x \in T : \A y \in T : ~(<<y, x>> \in less)
  BY <1>1, WFMin
<1>3. ASSUME NEW y \in T, ~(x <= y) PROVE FALSE
  <2>1. <<y, x>> \in Nat \X Nat /\ y < x
    BY <1>3
  <2>2. <<y, x>> \in less
    BY <2>1 DEF less
  <2> QED BY <1>2, <2>2
<1> QED BY <1>3

LEMMA AFunctionIsASeq ==
  ASSUME NEW T, NEW n \in Nat, NEW w \in [1..n -> T]
  PROVE  w \in Seq(T) /\ Len(w) = n
OBVIOUS

-----------------------------------------------------------------------------
(* The line REPL *)

ReplPcs == {"prompt", "build", "turn", "replace", "giveUp", "persist", "unwind", "ended"}
Moving == {"new", "switch", "fork", "close"}
ReplCmds == {"start", "turn", "remake", "permissions", "clear", "plugins"} \cup Moving
Turns == 1..MaxTurns
RuntimeRec == [path : Sessions, holds : SUBSET Turns, mode : Modes, plugins : SUBSET R!Plugins, active : BOOLEAN]

ReplTypes ==
    /\ rt \in RuntimeRec /\ fresh \in RuntimeRec /\ handle \in Sessions /\ mode \in Modes
    /\ doing \in [cmd : ReplCmds, pc : ReplPcs] /\ turns \in 0..MaxTurns
    /\ file \in [Sessions -> [there : BOOLEAN, holds : SUBSET Turns]]
    /\ enabled \subseteq R!Plugins /\ gone \subseteq R!Plugins
    /\ told \in [R!Plugins -> [open : Int, up : BOOLEAN]]
    /\ owed \in [Sessions -> SUBSET Turns] /\ closed \subseteq Sessions /\ spoilt \in BOOLEAN

ReplPhases ==
    /\ doing.pc \in {"prompt", "persist", "build"} => ~fresh.active
    /\ doing.pc \in {"turn", "replace", "giveUp"} => fresh.active
    /\ doing.pc = "turn" => /\ doing.cmd = "turn" /\ fresh.mode = mode
                            /\ \A p \in fresh.plugins : told[p].up
    /\ doing.cmd = "turn" /\ doing.pc \in {"build", "turn"} => turns < MaxTurns
    /\ doing.pc = "ended" => ~rt.active /\ ~fresh.active
    /\ ~rt.active => rt.plugins = {}
    /\ spoilt => doing.pc \in {"unwind", "ended"}

(* Runtimes that have initialised a plugin and will shut it down.          *)
Holders(p) ==
    (IF p \in rt.plugins THEN 1 ELSE 0) + (IF fresh.active /\ p \in fresh.plugins THEN 1 ELSE 0)

Balance ==
    \A p \in R!Plugins : IF ~spoilt THEN told[p].open = Holders(p)
                         ELSE Holders(p) - 1 <= told[p].open /\ told[p].open <= 3

FilesHold ==
    /\ \A s \in Sessions : owed[s] \subseteq file[s].holds /\ (~file[s].there => file[s].holds = {})
    /\ \A s \in closed \ Retitled : ~file[s].there

(* A runtime that may be written to its file: it has what the file owes,   *)
(* and the session was not closed.                                         *)
Kept(r) == owed[r.path] \subseteq r.holds /\ r.path \notin closed \ Retitled

Tracks ==
    /\ doing.pc \in {"prompt", "persist"} => rt.path = handle /\ Kept(rt)
    /\ doing.pc \in {"build", "turn", "replace"} =>
          Kept(fresh) /\ (doing.cmd \notin Moving => handle = fresh.path)

ReplInv == ReplTypes /\ ReplPhases /\ Balance /\ FilesHold /\ Tracks

LEMMA NoRuntimeFits ==
  ASSUME handle \in Sessions, mode \in Modes
  PROVE  /\ R!NoRuntime \in RuntimeRec /\ R!NoRuntime.active = FALSE /\ R!NoRuntime.plugins = {}
<1> DEFINE s == CHOOSE s \in Sessions : TRUE
           m == CHOOSE m \in Modes : TRUE
<1>1. s \in Sessions /\ m \in Modes
  OBVIOUS
<1>2. R!NoRuntime = [path |-> s, holds |-> {}, mode |-> m, plugins |-> {}, active |-> FALSE]
  BY DEF R!NoRuntime
<1> HIDE DEF s, m
<1> QED BY <1>1, <1>2 DEF RuntimeRec

LEMMA ReplGoes ==
  ASSUME ReplTypes, NEW x \in ReplPcs, R!Goto(x)
  PROVE  doing' \in [cmd : ReplCmds, pc : ReplPcs] /\ doing'.pc = x /\ doing'.cmd = doing.cmd
BY DEF ReplTypes, R!Goto

LEMMA ToldFits ==
  ASSUME ReplTypes, NEW ps
  PROVE  /\ R!Initialised(ps) \in [R!Plugins -> [open : Int, up : BOOLEAN]]
         /\ R!ShutDown(ps) \in [R!Plugins -> [open : Int, up : BOOLEAN]]
         /\ \A p \in R!Plugins :
              /\ told[p].open \in Int
              /\ R!Initialised(ps)[p].open = told[p].open + (IF p \in ps THEN 1 ELSE 0)
              /\ p \in ps => R!Initialised(ps)[p].up
              /\ R!ShutDown(ps)[p].open = told[p].open - (IF p \in ps THEN 1 ELSE 0)
BY DEF ReplTypes, R!Initialised, R!ShutDown

(* What every command that builds a new runtime has to see to.             *)
LEMMA Prepared ==
  ASSUME ReplInv, R!AtPrompt, NEW c \in ReplCmds, NEW s \in Sessions, NEW h \in SUBSET Turns,
         R!Prepare(c, s, h), UNCHANGED <<rt, turns, told, spoilt>>,
         handle' \in Sessions, mode' \in Modes, enabled' \subseteq R!Plugins, gone' \subseteq R!Plugins,
         file' \in [Sessions -> [there : BOOLEAN, holds : SUBSET Turns]],
         owed' \in [Sessions -> SUBSET Turns], closed' \subseteq Sessions,
         FilesHold', owed'[s] \subseteq h, s \notin closed' \ Retitled,
         c \notin Moving => handle' = s, c = "turn" => turns < MaxTurns
  PROVE  ReplInv'
<1>1. doing.pc = "prompt" /\ ReplTypes /\ ReplPhases /\ Balance /\ ~spoilt
  BY DEF ReplInv, R!AtPrompt, ReplPhases
<1>2. doing' = [cmd |-> c, pc |-> "build"] /\ fresh' = [R!NoRuntime EXCEPT !.path = s, !.holds = h]
  BY DEF R!Prepare
<1>3. /\ R!NoRuntime \in RuntimeRec /\ R!NoRuntime.active = FALSE
  BY <1>1, NoRuntimeFits DEF ReplTypes
<1>4. fresh' \in RuntimeRec /\ fresh'.active = FALSE /\ fresh'.path = s /\ fresh'.holds = h
  BY <1>2, <1>3 DEF RuntimeRec
<1>5. doing'.cmd = c /\ doing'.pc = "build" /\ doing' \in [cmd : ReplCmds, pc : ReplPcs]
  BY <1>2 DEF ReplPcs
<1>6. ReplTypes'
  BY <1>1, <1>4, <1>5 DEF ReplTypes
<1>7. ReplPhases'
  BY <1>1, <1>4, <1>5 DEF ReplPhases
<1>8. Balance'
  BY <1>1, <1>4 DEF Balance, Holders, ReplPhases
<1>9. Tracks'
  BY <1>4, <1>5 DEF Tracks, Kept
<1> QED BY <1>6, <1>7, <1>8, <1>9 DEF ReplInv

LEMMA AtPromptFacts ==
  ASSUME ReplInv, R!AtPrompt
  PROVE  /\ ReplTypes /\ FilesHold /\ rt.path = handle /\ rt.path \in Sessions /\ rt.holds \in SUBSET Turns
         /\ owed[handle] \subseteq rt.holds /\ handle \notin closed \ Retitled
         /\ handle \in Sessions /\ mode \in Modes
         /\ \A s \in R!Unused : /\ s \in Sessions /\ s \notin closed /\ s # handle /\ owed[s] = {}
BY DEF ReplInv, R!AtPrompt, Tracks, Kept, ReplTypes, RuntimeRec, FilesHold, R!Unused

LEMMA RunTurnInv ==
  ASSUME ReplInv, R!RunTurn
  PROVE  ReplInv'
<1>1. /\ R!AtPrompt /\ turns < MaxTurns /\ R!Prepare("turn", rt.path, rt.holds)
      /\ UNCHANGED <<rt, handle, mode, turns, file, enabled, gone, told, owed, closed, spoilt>>
  BY DEF R!RunTurn, R!world
<1>2. FilesHold'
  BY <1>1, AtPromptFacts DEF FilesHold
<1> QED BY <1>1, <1>2, AtPromptFacts, Prepared DEF ReplTypes, ReplCmds

LEMMA RemakeInv ==
  ASSUME ReplInv, R!Remake
  PROVE  ReplInv'
<1>1. /\ R!AtPrompt /\ R!Prepare("remake", rt.path, rt.holds)
      /\ UNCHANGED <<rt, handle, mode, turns, file, enabled, gone, told, owed, closed, spoilt>>
  BY DEF R!Remake, R!world
<1>2. FilesHold'
  BY <1>1, AtPromptFacts DEF FilesHold
<1> QED BY <1>1, <1>2, AtPromptFacts, Prepared DEF ReplTypes, ReplCmds

LEMMA SetPermissionsInv ==
  ASSUME ReplInv, R!SetPermissions
  PROVE  ReplInv'
<1>1. /\ R!AtPrompt /\ mode' \in Modes /\ R!Prepare("permissions", rt.path, rt.holds)
      /\ UNCHANGED <<rt, handle, turns, file, enabled, gone, told, owed, closed, spoilt>>
  BY DEF R!SetPermissions, R!world
<1>2. FilesHold'
  BY <1>1, AtPromptFacts DEF FilesHold
<1> QED BY <1>1, <1>2, AtPromptFacts, Prepared DEF ReplTypes, ReplCmds

LEMMA ClearSessionInv ==
  ASSUME ReplInv, R!ClearSession
  PROVE  ReplInv'
<1>1. /\ R!AtPrompt /\ handle' \in R!Unused /\ R!Prepare("clear", handle', {})
      /\ UNCHANGED <<rt, mode, turns, file, enabled, gone, told, owed, closed, spoilt>>
  BY DEF R!ClearSession, R!world
<1>2. FilesHold'
  BY <1>1, AtPromptFacts DEF FilesHold
<1>3. handle' \in Sessions /\ handle' \notin closed /\ owed[handle'] = {}
  BY <1>1, AtPromptFacts
<1> QED BY <1>1, <1>2, <1>3, AtPromptFacts, Prepared DEF ReplTypes, ReplCmds

(* Changes of the files and of what they owe.                              *)
LEMMA FileStored ==
  ASSUME ReplTypes, FilesHold, NEW s \in Sessions, NEW h \in SUBSET Turns, owed[s] \subseteq h,
         s \notin closed \ Retitled
  PROVE  LET f == [file EXCEPT ![s] = R!File(h)] IN
         /\ f \in [Sessions -> [there : BOOLEAN, holds : SUBSET Turns]]
         /\ \A t \in Sessions : owed[t] \subseteq f[t].holds /\ (~f[t].there => f[t].holds = {})
         /\ \A t \in closed \ Retitled : ~f[t].there
BY DEF ReplTypes, FilesHold, R!File

LEMMA NewSessionInv ==
  ASSUME ReplInv, R!NewSession
  PROVE  ReplInv'
<1>1. /\ R!AtPrompt
      /\ UNCHANGED <<rt, handle, mode, turns, enabled, gone, told, owed, closed, spoilt>>
  BY DEF R!NewSession
<1>2. PICK s \in R!Unused : /\ file' = [file EXCEPT ![handle] = R!File(rt.holds), ![s] = R!File({})]
                            /\ R!Prepare("new", s, {})
  BY DEF R!NewSession
<1>3. s \in Sessions /\ s \notin closed /\ s # handle /\ owed[s] = {}
  BY <1>1, AtPromptFacts
<1>4. /\ file' \in [Sessions -> [there : BOOLEAN, holds : SUBSET Turns]]
      /\ file'[s] = R!File({}) /\ file'[handle] = R!File(rt.holds)
      /\ \A t \in Sessions : t # s /\ t # handle => file'[t] = file[t]
  BY <1>1, <1>2, <1>3, AtPromptFacts DEF ReplTypes, R!File
<1>5. FilesHold'
  <2>1. ASSUME NEW t \in Sessions
        PROVE  owed[t] \subseteq file'[t].holds /\ (~file'[t].there => file'[t].holds = {})
    <3>1. CASE t = s
      BY <1>3, <1>4, <3>1 DEF R!File
    <3>2. CASE t = handle
      BY <1>1, <1>4, <3>2, AtPromptFacts DEF R!File
    <3>3. CASE t # s /\ t # handle
      BY <1>1, <1>4, <3>3, AtPromptFacts DEF FilesHold
    <3> QED BY <3>1, <3>2, <3>3
  <2>2. ASSUME NEW t \in closed \ Retitled
        PROVE  ~file'[t].there
    BY <1>1, <1>3, <1>4, AtPromptFacts DEF FilesHold, ReplTypes
  <2> QED BY <1>1, <2>1, <2>2 DEF FilesHold
<1> QED BY <1>1, <1>2, <1>3, <1>4, <1>5, AtPromptFacts, Prepared DEF ReplTypes, ReplCmds, Moving

LEMMA ForkSessionInv ==
  ASSUME ReplInv, R!ForkSession
  PROVE  ReplInv'
<1>1. /\ R!AtPrompt
      /\ UNCHANGED <<rt, handle, mode, turns, enabled, gone, told, closed, spoilt>>
  BY DEF R!ForkSession
<1>2. PICK s \in R!Unused : /\ file' = [file EXCEPT ![s] = R!File(rt.holds)]
                            /\ owed' = [owed EXCEPT ![s] = rt.holds]
                            /\ R!Prepare("fork", s, rt.holds)
  BY DEF R!ForkSession
<1>3. s \in Sessions /\ s \notin closed
  BY <1>1, AtPromptFacts
<1>4. /\ file' \in [Sessions -> [there : BOOLEAN, holds : SUBSET Turns]] /\ owed' \in [Sessions -> SUBSET Turns]
      /\ file'[s] = R!File(rt.holds) /\ owed'[s] = rt.holds
      /\ \A t \in Sessions : t # s => file'[t] = file[t] /\ owed'[t] = owed[t]
  BY <1>1, <1>2, <1>3, AtPromptFacts DEF ReplTypes, R!File
<1>5. FilesHold'
  <2>1. ASSUME NEW t \in Sessions
        PROVE  owed'[t] \subseteq file'[t].holds /\ (~file'[t].there => file'[t].holds = {})
    <3>1. CASE t = s
      BY <1>4, <3>1 DEF R!File
    <3>2. CASE t # s
      BY <1>1, <1>4, <3>2, AtPromptFacts DEF FilesHold
    <3> QED BY <3>1, <3>2
  <2>2. ASSUME NEW t \in closed \ Retitled
        PROVE  ~file'[t].there
    BY <1>1, <1>3, <1>4, AtPromptFacts DEF FilesHold, ReplTypes
  <2> QED BY <1>1, <2>1, <2>2 DEF FilesHold
<1> QED BY <1>1, <1>2, <1>3, <1>4, <1>5, AtPromptFacts, Prepared DEF ReplTypes, ReplCmds, Moving

LEMMA SwitchSessionInv ==
  ASSUME ReplInv, R!SwitchSession
  PROVE  ReplInv'
<1>1. /\ R!AtPrompt
      /\ UNCHANGED <<rt, handle, mode, turns, file, enabled, gone, told, owed, closed, spoilt>>
  BY DEF R!SwitchSession, R!world
<1>2. PICK s \in Sessions : file[s].there /\ R!Prepare("switch", s, file[s].holds)
  BY DEF R!SwitchSession
<1>3. FilesHold'
  BY <1>1, AtPromptFacts DEF FilesHold
<1>4. owed[s] \subseteq file[s].holds /\ s \notin closed \ Retitled /\ file[s].holds \in SUBSET Turns
  BY <1>1, <1>2, AtPromptFacts DEF FilesHold, ReplTypes
<1> QED BY <1>1, <1>2, <1>3, <1>4, AtPromptFacts, Prepared DEF ReplTypes, ReplCmds, Moving

(* /session close, of the active session and of another.                   *)
LEMMA FileRemoved ==
  ASSUME ReplTypes, FilesHold, NEW s \in Sessions
  PROVE  LET f == [file EXCEPT ![s] = R!NoFile]
             o == [owed EXCEPT ![s] = {}] IN
         /\ f \in [Sessions -> [there : BOOLEAN, holds : SUBSET Turns]]
         /\ o \in [Sessions -> SUBSET Turns] /\ closed \cup {s} \subseteq Sessions
         /\ \A t \in Sessions : o[t] \subseteq owed[t]
         /\ \A t \in Sessions : o[t] \subseteq f[t].holds /\ (~f[t].there => f[t].holds = {})
         /\ \A t \in (closed \cup {s}) \ Retitled : ~f[t].there
         /\ \A t \in Sessions : t # s => f[t] = file[t] /\ o[t] = owed[t]
         /\ o[s] = {}
BY DEF ReplTypes, FilesHold, R!NoFile

LEMMA CloseSessionInv ==
  ASSUME ReplInv, R!CloseSession
  PROVE  ReplInv'
<1>1. /\ R!AtPrompt
      /\ UNCHANGED <<rt, handle, mode, turns, enabled, gone, told, spoilt>>
  BY DEF R!CloseSession
<1>2. PICK s \in Sessions :
         /\ file[s].there
         /\ closed' = closed \cup {s} /\ owed' = [owed EXCEPT ![s] = {}]
         /\ IF s = handle /\ s \notin Retitled
            THEN \/ \E next \in Sessions \ {s} :
                      /\ file[next].there /\ file' = [file EXCEPT ![s] = R!NoFile]
                      /\ R!Prepare("close", next, file[next].holds)
                 \/ \E next \in R!Unused :
                      /\ \A other \in Sessions \ {s} : ~file[other].there
                      /\ file' = [file EXCEPT ![s] = R!NoFile, ![next] = R!File({})]
                      /\ R!Prepare("close", next, {})
            ELSE /\ file' = [file EXCEPT ![s] = R!NoFile]
                 /\ R!Goto("persist") /\ UNCHANGED fresh
  BY DEF R!CloseSession
<1> DEFINE f == [file EXCEPT ![s] = R!NoFile]
<1>3. /\ f \in [Sessions -> [there : BOOLEAN, holds : SUBSET Turns]]
      /\ owed' \in [Sessions -> SUBSET Turns] /\ closed' \subseteq Sessions
      /\ \A t \in Sessions : owed'[t] \subseteq owed[t]
      /\ \A t \in Sessions : owed'[t] \subseteq f[t].holds /\ (~f[t].there => f[t].holds = {})
      /\ \A t \in closed' \ Retitled : ~f[t].there
      /\ \A t \in Sessions : t # s => f[t] = file[t] /\ owed'[t] = owed[t]
  <2>1. ReplTypes /\ FilesHold
    BY <1>1, AtPromptFacts
  <2> QED BY <1>2, <2>1, FileRemoved
<1> HIDE DEF f
<1>4. ASSUME s = handle, NEW next \in Sessions \ {s}, file[next].there, file' = f,
             R!Prepare("close", next, file[next].holds)
      PROVE  ReplInv'
  <2>1. FilesHold'
    BY <1>3, <1>4 DEF FilesHold
  <2>2. file[next].holds \in SUBSET Turns /\ owed[next] \subseteq file[next].holds /\ next \notin closed \ Retitled
    BY <1>1, <1>4, AtPromptFacts DEF FilesHold, ReplTypes
  <2>3. owed'[next] \subseteq file[next].holds /\ next \notin closed' \ Retitled
    BY <1>2, <1>3, <1>4, <2>2
  <2> QED BY <1>1, <1>3, <1>4, <2>1, <2>2, <2>3, AtPromptFacts, Prepared DEF ReplTypes, ReplCmds, Moving
<1>5. ASSUME s = handle, NEW next \in R!Unused, file' = [file EXCEPT ![s] = R!NoFile, ![next] = R!File({})],
             R!Prepare("close", next, {})
      PROVE  ReplInv'
  <2>1. next \in Sessions /\ next \notin closed /\ next # s /\ owed[next] = {}
    BY <1>1, <1>5, AtPromptFacts
  <2>2. /\ file' \in [Sessions -> [there : BOOLEAN, holds : SUBSET Turns]]
        /\ file'[next] = R!File({})
        /\ \A t \in Sessions : t # next => file'[t] = f[t]
    BY <1>1, <1>5, <2>1, AtPromptFacts DEF f, ReplTypes, R!File, R!NoFile
  <2>3. next \notin closed' /\ owed'[next] = {}
    BY <1>2, <1>3, <2>1
  <2>4. ASSUME NEW t \in Sessions
        PROVE  owed'[t] \subseteq file'[t].holds /\ (~file'[t].there => file'[t].holds = {})
    BY <1>3, <2>2, <2>3 DEF R!File
  <2>5. ASSUME NEW t \in closed' \ Retitled
        PROVE  ~file'[t].there
    BY <1>3, <2>2, <2>3
  <2>6. FilesHold'
    BY <2>4, <2>5 DEF FilesHold
  <2>7. handle' \in Sessions /\ mode' \in Modes /\ enabled' \subseteq R!Plugins /\ gone' \subseteq R!Plugins
    BY <1>1, AtPromptFacts DEF ReplTypes
  <2>8. {} \in SUBSET Turns /\ owed'[next] \subseteq {} /\ "close" \in ReplCmds /\ "close" \in Moving
    BY <2>3 DEF ReplCmds, Moving
  <2>9. UNCHANGED <<rt, turns, told, spoilt>>
    BY <1>1
  <2> QED BY <1>1, <1>3, <1>5, <2>1, <2>2, <2>3, <2>6, <2>7, <2>8, <2>9, Prepared
<1>6. ASSUME ~(s = handle /\ s \notin Retitled), file' = f, R!Goto("persist"), UNCHANGED fresh
      PROVE  ReplInv'
  <2>1. ReplTypes /\ ReplPhases /\ Balance /\ doing.pc = "prompt" /\ ~spoilt
    BY <1>1 DEF ReplInv, R!AtPrompt, ReplPhases
  <2>2. doing' \in [cmd : ReplCmds, pc : ReplPcs] /\ doing'.pc = "persist" /\ doing'.cmd = doing.cmd
    BY <1>6, <2>1, ReplGoes DEF ReplPcs
  <2>3. FilesHold'
    BY <1>3, <1>6 DEF FilesHold
  <2>4. ReplTypes'
    BY <1>1, <1>3, <1>6, <2>1, <2>2 DEF ReplTypes
  <2>5. ReplPhases'
    BY <1>1, <1>6, <2>1, <2>2 DEF ReplPhases
  <2>6. Balance'
    BY <1>1, <1>6, <2>1 DEF Balance, Holders
  <2>7. owed'[handle] \subseteq rt.holds /\ handle \notin closed' \ Retitled
    BY <1>1, <1>2, <1>3, <1>6, AtPromptFacts
  <2>8. Tracks'
    BY <1>1, <2>2, <2>7, AtPromptFacts DEF Tracks, Kept
  <2> QED BY <2>3, <2>4, <2>5, <2>6, <2>8 DEF ReplInv
<1> QED BY <1>2, <1>4, <1>5, <1>6 DEF f

LEMMA PluginsCommandInv ==
  ASSUME ReplInv, R!PluginsCommand
  PROVE  ReplInv'
<1>1. /\ R!AtPrompt /\ R!Prepare("plugins", rt.path, rt.holds)
      /\ enabled' \in SUBSET R!Plugins
      /\ gone' \in {gone \ enabled'} \cup {(gone \cup {p}) \ enabled' : p \in enabled \ enabled'}
      /\ UNCHANGED <<rt, handle, mode, turns, file, told, owed, closed, spoilt>>
  BY DEF R!PluginsCommand
<1>2. enabled' \subseteq R!Plugins /\ gone' \subseteq R!Plugins
  BY <1>1, AtPromptFacts DEF ReplTypes
<1>3. FilesHold'
  BY <1>1, AtPromptFacts DEF FilesHold
<1>4. UNCHANGED <<rt, turns, told, spoilt>> /\ R!Prepare("plugins", rt.path, rt.holds)
  BY <1>1
<1>5. /\ handle' = rt.path /\ handle' \in Sessions /\ mode' \in Modes
      /\ file' \in [Sessions -> [there : BOOLEAN, holds : SUBSET Turns]]
      /\ owed' \in [Sessions -> SUBSET Turns] /\ closed' \subseteq Sessions
      /\ owed'[rt.path] \subseteq rt.holds /\ rt.path \notin closed' \ Retitled
  BY <1>1, AtPromptFacts DEF ReplTypes
<1>6. "plugins" \in ReplCmds /\ "plugins" # "turn"
  BY DEF ReplCmds
<1> QED BY <1>1, <1>2, <1>3, <1>4, <1>5, <1>6, AtPromptFacts, Prepared

(* What leaves the prompt with an error, or for good.                      *)
LEMMA LeavesPrompt ==
  ASSUME ReplInv, R!AtPrompt, R!Goto("unwind"), FilesHold',
         file' \in [Sessions -> [there : BOOLEAN, holds : SUBSET Turns]],
         UNCHANGED <<rt, fresh, handle, mode, turns, enabled, gone, told, owed, closed, spoilt>>
  PROVE  ReplInv'
<1>1. ReplTypes /\ ReplPhases /\ Balance
  BY DEF ReplInv
<1>2. doing' \in [cmd : ReplCmds, pc : ReplPcs] /\ doing'.pc = "unwind"
  BY <1>1, ReplGoes DEF ReplPcs
<1>3. ReplTypes'
  BY <1>1, <1>2 DEF ReplTypes
<1>4. ReplPhases'
  BY <1>1, <1>2 DEF ReplPhases
<1>5. Balance'
  BY <1>1 DEF Balance, Holders
<1>6. Tracks'
  BY <1>2 DEF Tracks
<1> QED BY <1>3, <1>4, <1>5, <1>6 DEF ReplInv

LEMMA CommandFailsInv ==
  ASSUME ReplInv, R!CommandFails
  PROVE  ReplInv'
<1>1. /\ R!AtPrompt /\ R!Goto("unwind")
      /\ UNCHANGED <<rt, fresh, handle, mode, turns, file, enabled, gone, told, owed, closed, spoilt>>
  BY DEF R!CommandFails, R!world
<1>2. FilesHold'
  BY <1>1, AtPromptFacts DEF FilesHold
<1> QED BY <1>1, <1>2, AtPromptFacts, LeavesPrompt DEF ReplTypes

LEMMA ExitInv ==
  ASSUME ReplInv, R!Exit
  PROVE  ReplInv'
<1>1. /\ R!AtPrompt /\ R!Goto("unwind")
      /\ file' \in {file, [file EXCEPT ![handle] = R!File(rt.holds)]}
      /\ UNCHANGED <<rt, fresh, handle, mode, turns, enabled, gone, told, owed, closed, spoilt>>
  BY DEF R!Exit
<1>2. FilesHold' /\ file' \in [Sessions -> [there : BOOLEAN, holds : SUBSET Turns]]
  <2>1. CASE file' = file
    BY <1>1, <2>1, AtPromptFacts DEF FilesHold, ReplTypes
  <2>2. CASE file' = [file EXCEPT ![handle] = R!File(rt.holds)]
    BY <1>1, <2>2, AtPromptFacts, FileStored DEF FilesHold
  <2> QED BY <1>1, <2>1, <2>2
<1> QED BY <1>1, <1>2, LeavesPrompt

-----------------------------------------------------------------------------
(* Steps between two prompts *)

LEMMA ReplBuildInv ==
  ASSUME ReplInv, R!Build
  PROVE  ReplInv'
<1>1. /\ ReplTypes /\ ReplPhases /\ Balance /\ FilesHold /\ Tracks
      /\ doing.pc = "build" /\ ~fresh.active /\ ~spoilt
  BY DEF ReplInv, ReplPhases, R!Build
<1>2. UNCHANGED <<rt, handle, mode, turns, file, enabled, gone, owed, closed>>
  BY DEF R!Build
<1>3. FilesHold'
  BY <1>1, <1>2 DEF FilesHold
<1>4. ASSUME told' = R!Initialised(enabled),
             fresh' = [fresh EXCEPT !.mode = mode, !.plugins = enabled, !.active = TRUE],
             R!Goto(IF doing.cmd = "turn" THEN "turn" ELSE "replace"), UNCHANGED spoilt
      PROVE  ReplInv'
  <2> DEFINE x == IF doing.cmd = "turn" THEN "turn" ELSE "replace"
  <2>1. x \in ReplPcs /\ R!Goto(x)
    BY <1>4 DEF ReplPcs
  <2> HIDE DEF x
  <2>2. doing' \in [cmd : ReplCmds, pc : ReplPcs] /\ doing'.pc = x /\ doing'.cmd = doing.cmd
    BY <1>1, <2>1, ReplGoes
  <2>3. /\ fresh' \in RuntimeRec /\ fresh'.active /\ fresh'.plugins = enabled /\ fresh'.mode = mode
        /\ fresh'.path = fresh.path /\ fresh'.holds = fresh.holds
    BY <1>1, <1>4 DEF ReplTypes, RuntimeRec
  <2>4. /\ told' \in [R!Plugins -> [open : Int, up : BOOLEAN]]
        /\ \A p \in R!Plugins : told'[p].open = told[p].open + (IF p \in enabled THEN 1 ELSE 0)
    BY <1>1, <1>4, ToldFits
  <2>5. ReplTypes'
    BY <1>1, <1>2, <1>4, <2>2, <2>3, <2>4 DEF ReplTypes
  <2>6. ReplPhases'
    <3>1. \A p \in fresh'.plugins : told'[p].up
      <4>1. enabled \subseteq R!Plugins /\ fresh'.plugins = enabled
        BY <1>1, <2>3 DEF ReplTypes
      <4>2. \A p \in enabled : R!Initialised(enabled)[p].up
        BY <1>1, <4>1, ToldFits
      <4> QED BY <1>4, <4>1, <4>2
    <3>2. doing'.pc = "turn" => doing'.cmd = "turn"
      BY <2>2 DEF x
    <3>3. doing'.pc \in {"turn", "replace"} /\ (doing'.cmd = "turn" => turns' < MaxTurns)
      BY <1>1, <1>2, <2>2 DEF ReplPhases, x
    <3> QED BY <1>1, <1>2, <1>4, <2>3, <3>1, <3>2, <3>3 DEF ReplPhases
  <2>7. Balance'
    <3>1. /\ \A p \in R!Plugins : told[p].open = IF p \in rt.plugins THEN 1 ELSE 0
          /\ rt' = rt /\ spoilt' = FALSE
      BY <1>1, <1>2, <1>4 DEF Balance, Holders, ReplTypes
    <3>2. \A p \in R!Plugins : Holders(p)' = (IF p \in rt.plugins THEN 1 ELSE 0) + (IF p \in enabled THEN 1 ELSE 0)
      BY <2>3, <3>1 DEF Holders
    <3>3. ASSUME NEW p \in R!Plugins
          PROVE  told'[p].open = Holders(p)'
      <4>1. told[p].open = IF p \in rt.plugins THEN 1 ELSE 0
        BY <3>1
      <4>2. told'[p].open = told[p].open + (IF p \in enabled THEN 1 ELSE 0)
        BY <2>4
      <4>3. Holders(p)' = (IF p \in rt.plugins THEN 1 ELSE 0) + (IF p \in enabled THEN 1 ELSE 0)
        BY <3>2
      <4> QED BY <4>1, <4>2, <4>3
    <3> QED BY <3>1, <3>3 DEF Balance, Holders
  <2>8. Tracks'
    <3>1. doing'.pc \in {"turn", "replace"}
      BY <2>2 DEF x
    <3> QED BY <1>1, <1>2, <2>2, <2>3, <3>1 DEF Tracks, Kept
  <2> QED BY <1>3, <2>5, <2>6, <2>7, <2>8 DEF ReplInv
<1>5. ASSUME NEW p \in R!Plugins \cup {N + 1}, told' = R!Initialised({q \in enabled : q < p}),
             spoilt' = TRUE, fresh' = R!NoRuntime, R!Goto("unwind")
      PROVE  ReplInv'
  <2> DEFINE done == {q \in enabled : q < p}
  <2> HIDE DEF done
  <2>1. doing' \in [cmd : ReplCmds, pc : ReplPcs] /\ doing'.pc = "unwind"
    BY <1>1, <1>5, ReplGoes DEF ReplPcs
  <2>2. fresh' \in RuntimeRec /\ ~fresh'.active
    BY <1>1, <1>5, NoRuntimeFits DEF ReplTypes
  <2>3. /\ told' \in [R!Plugins -> [open : Int, up : BOOLEAN]]
        /\ \A q \in R!Plugins : told'[q].open = told[q].open + (IF q \in done THEN 1 ELSE 0)
    BY <1>1, <1>5, ToldFits DEF done
  <2>4. ReplTypes'
    BY <1>1, <1>2, <1>5, <2>1, <2>2, <2>3 DEF ReplTypes
  <2>5. ReplPhases'
    BY <1>1, <1>2, <1>5, <2>1, <2>2 DEF ReplPhases
  <2>6. Balance'
    BY <1>1, <1>2, <1>5, <2>2, <2>3 DEF Balance, Holders, ReplTypes
  <2>7. Tracks'
    BY <2>1 DEF Tracks
  <2> QED BY <1>3, <2>4, <2>5, <2>6, <2>7 DEF ReplInv
<1>6. \/ /\ told' = R!Initialised(enabled)
         /\ fresh' = [fresh EXCEPT !.mode = mode, !.plugins = enabled, !.active = TRUE]
         /\ R!Goto(IF doing.cmd = "turn" THEN "turn" ELSE "replace") /\ UNCHANGED spoilt
      \/ /\ \E p \in R!Plugins \cup {N + 1} : told' = R!Initialised({q \in enabled : q < p})
         /\ spoilt' = TRUE /\ fresh' = R!NoRuntime /\ R!Goto("unwind")
  BY DEF R!Build
<1> QED BY <1>4, <1>5, <1>6

LEMMA TurnInv ==
  ASSUME ReplInv, R!Turn
  PROVE  ReplInv'
<1> DEFINE s == fresh.path
           n == turns + 1
<1>1. /\ ReplTypes /\ ReplPhases /\ Balance /\ FilesHold /\ Tracks
      /\ doing.pc = "turn" /\ doing.cmd = "turn" /\ fresh.active /\ ~spoilt /\ turns < MaxTurns
  BY DEF ReplInv, ReplPhases, R!Turn
<1>2. turns' = n /\ UNCHANGED <<rt, handle, mode, enabled, gone, told, closed, spoilt>>
  BY DEF R!Turn
<1>3. /\ s \in Sessions /\ n \in Turns /\ turns' \in 0..MaxTurns
      /\ Kept(fresh) /\ handle = s
  BY <1>1, <1>2, TurnsAssumption DEF ReplTypes, RuntimeRec, Tracks, R!Bounds, Moving, Turns
<1> DEFINE new == [file EXCEPT ![s] = R!File(file[s].holds \cup {n})]
<1>4. /\ new \in [Sessions -> [there : BOOLEAN, holds : SUBSET Turns]]
      /\ new[s] = R!File(file[s].holds \cup {n})
      /\ \A t \in Sessions : t # s => new[t] = file[t]
  BY <1>1, <1>3 DEF ReplTypes, R!File
<1>5. \A t \in Sessions : ~new[t].there => new[t].holds = {}
  BY <1>1, <1>4 DEF FilesHold, R!File
<1>6. \A t \in closed' \ Retitled : ~new[t].there
  BY <1>1, <1>2, <1>3, <1>4 DEF FilesHold, Kept, ReplTypes
<1>7. ASSUME fresh' = [fresh EXCEPT !.holds = @ \cup {n}], file' = new,
             owed' = [owed EXCEPT ![s] = @ \cup {n}], R!Goto("replace")
      PROVE  ReplInv'
  <2>1. doing' \in [cmd : ReplCmds, pc : ReplPcs] /\ doing'.pc = "replace" /\ doing'.cmd = doing.cmd
    BY <1>1, <1>7, ReplGoes DEF ReplPcs
  <2>2. /\ fresh' \in RuntimeRec /\ fresh'.active /\ fresh'.plugins = fresh.plugins
        /\ fresh'.path = s /\ fresh'.holds = fresh.holds \cup {n}
    BY <1>1, <1>3, <1>7 DEF ReplTypes, RuntimeRec
  <2>3. /\ owed' \in [Sessions -> SUBSET Turns] /\ owed'[s] = owed[s] \cup {n}
        /\ \A t \in Sessions : t # s => owed'[t] = owed[t]
    BY <1>1, <1>3, <1>7 DEF ReplTypes
  <2>4. ASSUME NEW t \in Sessions
        PROVE  owed'[t] \subseteq file'[t].holds
    <3>1. owed[t] \subseteq file[t].holds
      BY <1>1 DEF FilesHold
    <3> QED BY <1>4, <1>7, <2>3, <3>1 DEF R!File
  <2>5. FilesHold'
    BY <1>5, <1>6, <1>7, <2>4 DEF FilesHold
  <2>6. ReplTypes'
    BY <1>1, <1>2, <1>3, <1>4, <1>7, <2>1, <2>2, <2>3 DEF ReplTypes
  <2>7. ReplPhases'
    BY <1>1, <1>2, <2>1, <2>2 DEF ReplPhases
  <2>8. Balance'
    BY <1>1, <1>2, <2>2 DEF Balance, Holders
  <2>9. Tracks'
    BY <1>1, <1>2, <1>3, <2>1, <2>2, <2>3 DEF Tracks, Kept
  <2> QED BY <2>5, <2>6, <2>7, <2>8, <2>9 DEF ReplInv
<1>8. ASSUME file' \in {file, new}, R!Goto("giveUp"), UNCHANGED <<fresh, owed>>
      PROVE  ReplInv'
  <2>1. doing' \in [cmd : ReplCmds, pc : ReplPcs] /\ doing'.pc = "giveUp" /\ doing'.cmd = doing.cmd
    BY <1>1, <1>8, ReplGoes DEF ReplPcs
  <2>2. ASSUME NEW t \in Sessions
        PROVE  owed'[t] \subseteq file'[t].holds /\ (~file'[t].there => file'[t].holds = {})
    <3>1. owed[t] \subseteq file[t].holds /\ (~file[t].there => file[t].holds = {})
      BY <1>1 DEF FilesHold
    <3>2. file[t].holds \subseteq new[t].holds
      BY <1>4 DEF R!File
    <3> QED BY <1>5, <1>8, <3>1, <3>2
  <2>3. \A t \in closed' \ Retitled : ~file'[t].there
    BY <1>1, <1>2, <1>6, <1>8 DEF FilesHold
  <2>4. FilesHold'
    BY <2>2, <2>3 DEF FilesHold
  <2>5. ReplTypes'
    BY <1>1, <1>2, <1>3, <1>4, <1>8, <2>1 DEF ReplTypes
  <2>6. ReplPhases'
    BY <1>1, <1>2, <1>8, <2>1 DEF ReplPhases
  <2>7. Balance'
    BY <1>1, <1>2, <1>8 DEF Balance, Holders
  <2>8. Tracks'
    BY <2>1 DEF Tracks
  <2> QED BY <2>4, <2>5, <2>6, <2>7, <2>8 DEF ReplInv
<1> QED BY <1>7, <1>8 DEF R!Turn

(* A shutdown that goes through, and one that stops at the first that      *)
(* fails, of the runtime that is held.                                     *)
LEMMA ShutDownCounts ==
  ASSUME ReplTypes, NEW ps \in SUBSET R!Plugins, NEW done, told' = R!ShutDown(done)
  PROVE  /\ told' \in [R!Plugins -> [open : Int, up : BOOLEAN]]
         /\ \A p \in R!Plugins : told'[p].open = told[p].open - (IF p \in done THEN 1 ELSE 0)
BY ToldFits

LEMMA GiveUpInv ==
  ASSUME ReplInv, R!GiveUp
  PROVE  ReplInv'
<1>1. /\ ReplTypes /\ ReplPhases /\ Balance /\ FilesHold
      /\ doing.pc = "giveUp" /\ fresh.active /\ ~spoilt
      /\ R!Goto("unwind") /\ UNCHANGED <<rt, handle, mode, turns, file, enabled, gone, owed, closed>>
  BY DEF ReplInv, ReplPhases, R!GiveUp
<1>2. doing' \in [cmd : ReplCmds, pc : ReplPcs] /\ doing'.pc = "unwind"
  BY <1>1, ReplGoes DEF ReplPcs
<1>3. FilesHold'
  BY <1>1 DEF FilesHold
<1>4. Tracks'
  BY <1>2 DEF Tracks
<1>5. ASSUME told' = R!ShutDown(fresh.plugins), fresh' = [fresh EXCEPT !.active = FALSE], UNCHANGED spoilt
      PROVE  ReplInv'
  <2>1. fresh' \in RuntimeRec /\ ~fresh'.active
    BY <1>1, <1>5 DEF ReplTypes, RuntimeRec
  <2>2. /\ told' \in [R!Plugins -> [open : Int, up : BOOLEAN]]
        /\ \A p \in R!Plugins : told'[p].open = told[p].open - (IF p \in fresh.plugins THEN 1 ELSE 0)
    BY <1>1, <1>5, ToldFits
  <2>3. ReplTypes'
    BY <1>1, <1>2, <1>5, <2>1, <2>2 DEF ReplTypes
  <2>4. ReplPhases'
    BY <1>1, <1>2, <1>5, <2>1 DEF ReplPhases
  <2>5. Balance'
    BY <1>1, <1>5, <2>1, <2>2 DEF Balance, Holders, ReplTypes
  <2> QED BY <1>3, <1>4, <2>3, <2>4, <2>5 DEF ReplInv
<1>6. ASSUME NEW p \in R!MayFailOf(fresh.plugins), told' = R!ShutDown({q \in fresh.plugins : q > p}),
             spoilt' = TRUE, UNCHANGED fresh
      PROVE  ReplInv'
  <2> DEFINE done == {q \in fresh.plugins : q > p}
  <2>1. /\ told' \in [R!Plugins -> [open : Int, up : BOOLEAN]]
        /\ \A q \in R!Plugins : told'[q].open = told[q].open - (IF q \in done THEN 1 ELSE 0)
        /\ done \subseteq fresh.plugins
    BY <1>1, <1>6, ToldFits
  <2> HIDE DEF done
  <2>2. ReplTypes'
    BY <1>1, <1>2, <1>6, <2>1 DEF ReplTypes
  <2>3. ReplPhases'
    BY <1>1, <1>2, <1>6 DEF ReplPhases
  <2>4. Balance'
    BY <1>1, <1>6, <2>1 DEF Balance, Holders, ReplTypes
  <2> QED BY <1>3, <1>4, <2>2, <2>3, <2>4 DEF ReplInv
<1> QED BY <1>5, <1>6 DEF R!GiveUp

LEMMA ReplaceInv ==
  ASSUME ReplInv, R!Replace
  PROVE  ReplInv'
<1>1. /\ ReplTypes /\ ReplPhases /\ Balance /\ FilesHold /\ Tracks
      /\ doing.pc = "replace" /\ fresh.active /\ ~spoilt
      /\ UNCHANGED <<mode, turns, file, enabled, gone, owed, closed>>
  BY DEF ReplInv, ReplPhases, R!Replace
<1>2. FilesHold'
  BY <1>1 DEF FilesHold
<1>3. ASSUME told' = R!ShutDown(rt.plugins), rt' = fresh, fresh' = R!NoRuntime, R!Goto("persist"), UNCHANGED spoilt,
             handle' = IF doing.cmd \in {"new", "switch", "fork", "close"} THEN fresh.path ELSE handle
      PROVE  ReplInv'
  <2>1. fresh' \in RuntimeRec /\ ~fresh'.active
    BY <1>1, <1>3, NoRuntimeFits DEF ReplTypes
  <2>2. /\ told' \in [R!Plugins -> [open : Int, up : BOOLEAN]]
        /\ \A p \in R!Plugins : told'[p].open = told[p].open - (IF p \in rt.plugins THEN 1 ELSE 0)
    BY <1>1, <1>3, ToldFits
  <2>3. doing' \in [cmd : ReplCmds, pc : ReplPcs] /\ doing'.pc = "persist"
    BY <1>1, <1>3, ReplGoes DEF ReplPcs
  <2>4. handle' = fresh.path /\ fresh.path \in Sessions /\ Kept(fresh)
    BY <1>1, <1>3 DEF Tracks, Moving, ReplTypes, RuntimeRec
  <2>5. ReplTypes'
    BY <1>1, <1>3, <2>1, <2>2, <2>3, <2>4 DEF ReplTypes
  <2>6. ReplPhases'
    BY <1>1, <1>3, <2>1, <2>3 DEF ReplPhases
  <2>7. Balance'
    BY <1>1, <1>3, <2>1, <2>2 DEF Balance, Holders, ReplTypes
  <2>8. Tracks'
    BY <1>1, <1>3, <2>3, <2>4 DEF Tracks, Kept
  <2> QED BY <1>2, <2>5, <2>6, <2>7, <2>8 DEF ReplInv
<1>4. ASSUME NEW p \in R!MayFailOf(rt.plugins), told' = R!ShutDown({q \in rt.plugins : q > p}),
             spoilt' = TRUE, R!Goto("unwind"), UNCHANGED <<rt, fresh, handle>>
      PROVE  ReplInv'
  <2> DEFINE done == {q \in rt.plugins : q > p}
  <2>1. /\ told' \in [R!Plugins -> [open : Int, up : BOOLEAN]]
        /\ \A q \in R!Plugins : told'[q].open = told[q].open - (IF q \in done THEN 1 ELSE 0)
        /\ done \subseteq rt.plugins
    BY <1>1, <1>4, ToldFits
  <2> HIDE DEF done
  <2>2. doing' \in [cmd : ReplCmds, pc : ReplPcs] /\ doing'.pc = "unwind"
    BY <1>1, <1>4, ReplGoes DEF ReplPcs
  <2>3. ReplTypes'
    BY <1>1, <1>4, <2>1, <2>2 DEF ReplTypes
  <2>4. ReplPhases'
    BY <1>1, <1>4, <2>2 DEF ReplPhases
  <2>5. Balance'
    BY <1>1, <1>4, <2>1 DEF Balance, Holders, ReplTypes
  <2>6. Tracks'
    BY <2>2 DEF Tracks
  <2> QED BY <1>2, <2>3, <2>4, <2>5, <2>6 DEF ReplInv
<1> QED BY <1>3, <1>4 DEF R!Replace

LEMMA ReplPersistInv ==
  ASSUME ReplInv, R!Persist
  PROVE  ReplInv'
<1>1. /\ ReplTypes /\ ReplPhases /\ Balance /\ FilesHold /\ Tracks
      /\ doing.pc = "persist" /\ ~fresh.active /\ ~spoilt
      /\ UNCHANGED <<rt, fresh, handle, mode, turns, enabled, gone, told, owed, closed, spoilt>>
  BY DEF ReplInv, ReplPhases, R!Persist
<1>2. rt.path = handle /\ Kept(rt) /\ handle \in Sessions /\ rt.holds \in SUBSET Turns
  BY <1>1 DEF Tracks, ReplTypes, RuntimeRec
<1>3. Balance'
  BY <1>1 DEF Balance, Holders
<1>4. ASSUME file' = [file EXCEPT ![handle] = R!File(rt.holds)], R!Goto("prompt")
      PROVE  ReplInv'
  <2>1. /\ file' \in [Sessions -> [there : BOOLEAN, holds : SUBSET Turns]] /\ FilesHold'
    <3>1. owed[handle] \subseteq rt.holds /\ handle \notin closed \ Retitled
      BY <1>2 DEF Kept
    <3>2. /\ file' \in [Sessions -> [there : BOOLEAN, holds : SUBSET Turns]]
          /\ \A t \in Sessions : owed[t] \subseteq file'[t].holds /\ (~file'[t].there => file'[t].holds = {})
          /\ \A t \in closed \ Retitled : ~file'[t].there
      BY <1>1, <1>2, <1>4, <3>1, FileStored
    <3> QED BY <1>1, <3>2 DEF FilesHold
  <2>2. doing' \in [cmd : ReplCmds, pc : ReplPcs] /\ doing'.pc = "prompt" /\ doing'.cmd = doing.cmd
    BY <1>1, <1>4, ReplGoes DEF ReplPcs
  <2>3. ReplTypes'
    BY <1>1, <2>1, <2>2 DEF ReplTypes
  <2>4. ReplPhases'
    BY <1>1, <2>2 DEF ReplPhases
  <2>5. Tracks'
    BY <1>1, <1>2, <2>2 DEF Tracks, Kept
  <2> QED BY <1>3, <2>1, <2>3, <2>4, <2>5 DEF ReplInv
<1>5. ASSUME R!Goto("unwind"), UNCHANGED file
      PROVE  ReplInv'
  <2>1. FilesHold'
    BY <1>1, <1>5 DEF FilesHold
  <2>2. doing' \in [cmd : ReplCmds, pc : ReplPcs] /\ doing'.pc = "unwind"
    BY <1>1, <1>5, ReplGoes DEF ReplPcs
  <2>3. ReplTypes'
    BY <1>1, <1>5, <2>2 DEF ReplTypes
  <2>4. ReplPhases'
    BY <1>1, <2>2 DEF ReplPhases
  <2>5. Tracks'
    BY <2>2 DEF Tracks
  <2> QED BY <1>3, <2>1, <2>3, <2>4, <2>5 DEF ReplInv
<1> QED BY <1>4, <1>5 DEF R!Persist

(* What Drop tells the plugins: those of the runtime that is dropped, or   *)
(* the part of them that comes before the one that fails.                  *)
LEMMA DropInv ==
  ASSUME ReplInv, R!Drop
  PROVE  ReplInv'
<1> DEFINE victim == IF fresh.active THEN fresh ELSE rt
<1>1. /\ ReplTypes /\ ReplPhases /\ Balance /\ FilesHold /\ doing.pc = "unwind"
      /\ UNCHANGED <<handle, mode, turns, file, enabled, gone, owed, closed>>
  BY DEF ReplInv, R!Drop
<1>2. FilesHold'
  BY <1>1 DEF FilesHold
<1>3. ASSUME ~victim.active, R!Goto("ended"), UNCHANGED <<rt, fresh, told, spoilt>>
      PROVE  ReplInv'
  <2>1. doing' \in [cmd : ReplCmds, pc : ReplPcs] /\ doing'.pc = "ended"
    BY <1>1, <1>3, ReplGoes DEF ReplPcs
  <2>2. ~rt.active /\ ~fresh.active
    BY <1>1, <1>3 DEF ReplTypes, RuntimeRec
  <2>3. ReplTypes'
    BY <1>1, <1>3, <2>1 DEF ReplTypes
  <2>4. ReplPhases'
    BY <1>1, <1>3, <2>1, <2>2 DEF ReplPhases
  <2>5. Balance'
    BY <1>1, <1>3 DEF Balance, Holders
  <2>6. Tracks'
    BY <2>1 DEF Tracks
  <2> QED BY <1>2, <2>3, <2>4, <2>5, <2>6 DEF ReplInv
<1>4. ASSUME victim.active, UNCHANGED doing,
             NEW done \in SUBSET victim.plugins, told' = R!ShutDown(done),
             (done = victim.plugins /\ UNCHANGED spoilt) \/ spoilt' = TRUE,
             IF fresh.active THEN fresh' = R!NoRuntime /\ UNCHANGED rt
                             ELSE rt' = R!NoRuntime /\ UNCHANGED fresh
      PROVE  ReplInv'
  <2>1. /\ told' \in [R!Plugins -> [open : Int, up : BOOLEAN]]
        /\ \A p \in R!Plugins : /\ told[p].open \in Int
                               /\ told'[p].open = told[p].open - (IF p \in done THEN 1 ELSE 0)
    BY <1>1, <1>4, ToldFits
  <2>2. R!NoRuntime \in RuntimeRec /\ R!NoRuntime.active = FALSE /\ R!NoRuntime.plugins = {}
    BY <1>1, NoRuntimeFits DEF ReplTypes
  <2>3. spoilt \in BOOLEAN /\ spoilt' \in BOOLEAN
    BY <1>1, <1>4 DEF ReplTypes
  <2>4. ReplTypes'
    BY <1>1, <1>4, <2>1, <2>2, <2>3 DEF ReplTypes
  <2>5. ReplPhases'
    BY <1>1, <1>4, <2>2 DEF ReplPhases
  <2>6. ASSUME NEW p \in R!Plugins
        PROVE  Holders(p)' = Holders(p) - (IF p \in victim.plugins THEN 1 ELSE 0)
    BY <1>1, <1>4, <2>2 DEF Holders, ReplPhases
  <2>7. \A p \in R!Plugins : Holders(p) \in 0..2
    BY DEF Holders
  <2>8. ASSUME NEW p \in R!Plugins
        PROVE  IF ~spoilt' THEN told'[p].open = Holders(p)'
               ELSE Holders(p)' - 1 <= told'[p].open /\ told'[p].open <= 3
    <3> DEFINE before == told[p].open
               after == told'[p].open
    <3>1. /\ before \in Int /\ after = before - (IF p \in done THEN 1 ELSE 0)
          /\ Holders(p) \in 0..2 /\ Holders(p)' = Holders(p) - (IF p \in victim.plugins THEN 1 ELSE 0)
          /\ p \in done => p \in victim.plugins
      BY <1>4, <2>1, <2>6, <2>7
    <3>2. IF ~spoilt THEN before = Holders(p) ELSE Holders(p) - 1 <= before /\ before <= 3
      BY <1>1 DEF Balance
    <3> HIDE DEF before, after, victim
    <3>3. CASE done = victim.plugins /\ UNCHANGED spoilt
      BY <3>1, <3>2, <3>3 DEF before, after
    <3>4. CASE spoilt' = TRUE
      BY <3>1, <3>2, <3>4 DEF before, after
    <3> QED BY <1>4, <3>3, <3>4
  <2>9. Balance'
    BY <2>8 DEF Balance, Holders
  <2>10. Tracks'
    BY <1>1, <1>4 DEF Tracks
  <2> QED BY <1>2, <2>4, <2>5, <2>9, <2>10 DEF ReplInv
<1>5. ASSUME victim.active, UNCHANGED doing,
             \/ R!Stops(victim.plugins) /\ told' = R!ShutDown(victim.plugins) /\ UNCHANGED spoilt
             \/ \E p \in R!MayFailOf(victim.plugins) :
                   told' = R!ShutDown({q \in victim.plugins : q > p}) /\ spoilt' = TRUE
      PROVE  \E done \in SUBSET victim.plugins :
                told' = R!ShutDown(done) /\ ((done = victim.plugins /\ UNCHANGED spoilt) \/ spoilt' = TRUE)
  <2> HIDE DEF victim
  <2> QED BY <1>5
<1> QED BY <1>3, <1>4, <1>5 DEF R!Drop

-----------------------------------------------------------------------------
LEMMA ReplStarts ==
  ASSUME R!Init
  PROVE  ReplInv
<1>1. PICK first \in Sessions \ Retitled, m \in Modes, ps \in SUBSET R!Plugins :
         handle = first /\ mode = m /\ enabled = ps /\ fresh = [R!NoRuntime EXCEPT !.path = first]
  BY DEF R!Init
<1>2. /\ rt = R!NoRuntime /\ doing = [cmd |-> "start", pc |-> "build"]
      /\ turns = 0 /\ gone = {} /\ closed = {} /\ spoilt = FALSE
      /\ file = [s \in Sessions |-> IF s \in Retitled THEN R!File({}) ELSE R!NoFile]
      /\ told = [p \in R!Plugins |-> [open |-> 0, up |-> FALSE]]
      /\ owed = [s \in Sessions |-> {}]
  BY DEF R!Init
<1>3. R!NoRuntime \in RuntimeRec /\ R!NoRuntime.active = FALSE /\ R!NoRuntime.plugins = {}
  BY <1>1, NoRuntimeFits
<1>4. fresh \in RuntimeRec /\ fresh.active = FALSE /\ fresh.path = handle
  BY <1>1, <1>3 DEF RuntimeRec
<1>5. ReplTypes
  <2>1. doing \in [cmd : ReplCmds, pc : ReplPcs] /\ turns \in 0..MaxTurns
    BY <1>2, TurnsAssumption DEF ReplCmds, ReplPcs, R!Bounds
  <2>2. file \in [Sessions -> [there : BOOLEAN, holds : SUBSET Turns]] /\ owed \in [Sessions -> SUBSET Turns]
    BY <1>2 DEF R!File, R!NoFile
  <2>3. told \in [R!Plugins -> [open : Int, up : BOOLEAN]]
    BY <1>2
  <2> QED BY <1>1, <1>2, <1>3, <1>4, <2>1, <2>2, <2>3 DEF ReplTypes
<1>6. ReplPhases
  BY <1>2, <1>3, <1>4 DEF ReplPhases
<1>7. Balance
  BY <1>2, <1>3, <1>4 DEF Balance, Holders
<1>8. FilesHold
  BY <1>2 DEF FilesHold, R!File, R!NoFile
<1>9. Tracks
  BY <1>1, <1>2, <1>4 DEF Tracks, Kept
<1> QED BY <1>5, <1>6, <1>7, <1>8, <1>9 DEF ReplInv

LEMMA ReplSteps ==
  ASSUME ReplInv, [R!Next]_(R!vars)
  PROVE  ReplInv'
<1>1. CASE R!Command
  BY <1>1, RunTurnInv, RemakeInv, SetPermissionsInv, ClearSessionInv, NewSessionInv, ForkSessionInv,
     SwitchSessionInv, CloseSessionInv, PluginsCommandInv, CommandFailsInv, ExitInv DEF R!Command
<1>2. CASE UNCHANGED R!vars
  <2>1. UNCHANGED <<rt, fresh, handle, mode, doing, turns, file, enabled, gone, told, owed, closed, spoilt>>
    BY <1>2 DEF R!vars, R!world
  <2> QED BY <2>1 DEF ReplInv, ReplTypes, ReplPhases, Balance, Holders, FilesHold, Tracks, Kept
<1> QED BY <1>1, <1>2, ReplBuildInv, TurnInv, GiveUpInv, ReplaceInv, ReplPersistInv, DropInv DEF R!Next

LEMMA ReplHolds ==
  ASSUME ReplInv
  PROVE  ReplSessions
<1>1. ReplTypes /\ ReplPhases /\ Balance /\ FilesHold
  BY DEF ReplInv
<1>2. \A p \in R!Plugins : Holders(p) \in 0..2 /\ told[p].open \in Int
  BY <1>1 DEF Holders, ReplTypes
<1>3. R!TypeOK
  <2>1. \A p \in R!Plugins : told[p].open \in -2..3
    BY <1>1, <1>2 DEF Balance
  <2>2. told \in [R!Plugins -> [open : -2..3, up : BOOLEAN]]
    BY <1>1, <2>1 DEF ReplTypes
  <2> QED BY <1>1, <2>2 DEF ReplTypes, RuntimeRec, Turns, R!TypeOK
<1>4. R!UpInTurns
  BY <1>1 DEF ReplPhases, R!UpInTurns
<1>5. R!PluginsAreClosed
  BY <1>1 DEF ReplPhases, Balance, Holders, R!PluginsAreClosed
<1>6. R!TurnsAreOnDisk /\ R!ClosedStaysClosed
  BY <1>1 DEF FilesHold, R!TurnsAreOnDisk, R!ClosedStaysClosed
<1> QED BY <1>3, <1>4, <1>5, <1>6 DEF ReplSessions

(* However the REPL's commands follow one another and whichever of its     *)
(* builds, turns, saves and shutdowns fails: the plugins of a turn are up  *)
(* and it runs under the mode shown, what was initialised is shut down,    *)
(* an answered turn is in every file that owes it, and a closed session    *)
(* stays closed.  For any sessions, any plugins and any number of turns.   *)
THEOREM ReplSafety == FilesSpec => []ReplSessions
<1>1. R!Init => ReplInv
  BY ReplStarts
<1>2. ReplInv /\ [R!Next]_(R!vars) => ReplInv'
  BY ReplSteps
<1>3. ReplInv => ReplSessions
  BY ReplHolds
<1> QED BY <1>1, <1>2, <1>3, WorkspaceParts, PTL DEF R!Spec

-----------------------------------------------------------------------------
(* The file tools *)

Texts == Seq(Alphabet)
Call == [at : {"read", "opened"}, after : Texts, alone : BOOLEAN]

EditTypes ==
    /\ contents \in Texts \cup {Missing}
    /\ call \in [Callers -> Call \cup {F!Idle}]

(* Who has the file to itself has it so until the answer, finds it empty   *)
(* after opening it, and what is promised stands while nobody has opened.  *)
EditsInv ==
    /\ EditTypes
    /\ \A a \in F!Busy : call[a].alone => F!Busy = {a}
    /\ \A a \in F!Busy : call[a].at = "opened" => contents \in Texts /\ (call[a].alone => contents = << >>)
    /\ F!PromisesAreKept

LEMMA BusyIs ==
  ASSUME EditTypes
  PROVE  /\ \A a \in Callers : a \in F!Busy <=> call[a] # F!Idle
         /\ \A a \in Callers : a \in F!Busy <=> call[a] \in Call
         /\ \A a \in Callers : a \in F!Busy <=> call[a].at \in {"read", "opened"}
         /\ F!Busy \subseteq Callers
BY DEF EditTypes, F!Busy, F!Idle, Call

LEMMA AfterIsText ==
  ASSUME NEW req \in F!Requests, NEW t \in Texts \cup {Missing}, ~F!Refused(req, t)
  PROVE  F!Result(req, t) \in Texts
<1>1. CASE req.tool = "write"
  <2>1. req.content \in NewTexts
    BY <1>1 DEF F!Requests
  <2> QED BY <1>1, <2>1, TextsAssumption DEF F!Result, Texts, F!TextsFit
<1>2. CASE req.tool # "write"
  <2>1. req.tool = "edit" /\ req.new \in Alphabet /\ t \in Texts
    BY <1>2 DEF F!Requests, F!Refused
  <2>2. Len(t) \in Nat /\ DOMAIN t = 1..Len(t) /\ \A i \in 1..Len(t) : t[i] \in Alphabet
    BY <2>1 DEF Texts
  <2>3. F!Replaced(t, req.old, req.new, req.all) \in [1..Len(t) -> Alphabet]
    BY <2>1, <2>2 DEF F!Replaced
  <2>4. F!Replaced(t, req.old, req.new, req.all) \in Texts
    BY <2>2, <2>3 DEF Texts
  <2> QED BY <1>2, <2>4 DEF F!Result
<1> QED BY <1>1, <1>2

LEMMA EditReadInv ==
  ASSUME EditsInv, NEW a \in Callers, NEW req \in F!Requests, F!Read(a, req)
  PROVE  EditsInv'
<1> DEFINE mine == [at |-> "read", after |-> F!Result(req, contents), alone |-> F!Busy = {}]
<1>1. EditTypes /\ call[a] = F!Idle /\ UNCHANGED <<contents, promised>> /\ a \notin F!Busy
  BY DEF EditsInv, F!Read, F!Busy
<1>2. mine \in Call
  BY <1>1, AfterIsText DEF F!Read, EditTypes, Call
<1>3. /\ DOMAIN call' = Callers /\ call'[a] = mine
      /\ \A b \in Callers \ {a} : call'[b] = IF b \in F!Busy THEN [call[b] EXCEPT !.alone = FALSE] ELSE F!Idle
  BY <1>1 DEF F!Read
<1> HIDE DEF mine
<1>4. \A b \in F!Busy : /\ [call[b] EXCEPT !.alone = FALSE] \in Call
                        /\ [call[b] EXCEPT !.alone = FALSE].alone = FALSE
                        /\ [call[b] EXCEPT !.alone = FALSE].at = call[b].at
  BY <1>1, BusyIs DEF Call
<1>5. ASSUME NEW b \in Callers \ {a}
      PROVE  /\ b \in F!Busy => call'[b] \in Call /\ call'[b].alone = FALSE /\ call'[b].at = call[b].at
             /\ b \notin F!Busy => call'[b] = F!Idle
  <2>1. CASE b \in F!Busy
    <3>1. call'[b] = [call[b] EXCEPT !.alone = FALSE]
      BY <1>3, <2>1
    <3> QED BY <1>4, <2>1, <3>1
  <2>2. CASE b \notin F!Busy
    BY <1>3, <2>2
  <2> QED BY <2>1, <2>2
<1>6. EditTypes'
  <2>1. \A b \in Callers : call'[b] \in Call \cup {F!Idle}
    BY <1>2, <1>3, <1>5
  <2>2. call' \in [Callers -> {call'[b] : b \in Callers}]
    BY DEF F!Read
  <2>3. call' \in [Callers -> Call \cup {F!Idle}]
    BY <2>1, <2>2
  <2> QED BY <1>1, <2>3 DEF EditTypes
<1>7. F!Busy' = F!Busy \cup {a}
  <2>1. \A r \in Call : r # F!Idle
    BY DEF Call, F!Idle
  <2>2. ASSUME NEW b \in Callers
        PROVE  call'[b] # F!Idle <=> b \in F!Busy \/ b = a
    <3>1. CASE b = a
      BY <1>2, <1>3, <2>1, <3>1
    <3>2. CASE b # a
      BY <1>5, <2>1, <3>2
    <3> QED BY <3>1, <3>2
  <2>3. F!Busy' = {b \in Callers : call'[b] # F!Idle}
    BY DEF F!Busy, F!Idle
  <2>4. \A b \in Callers : b \in F!Busy' <=> b \in F!Busy \cup {a}
    BY <2>2, <2>3
  <2>5. F!Busy' \subseteq Callers /\ F!Busy \cup {a} \subseteq Callers
    BY <1>1, <2>3, BusyIs
  <2> QED BY <2>4, <2>5
<1>8. ASSUME NEW b \in F!Busy', call'[b].alone
      PROVE  F!Busy' = {b}
  <2>1. b = a
    <3>1. ASSUME b # a PROVE FALSE
      <4>1. b \in F!Busy /\ b \in Callers \ {a}
        BY <1>1, <1>7, <3>1, BusyIs
      <4>2. call'[b].alone = FALSE
        BY <1>5, <4>1
      <4> QED BY <1>8, <4>2
    <3> QED BY <3>1
  <2>2. call'[a].alone = (F!Busy = {})
    BY <1>3 DEF mine
  <2> QED BY <1>7, <1>8, <2>1, <2>2
<1>9. F!PromisesAreKept'
  <2>1. \A b \in F!Busy : call'[b].at = call[b].at
    BY <1>1, <1>5, BusyIs
  <2> QED BY <1>1, <1>7, <2>1 DEF EditsInv, F!PromisesAreKept
<1>10. ASSUME NEW b \in F!Busy', call'[b].at = "opened"
       PROVE  contents' \in Texts /\ (call'[b].alone => contents' = << >>)
  <2>1. call'[a].at = "read"
    BY <1>3 DEF mine
  <2>2. b # a /\ b \in F!Busy /\ b \in Callers \ {a}
    BY <1>1, <1>7, <1>10, <2>1, BusyIs
  <2>3. call[b].at = "opened" /\ call'[b].alone = FALSE
    BY <1>5, <1>10, <2>2
  <2> QED BY <1>1, <2>2, <2>3 DEF EditsInv
<1> QED BY <1>6, <1>8, <1>9, <1>10 DEF EditsInv

LEMMA EditOpenInv ==
  ASSUME EditsInv, NEW a \in Callers, F!Open(a)
  PROVE  EditsInv'
<1>1. /\ EditTypes /\ a \in F!Busy /\ call[a] \in Call
  BY BusyIs DEF EditsInv, F!Open
<1>2. contents' = << >> /\ << >> \in Texts
  BY DEF F!Open, Texts
<1>3. /\ call'[a] \in Call /\ call'[a].at = "opened" /\ call'[a].alone = call[a].alone
      /\ \A b \in Callers \ {a} : call'[b] = call[b]
      /\ call' \in [Callers -> Call \cup {F!Idle}]
  BY <1>1 DEF F!Open, EditTypes, Call
<1>4. EditTypes'
  BY <1>2, <1>3 DEF EditTypes
<1>5. F!Busy' = F!Busy
  BY <1>1, <1>3 DEF F!Busy, Call, F!Idle
<1>6. \A b \in F!Busy' : call'[b].alone => F!Busy' = {b}
  BY <1>1, <1>3, <1>5, BusyIs DEF EditsInv
<1>7. F!PromisesAreKept'
  BY <1>1, <1>3, <1>5 DEF F!PromisesAreKept
<1> QED BY <1>2, <1>4, <1>6, <1>7 DEF EditsInv

(* A call that is over: what it leaves of the file, and of the promise.    *)
LEMMA EditEnds ==
  ASSUME EditsInv, NEW a \in Callers, a \in F!Busy, call' = [call EXCEPT ![a] = F!Idle],
         contents' \in Texts,
         promised' = Missing \/ (F!Busy = {a} /\ contents' = promised'),
         call[a].alone \/ promised' = Missing
  PROVE  EditsInv'
<1>1. EditTypes
  BY DEF EditsInv
<1>2. /\ call' \in [Callers -> Call \cup {F!Idle}] /\ call'[a] = F!Idle
      /\ \A b \in Callers \ {a} : call'[b] = call[b]
  BY <1>1 DEF EditTypes
<1>3. EditTypes'
  BY <1>2 DEF EditTypes
<1>4. F!Busy' = F!Busy \ {a}
  BY <1>2 DEF F!Busy
<1>5. \A b \in F!Busy' : call'[b].alone => FALSE
  <2>1. SUFFICES ASSUME NEW b \in F!Busy, b # a, call[b].alone PROVE FALSE
    BY <1>1, <1>2, <1>4, BusyIs
  <2> QED BY <2>1 DEF EditsInv
<1>6. F!PromisesAreKept'
  BY DEF F!PromisesAreKept
<1> QED BY <1>3, <1>5, <1>6 DEF EditsInv

LEMMA OverIs ==
  ASSUME NEW s \in Texts, NEW t \in Texts
  PROVE  F!Over(s, t) \in Texts /\ F!Over(s, << >>) = s
<1>1. Len(s) \in Nat /\ Len(t) \in Nat
  BY DEF Texts
<1>2. SubSeq(t, Len(s) + 1, Len(t)) \in Texts
  BY <1>1 DEF Texts
<1>3. SubSeq(<< >>, Len(s) + 1, Len(<< >>)) = << >>
  BY <1>1
<1>4. F!Over(s, t) \in Texts
  BY <1>2, ConcatProperties DEF F!Over, Texts
<1> QED BY <1>3, <1>4 DEF F!Over, Texts

LEMMA EditWriteInv ==
  ASSUME EditsInv, NEW a \in Callers, F!Write(a)
  PROVE  EditsInv'
<1>1. EditTypes /\ a \in F!Busy /\ call[a] \in Call /\ call[a].at = "opened"
  BY BusyIs DEF EditsInv, F!Write
<1>2. /\ contents' = F!Over(call[a].after, contents) /\ call' = [call EXCEPT ![a] = F!Idle]
      /\ promised' = IF call[a].alone THEN call[a].after ELSE Missing
  BY DEF F!Write
<1>3. contents \in Texts /\ call[a].after \in Texts
  BY <1>1 DEF EditsInv, Call
<1>4. contents' \in Texts
  BY <1>2, <1>3, OverIs
<1>5. CASE call[a].alone
  <2>1. F!Busy = {a} /\ contents = << >>
    BY <1>1, <1>5 DEF EditsInv
  <2>2. contents' = call[a].after /\ promised' = call[a].after
    BY <1>2, <1>3, <1>5, <2>1, OverIs
  <2> QED BY <1>1, <1>2, <1>4, <1>5, <2>1, <2>2, EditEnds
<1>6. CASE ~call[a].alone
  BY <1>1, <1>2, <1>4, <1>6, EditEnds
<1> QED BY <1>5, <1>6

LEMMA EditFailInv ==
  ASSUME EditsInv, NEW a \in Callers, F!Fail(a)
  PROVE  EditsInv'
<1>1. EditTypes /\ a \in F!Busy /\ call[a] \in Call /\ call[a].at = "opened"
  BY BusyIs DEF EditsInv, F!Fail
<1>2. PICK n \in 0..Len(call[a].after) : contents' = F!Over(SubSeq(call[a].after, 1, n), contents)
  BY DEF F!Fail
<1>3. promised' = Missing /\ call' = [call EXCEPT ![a] = F!Idle]
  BY DEF F!Fail
<1>4. contents \in Texts /\ call[a].after \in Texts
  BY <1>1 DEF EditsInv, Call
<1>5. SubSeq(call[a].after, 1, n) \in Texts
  <2>1. Len(call[a].after) \in Nat /\ \A i \in 1..Len(call[a].after) : call[a].after[i] \in Alphabet
    BY <1>4 DEF Texts
  <2> HIDE DEF Texts
  <2>2. \A i \in 1..n : call[a].after[i] \in Alphabet
    BY <1>2, <2>1
  <2>3. SubSeq(call[a].after, 1, n) \in Seq(Alphabet)
    BY <1>2, <2>1, <2>2, SubSeqProperties
  <2> QED BY <2>3 DEF Texts
<1>6. contents' \in Texts
  BY <1>2, <1>4, <1>5, OverIs
<1> QED BY <1>1, <1>3, <1>6, EditEnds

LEMMA EditCrashInv ==
  ASSUME EditsInv, F!Crash
  PROVE  EditsInv'
<1>1. call' = [a \in Callers |-> F!Idle] /\ promised' = Missing /\ UNCHANGED contents
  BY DEF F!Crash
<1>2. EditTypes' /\ F!Busy' = {}
  BY <1>1 DEF EditsInv, EditTypes, F!Busy
<1>3. F!PromisesAreKept'
  BY <1>1 DEF F!PromisesAreKept
<1> QED BY <1>2, <1>3 DEF EditsInv

LEMMA EditSteps ==
  ASSUME EditsInv, [F!Next]_(F!vars)
  PROVE  EditsInv'
<1>1. CASE UNCHANGED F!vars
  BY <1>1 DEF F!vars, EditsInv, EditTypes, F!Busy, F!PromisesAreKept
<1> QED BY <1>1, EditReadInv, EditOpenInv, EditWriteInv, EditFailInv, EditCrashInv DEF F!Next

LEMMA EditStarts ==
  ASSUME F!Init
  PROVE  EditsInv
<1>1. contents \in Texts \cup {Missing}
  BY TextsAssumption DEF F!Init, Texts, F!TextsFit
<1>2. call = [a \in Callers |-> F!Idle] /\ promised = contents
  BY DEF F!Init
<1>3. EditTypes /\ F!Busy = {}
  BY <1>1, <1>2 DEF EditTypes, F!Busy
<1> QED BY <1>2, <1>3 DEF EditsInv, F!PromisesAreKept

LEMMA EditTypeOK ==
  ASSUME EditsInv
  PROVE  F!TypeOK
BY BusyIs DEF EditsInv, EditTypes, F!TypeOK, Call, Texts

-----------------------------------------------------------------------------
(* Reading page by page *)

LEMMA PageIs ==
  ASSUME NEW t \in Texts, NEW at \in 0..Len(t), NEW limit \in Nat \ {0}
  PROVE  LET page == F!Page(t, at, limit)
             end == IF at + limit <= Len(t) THEN at + limit ELSE Len(t)
         IN  /\ page.lines = SubSeq(t, at + 1, end) /\ page.startLine - 1 + page.numLines = end
             /\ page.totalLines = Len(t) /\ end \in at..Len(t) /\ (end < Len(t) => at < end)
<1>1. Len(t) \in Nat
  BY DEF Texts
<1> QED BY <1>1 DEF F!Page, F!Smaller

(* One page and what a reader g makes of the rest; PageByPage chooses a    *)
(* reader that does this at every place.                                   *)
PageThen(t, limit, g, at) ==
    LET page == F!Page(t, at, limit)
        next == page.startLine - 1 + page.numLines
    IN  IF next >= page.totalLines THEN page.lines
        ELSE IF next <= at THEN << >> ELSE page.lines \o g[next]
Reads(g, t, limit) == g = [at \in 0..Len(t) |-> PageThen(t, limit, g, at)]
Rest(t, at) == SubSeq(t, at + 1, Len(t))
ReadsOn(t, limit, g, at) ==
    \/ PageThen(t, limit, g, at) = Rest(t, at)
    \/ \E end \in (at + 1)..Len(t) :
          /\ PageThen(t, limit, g, at) = SubSeq(t, at + 1, end) \o g[end]
          /\ SubSeq(t, at + 1, end) \o Rest(t, end) = Rest(t, at)

(* At the end it is the page, before it the page and a later rest.         *)
LEMMA PageThenIs ==
  ASSUME NEW t \in Texts, NEW at \in 0..Len(t), NEW limit \in Nat \ {0}, NEW g
  PROVE  ReadsOn(t, limit, g, at)
<1> DEFINE page == F!Page(t, at, limit)
           end == IF at + limit <= Len(t) THEN at + limit ELSE Len(t)
<1>1. Len(t) \in Nat /\ t \in Seq(Alphabet) /\ at \in Nat
  BY DEF Texts
<1>2. /\ page.lines = SubSeq(t, at + 1, end) /\ page.startLine - 1 + page.numLines = end
      /\ page.totalLines = Len(t) /\ end \in at..Len(t) /\ (end < Len(t) => at < end)
  BY PageIs
<1>3. PageThen(t, limit, g, at) =
        IF page.startLine - 1 + page.numLines >= page.totalLines THEN page.lines
        ELSE IF page.startLine - 1 + page.numLines <= at THEN << >>
        ELSE page.lines \o g[page.startLine - 1 + page.numLines]
  BY DEF PageThen
<1> HIDE DEF page, end
<1>4. PageThen(t, limit, g, at) = IF end >= Len(t) THEN SubSeq(t, at + 1, end)
                                  ELSE IF end <= at THEN << >> ELSE SubSeq(t, at + 1, end) \o g[end]
  BY <1>2, <1>3
<1>5. CASE end >= Len(t)
  <2>1. end = Len(t)
    BY <1>1, <1>2, <1>5
  <2> QED BY <1>4, <1>5, <2>1 DEF Rest, ReadsOn
<1>6. CASE ~(end >= Len(t))
  <2>1. end \in (at + 1)..Len(t) /\ ~(end <= at) /\ end \in Nat
    BY <1>1, <1>2, <1>6
  <2>2. PageThen(t, limit, g, at) = SubSeq(t, at + 1, end) \o g[end]
    BY <1>4, <1>6, <2>1
  <2>3. at + 1 \in 1..(Len(t) + 1) /\ end \in ((at + 1) - 1)..Len(t) /\ Len(t) \in end..Len(t)
    BY <1>1, <2>1
  <2>4. SubSeq(t, at + 1, end) \o SubSeq(t, end + 1, Len(t)) = SubSeq(t, at + 1, Len(t))
    BY <1>1, <2>3, ConcatAdjacentSubSeq
  <2> QED BY <2>1, <2>2, <2>4 DEF Rest, ReadsOn
<1> QED BY <1>5, <1>6

(* Such a reader reads the rest of the text at every place: the last place *)
(* where it did not would be followed by one where it does.                *)
LEMMA ReadsTheRest ==
  ASSUME NEW t \in Texts, NEW limit \in Nat \ {0}, NEW g, Reads(g, t, limit)
  PROVE  \A at \in 0..Len(t) : g[at] = Rest(t, at)
<1> DEFINE bad == {n \in 0..Len(t) : g[Len(t) - n] # Rest(t, Len(t) - n)}
<1>1. Len(t) \in Nat
  BY DEF Texts
<1>2. ASSUME NEW at \in 0..Len(t), \A later \in (at + 1)..Len(t) : g[later] = Rest(t, later)
      PROVE  g[at] = Rest(t, at)
  <2>1. g[at] = PageThen(t, limit, g, at)
    BY DEF Reads
  <2>2. ReadsOn(t, limit, g, at)
    BY PageThenIs
  <2>3. ASSUME NEW end \in (at + 1)..Len(t),
               PageThen(t, limit, g, at) = SubSeq(t, at + 1, end) \o g[end],
               SubSeq(t, at + 1, end) \o Rest(t, end) = Rest(t, at)
        PROVE  g[at] = Rest(t, at)
    BY <1>2, <2>1, <2>3
  <2> QED BY <2>1, <2>2, <2>3 DEF ReadsOn
<1>3. ASSUME NEW n \in bad, \A k \in bad : n <= k
      PROVE  FALSE
  <2>1. n \in 0..Len(t) /\ g[Len(t) - n] # Rest(t, Len(t) - n)
    OBVIOUS
  <2>2. Len(t) - n \in 0..Len(t)
    BY <1>1, <2>1
  <2>3. ASSUME NEW later \in ((Len(t) - n) + 1)..Len(t)
        PROVE  g[later] = Rest(t, later)
    <3>1. Len(t) - later \in 0..Len(t) /\ Len(t) - later < n /\ Len(t) - (Len(t) - later) = later
      BY <1>1, <2>1
    <3> HIDE DEF bad
    <3>2. Len(t) - later \notin bad
      BY <1>1, <1>3, <2>1, <3>1
    <3> QED BY <3>1, <3>2 DEF bad
  <2> HIDE DEF bad
  <2> QED BY <1>2, <2>1, <2>2, <2>3
<1>4. bad = {}
  <2>1. bad \in SUBSET Nat
    BY <1>1
  <2> HIDE DEF bad
  <2> QED BY <1>3, <2>1, LeastNat
<1>5. ASSUME NEW at \in 0..Len(t)
      PROVE  g[at] = Rest(t, at)
  <2>1. Len(t) - at \in 0..Len(t) /\ Len(t) - (Len(t) - at) = at
    BY <1>1
  <2>2. Len(t) - at \notin bad
    BY <1>4
  <2> QED BY <2>1, <2>2
<1> QED BY <1>5

(* There is one: what PageByPage chooses is such a reader.                 *)
LEMMA PageByPageIs ==
  ASSUME NEW t \in Texts, NEW limit \in Nat \ {0}
  PROVE  F!PageByPage(t, limit) = t
<1> DEFINE rest == [at \in 0..Len(t) |-> Rest(t, at)]
           from == CHOOSE g : g = [at \in 0..Len(t) |-> PageThen(t, limit, g, at)]
<1>1. Len(t) \in Nat /\ 0 \in 0..Len(t)
  BY DEF Texts
<1>2. Reads(rest, t, limit)
  <2>1. ASSUME NEW at \in 0..Len(t)
        PROVE  PageThen(t, limit, rest, at) = Rest(t, at)
    <3>1. \A end \in (at + 1)..Len(t) : rest[end] = Rest(t, end)
      BY <1>1
    <3> HIDE DEF rest
    <3>2. ReadsOn(t, limit, rest, at)
      BY PageThenIs
    <3> QED BY <3>1, <3>2 DEF ReadsOn
  <2> QED BY <2>1 DEF Reads
<1>3. Reads(from, t, limit)
  <2>1. \E g : g = [at \in 0..Len(t) |-> PageThen(t, limit, g, at)]
    BY <1>2 DEF Reads
  <2> HIDE DEF rest
  <2> QED BY <2>1 DEF Reads
<1>4. F!PageByPage(t, limit) = from[0]
  BY DEF F!PageByPage, PageThen
<1> HIDE DEF from
<1>5. from[0] = Rest(t, 0)
  BY <1>1, <1>3, ReadsTheRest
<1>6. Rest(t, 0) = t
  BY SubSeqFull DEF Texts, Rest
<1> QED BY <1>4, <1>5, <1>6

LEMMA PagesHold ==
  ASSUME EditsInv
  PROVE  F!PagesAreTheText
<1>1. contents # Missing => contents \in Texts
  BY DEF EditsInv, EditTypes
<1>2. ASSUME contents \in Texts, NEW limit \in 1..(Len(contents) + 1)
      PROVE  F!PageByPage(contents, limit) = contents
  <2>1. limit \in Nat \ {0}
    BY <1>2 DEF Texts
  <2> QED BY <1>2, <2>1, PageByPageIs
<1> QED BY <1>1, <1>2 DEF F!PagesAreTheText

(* However many agents write and edit one file, fail halfway or crash:     *)
(* what a call that had the file to itself has answered is what the file   *)
(* holds until another opens it, and whoever reads it page by page, with   *)
(* pages of any length, reads all of it once.                              *)
THEOREM EditSafety == FilesSpec => []FileContents
<1>1. F!Init => EditsInv
  BY EditStarts
<1>2. EditsInv /\ [F!Next]_(F!vars) => EditsInv'
  BY EditSteps
<1>3. EditsInv => FileContents
  BY EditTypeOK, PagesHold DEF EditsInv, FileContents
<1> QED BY <1>1, <1>2, <1>3, WorkspaceParts, PTL DEF F!Spec

-----------------------------------------------------------------------------
(* The detail of a sub-agent *)

LEMMA ByCounting ==
  ASSUME NEW limit \in Nat, NEW T, 0 \in T,
         \A n \in 0..limit : n < limit /\ n \in T => n + 1 \in T
  PROVE  \A n \in 0..limit : n \in T
<1> DEFINE bad == {n \in 0..limit : n \notin T}
<1>1. ASSUME NEW n \in bad, \A k \in bad : n <= k
      PROVE  FALSE
  <2>1. n \in 0..limit /\ n \notin T /\ n # 0
    OBVIOUS
  <2>2. n - 1 \in 0..limit /\ n - 1 < limit /\ ~(n <= n - 1) /\ (n - 1) + 1 = n
    BY <2>1
  <2>3. n - 1 \notin bad
    BY <1>1, <2>2
  <2>4. n - 1 \in T
    BY <2>2, <2>3
  <2> QED BY <2>1, <2>2, <2>4
<1>2. bad \in SUBSET Nat
  OBVIOUS
<1> QED
  <2>1. bad = {}
    <3> HIDE DEF bad
    <3> QED BY <1>1, <1>2, LeastNat
  <2> QED BY <2>1

(* A function that goes from one number to the next exists: after number k *)
(* it is what step[k] makes of what it was before.                         *)
After(start, step, g, k) == IF k = 0 THEN start ELSE step[k][g[k - 1]]
Runs(start, step, g, n) == g = [k \in 0..n |-> After(start, step, g, k)]

LEMMA RunsExist ==
  ASSUME NEW limit \in Nat, NEW start, NEW step
  PROVE  \E g : Runs(start, step, g, limit)
<1> DEFINE T == {n \in 0..limit : \E g : Runs(start, step, g, n)}
<1>1. 0 \in T
  <2> DEFINE g == [k \in 0..0 |-> start]
  <2>1. Runs(start, step, g, 0)
    BY DEF Runs, After
  <2> HIDE DEF g
  <2> QED BY <2>1
<1>2. ASSUME NEW n \in 0..limit, n < limit, n \in T
      PROVE  n + 1 \in T
  <2>1. PICK g : Runs(start, step, g, n)
    BY <1>2
  <2> DEFINE h == [k \in 0..(n + 1) |-> IF k = n + 1 THEN After(start, step, g, n + 1) ELSE g[k]]
  <2>2. ASSUME NEW k \in 0..(n + 1)
        PROVE  h[k] = After(start, step, h, k)
    <3>1. CASE k = n + 1
      <4>1. k # 0 /\ k - 1 \in 0..(n + 1) /\ k - 1 # n + 1
        BY <3>1
      <4>2. h[k - 1] = g[k - 1] /\ h[k] = After(start, step, g, k)
        BY <3>1, <4>1
      <4> QED BY <4>1, <4>2 DEF After
    <3>2. CASE k # n + 1
      <4>1. k \in 0..n /\ h[k] = g[k]
        BY <3>2
      <4>2. g[k] = After(start, step, g, k)
        BY <2>1, <4>1 DEF Runs
      <4>3. CASE k = 0
        BY <4>1, <4>2, <4>3 DEF After
      <4>4. CASE k # 0
        <5>1. k - 1 \in 0..(n + 1) /\ k - 1 # n + 1
          BY <4>1, <4>4
        <5>2. h[k - 1] = g[k - 1]
          BY <5>1
        <5> QED BY <4>1, <4>2, <4>4, <5>2 DEF After
      <4> QED BY <4>3, <4>4
    <3> QED BY <3>1, <3>2
  <2>3. Runs(start, step, h, n + 1)
    <3>1. h = [k \in 0..(n + 1) |-> h[k]]
      OBVIOUS
    <3> HIDE DEF h
    <3> QED BY <2>2, <3>1 DEF Runs
  <2> HIDE DEF h
  <2> QED BY <1>2, <2>3
<1> HIDE DEF T
<1>3. \A n \in 0..limit : n \in T
  BY <1>1, <1>2, ByCounting
<1>4. limit \in 0..limit
  OBVIOUS
<1> QED BY <1>3, <1>4 DEF T

(* It stays in a set that no step leaves.                                  *)
Follows(start, step, g, n, T) ==
    /\ g \in [0..n -> T]
    /\ g[0] = start
    /\ \A k \in 1..n : g[k] = step[k][g[k - 1]]

LEMMA RunsIn ==
  ASSUME NEW limit \in Nat, NEW T, NEW start \in T, NEW step \in [1..limit -> [T -> T]]
  PROVE  \E g : Follows(start, step, g, limit, T)
<1>1. PICK g : Runs(start, step, g, limit)
  BY RunsExist
<1>2. \A k \in 0..limit : g[k] = After(start, step, g, k)
  BY <1>1 DEF Runs
<1> DEFINE U == {k \in 0..limit : g[k] \in T}
<1>3. 0 \in U
  BY <1>2 DEF After
<1>4. \A n \in 0..limit : n < limit /\ n \in U => n + 1 \in U
  <2> SUFFICES ASSUME NEW n \in 0..limit, n < limit, g[n] \in T
               PROVE  n + 1 \in 0..limit /\ g[n + 1] \in T
    OBVIOUS
  <2>1. n + 1 \in 0..limit /\ n + 1 \in 1..limit /\ n + 1 # 0 /\ (n + 1) - 1 = n
    OBVIOUS
  <2>2. g[n + 1] = step[n + 1][g[n]]
    BY <1>2, <2>1 DEF After
  <2>3. step[n + 1] \in [T -> T]
    BY <2>1
  <2> QED BY <2>1, <2>2, <2>3
<1>5. \A n \in 0..limit : g[n] \in T
  <2> HIDE DEF U
  <2>1. \A n \in 0..limit : n \in U
    BY <1>3, <1>4, ByCounting
  <2> QED BY <2>1 DEF U
<1>6. g \in [0..limit -> T]
  <2>1. g = [k \in 0..limit |-> After(start, step, g, k)]
    BY <1>1 DEF Runs
  <2>2. DOMAIN g = 0..limit
    BY <2>1
  <2>3. g = [k \in 0..limit |-> g[k]]
    BY <2>1, <2>2
  <2> QED BY <1>5, <2>3
<1>7. g[0] = start
  BY <1>2 DEF After
<1>8. ASSUME NEW k \in 1..limit
      PROVE  g[k] = step[k][g[k - 1]]
  <2>1. k \in 0..limit /\ k # 0
    OBVIOUS
  <2> QED BY <1>2, <2>1 DEF After
<1> QED BY <1>6, <1>7, <1>8 DEF Follows

(* What is put at the end of a sequence.                                   *)
LEMMA PutBehind ==
  ASSUME NEW T, NEW w \in Seq(T), NEW x \in T
  PROVE  /\ w \o <<x>> = Append(w, x)
         /\ Append(w, x) \in Seq(T) /\ Len(Append(w, x)) = Len(w) + 1
         /\ \A j \in 1..Len(w) : Append(w, x)[j] = w[j]
         /\ Append(w, x)[Len(w) + 1] = x
OBVIOUS

(* So many lines into a text, what is at the places so far.                *)
Taken(lines, places, g, n) ==
    IF n \in places THEN Append(g[n - 1], lines[n]) ELSE g[n - 1]

AtBy(lines, places, g) ==
    /\ g \in [0..Len(lines) -> Seq(S!Lines)]
    /\ S!At(lines, places) = g[Len(lines)]
    /\ g[0] = << >>
    /\ \A n \in 1..Len(lines) : g[n] = Taken(lines, places, g, n)

AtThen(lines, places, g, n) ==
    IF n = 0 THEN << >>
    ELSE g[n - 1] \o IF n \in places THEN <<lines[n]>> ELSE << >>

LEMMA AtRuns ==
  ASSUME NEW lines \in Seq(S!Lines), NEW places
  PROVE  \E g : AtBy(lines, places, g)
<1> DEFINE T == Seq(S!Lines)
           more(n, w) == IF n \in places THEN Append(w, lines[n]) ELSE w
           step == [n \in 1..Len(lines) |-> [w \in T |-> more(n, w)]]
           a == CHOOSE f : f = [n \in 0..Len(lines) |-> AtThen(lines, places, f, n)]
<1>1. Len(lines) \in Nat /\ << >> \in T /\ \A n \in 1..Len(lines) : lines[n] \in S!Lines
  OBVIOUS
<1>2. \A n \in 1..Len(lines), w \in T : more(n, w) \in T
  BY <1>1
<1> HIDE DEF T
<1>3. step \in [1..Len(lines) -> [T -> T]]
  <2> HIDE DEF more
  <2> QED BY <1>2
<1>4. PICK g : Follows(<< >>, step, g, Len(lines), T)
  <2> HIDE DEF step
  <2> QED BY <1>1, <1>3, RunsIn
<1> HIDE DEF step
<1>41. /\ g \in [0..Len(lines) -> T] /\ g[0] = << >>
      /\ \A k \in 1..Len(lines) : g[k] = step[k][g[k - 1]]
  BY <1>4 DEF Follows
<1>5. ASSUME NEW n \in 1..Len(lines)
      PROVE  g[n] = Taken(lines, places, g, n)
  <2>1. n - 1 \in 0..Len(lines)
    OBVIOUS
  <2>2. g[n - 1] \in T
    BY <1>41, <2>1
  <2>3. step[n][g[n - 1]] = more(n, g[n - 1])
    <3> HIDE DEF more
    <3> QED BY <2>2 DEF step
  <2> QED BY <1>41, <2>3 DEF Taken
<1>6. ASSUME NEW n \in 0..Len(lines)
      PROVE  g[n] = AtThen(lines, places, g, n)
  <2>1. CASE n = 0
    BY <1>41, <2>1 DEF AtThen
  <2>2. CASE n # 0
    <3>1. n \in 1..Len(lines) /\ n - 1 \in 0..Len(lines)
      BY <2>2
    <3>2. g[n - 1] \in Seq(S!Lines) /\ lines[n] \in S!Lines
      BY <1>1, <1>41, <3>1 DEF T
    <3>3. g[n - 1] \o <<lines[n]>> = Append(g[n - 1], lines[n])
      BY <3>2, PutBehind
    <3>4. g[n - 1] \o << >> = g[n - 1]
      BY <3>2, ConcatEmptySeq
    <3> QED BY <1>5, <2>2, <3>1, <3>3, <3>4 DEF AtThen, Taken
  <2> QED BY <2>1, <2>2
<1>7. g = [n \in 0..Len(lines) |-> AtThen(lines, places, g, n)]
  <2>1. g = [n \in 0..Len(lines) |-> g[n]]
    BY <1>41
  <2> QED BY <1>6, <2>1
<1>8. a = [n \in 0..Len(lines) |-> AtThen(lines, places, a, n)]
  BY <1>7
<1>9. S!At(lines, places) = a[Len(lines)]
  BY DEF S!At, AtThen
<1>10. \A n \in 0..Len(lines) : a[n] = AtThen(lines, places, a, n)
  <2> HIDE DEF a
  <2> QED BY <1>8
<1> DEFINE U == {n \in 0..Len(lines) : a[n] = g[n]}
<1>11. \A n \in 0..Len(lines) : n \in U
  <2> HIDE DEF a
  <2>1. 0 \in U
    <3>1. 0 \in 0..Len(lines)
      BY <1>1
    <3>2. a[0] = AtThen(lines, places, a, 0)
      BY <1>10, <3>1
    <3>3. a[0] = << >>
      BY <3>2 DEF AtThen
    <3> QED BY <1>41, <3>1, <3>3
  <2>2. ASSUME NEW n \in 0..Len(lines), n < Len(lines), n \in U
        PROVE  n + 1 \in U
    <3>1. n + 1 \in 0..Len(lines) /\ n + 1 # 0 /\ (n + 1) - 1 = n /\ a[n] = g[n]
      BY <2>2
    <3> QED BY <1>6, <1>10, <3>1 DEF AtThen
  <2> HIDE DEF U
  <2> QED BY <1>1, <2>1, <2>2, ByCounting
<1>12. a[Len(lines)] = g[Len(lines)]
  <2> HIDE DEF a
  <2>1. Len(lines) \in 0..Len(lines)
    BY <1>1
  <2> QED BY <1>11, <2>1
<1>13. S!At(lines, places) = g[Len(lines)]
  <2> HIDE DEF a
  <2> QED BY <1>9, <1>12
<1> HIDE DEF a, more, U
<1>14. g \in [0..Len(lines) -> Seq(S!Lines)]
  BY <1>41 DEF T
<1>15. AtBy(lines, places, g)
  BY <1>41, <1>5, <1>13, <1>14 DEF AtBy
<1> QED BY <1>15

(* What stands at the places is not more than the text, is of the text,    *)
(* and has no line twice if no two places have the same.                   *)
Apart(lines) == \A j, k \in 1..Len(lines) : j # k => ~S!Same(lines[j], lines[k])
ApartAt(lines, places) ==
    \A j, k \in 1..Len(lines) : j \in places /\ k \in places /\ j # k => ~S!Same(lines[j], lines[k])
OfPlace(x, lines, places, n) == \E i \in 1..n : i \in places /\ x = lines[i]
From(w, lines, places, n) ==
    /\ w \in Seq(S!Lines) /\ Len(w) <= n
    /\ \A m \in 1..Len(w) : OfPlace(w[m], lines, places, n)
    /\ ApartAt(lines, places) => Apart(w)

LEMMA FromThen ==
  ASSUME NEW lines \in Seq(S!Lines), NEW places, NEW n \in 1..Len(lines), NEW w,
         From(w, lines, places, n - 1)
  PROVE  /\ From(w, lines, places, n)
         /\ n \in places => From(Append(w, lines[n]), lines, places, n)
<1> DEFINE v == Append(w, lines[n])
<1>1. /\ w \in Seq(S!Lines) /\ Len(w) \in Nat /\ Len(w) <= n - 1 /\ lines[n] \in S!Lines
      /\ n \in Nat /\ Len(lines) \in Nat
  BY DEF From
<1>2. \A m \in 1..Len(w) : \E i \in 1..(n - 1) : i \in places /\ w[m] = lines[i]
  BY DEF From, OfPlace
<1>3. From(w, lines, places, n)
  <2>1. Len(w) <= n
    BY <1>1
  <2>2. \A i \in 1..(n - 1) : i \in 1..n
    OBVIOUS
  <2>3. \A m \in 1..Len(w) : OfPlace(w[m], lines, places, n)
    BY <1>2, <2>2 DEF OfPlace
  <2> QED BY <1>1, <2>1, <2>3 DEF From
<1>4. ASSUME n \in places
      PROVE  From(v, lines, places, n)
  <2>1. /\ v \in Seq(S!Lines) /\ Len(v) = Len(w) + 1
        /\ \A j \in 1..Len(w) : v[j] = w[j]
        /\ v[Len(w) + 1] = lines[n]
    BY <1>1, PutBehind
  <2> HIDE DEF v
  <2>2. \A m \in 1..Len(v) : m \in 1..Len(w) \/ m = Len(w) + 1
    BY <1>1, <2>1
  <2>3. ASSUME NEW m \in 1..Len(v)
        PROVE  OfPlace(v[m], lines, places, n)
    <3>1. n \in 1..n
      BY <1>1
    <3>2. CASE m \in 1..Len(w)
      BY <1>3, <2>1, <3>2 DEF From
    <3>3. CASE m = Len(w) + 1
      BY <1>4, <2>1, <3>1, <3>3 DEF OfPlace
    <3> QED BY <2>2, <3>2, <3>3
  <2>4. ASSUME ApartAt(lines, places)
        PROVE  Apart(v)
    <3>1. Apart(w)
      BY <2>4 DEF From
    <3>2. ASSUME NEW j \in 1..Len(w)
          PROVE  ~S!Same(v[j], lines[n]) /\ ~S!Same(lines[n], v[j])
      <4>1. PICK i \in 1..(n - 1) : i \in places /\ w[j] = lines[i]
        BY <1>2
      <4>2. i \in 1..Len(lines) /\ i # n
        BY <1>1
      <4> QED BY <1>4, <2>1, <2>4, <4>1, <4>2 DEF ApartAt
    <3>3. ASSUME NEW j \in 1..Len(v), NEW k \in 1..Len(v), j # k
          PROVE  ~S!Same(v[j], v[k])
      <4>1. CASE j = Len(w) + 1
        <5>1. k \in 1..Len(w)
          BY <2>2, <3>3, <4>1
        <5> QED BY <2>1, <3>2, <4>1, <5>1
      <4>2. CASE k = Len(w) + 1
        <5>1. j \in 1..Len(w)
          BY <2>2, <3>3, <4>2
        <5> QED BY <2>1, <3>2, <4>2, <5>1
      <4>3. CASE j \in 1..Len(w) /\ k \in 1..Len(w)
        BY <2>1, <3>1, <3>3, <4>3 DEF Apart
      <4> QED BY <2>2, <4>1, <4>2, <4>3
    <3> QED BY <3>3 DEF Apart
  <2>5. Len(v) <= n
    BY <1>1, <2>1
  <2> QED BY <2>1, <2>3, <2>4, <2>5 DEF From
<1> QED BY <1>3, <1>4

LEMMA AtIsFrom ==
  ASSUME NEW lines \in Seq(S!Lines), NEW places
  PROVE  From(S!At(lines, places), lines, places, Len(lines))
<1>1. PICK g : AtBy(lines, places, g)
  BY AtRuns
<1>2. Len(lines) \in Nat
  OBVIOUS
<1> DEFINE T == {n \in 0..Len(lines) : From(g[n], lines, places, n)}
<1>3. 0 \in T
  <2>1. From(<< >>, lines, places, 0)
    BY DEF From, Apart
  <2> QED BY <1>1, <1>2, <2>1 DEF AtBy
<1>4. ASSUME NEW n \in 0..Len(lines), n < Len(lines), n \in T
      PROVE  n + 1 \in T
  <2>1. n + 1 \in 1..Len(lines) /\ n + 1 \in 0..Len(lines) /\ (n + 1) - 1 = n
    BY <1>4
  <2>2. g[n + 1] = Taken(lines, places, g, n + 1)
    BY <1>1, <2>1 DEF AtBy
  <2>3. From(g[n + 1], lines, places, n + 1)
    BY <1>4, <2>1, <2>2, FromThen DEF Taken
  <2> QED BY <2>1, <2>3
<1> HIDE DEF T
<1>5. \A n \in 0..Len(lines) : n \in T
  BY <1>2, <1>3, <1>4, ByCounting
<1>6. Len(lines) \in T
  BY <1>2, <1>5
<1> QED BY <1>1, <1>6 DEF AtBy, T

(* All places are the whole text, and the first is its first line.         *)
LEMMA AtAll ==
  ASSUME NEW lines \in Seq(S!Lines), NEW places, 1..Len(lines) \subseteq places
  PROVE  S!At(lines, places) = lines
<1> DEFINE Whole(w, n) == Len(w) = n /\ \A m \in 1..n : w[m] = lines[m]
<1>1. PICK g : AtBy(lines, places, g)
  BY AtRuns
<1>2. Len(lines) \in Nat
  OBVIOUS
<1> DEFINE T == {n \in 0..Len(lines) : Whole(g[n], n)}
<1>3. 0 \in T
  <2>1. Whole(<< >>, 0)
    OBVIOUS
  <2> QED BY <1>1, <1>2, <2>1 DEF AtBy
<1>4. ASSUME NEW n \in 0..Len(lines), n < Len(lines), n \in T
      PROVE  n + 1 \in T
  <2>1. n + 1 \in 1..Len(lines) /\ n + 1 \in 0..Len(lines) /\ (n + 1) - 1 = n
    BY <1>4
  <2>2. g[n + 1] = Append(g[n], lines[n + 1])
    BY <1>1, <2>1 DEF AtBy, Taken
  <2>3. g[n] \in Seq(S!Lines) /\ lines[n + 1] \in S!Lines
    BY <1>1, <2>1 DEF AtBy
  <2>4. Len(g[n]) = n /\ \A m \in 1..n : g[n][m] = lines[m]
    BY <1>4
  <2>5. /\ Len(g[n + 1]) = n + 1
        /\ \A j \in 1..n : g[n + 1][j] = g[n][j]
        /\ g[n + 1][n + 1] = lines[n + 1]
    BY <2>2, <2>3, <2>4, PutBehind
  <2>6. \A m \in 1..(n + 1) : m \in 1..n \/ m = n + 1
    OBVIOUS
  <2>7. \A m \in 1..(n + 1) : g[n + 1][m] = lines[m]
    BY <2>4, <2>5, <2>6
  <2> QED BY <2>1, <2>5, <2>7
<1> HIDE DEF T
<1>5. \A n \in 0..Len(lines) : n \in T
  BY <1>2, <1>3, <1>4, ByCounting
<1>6. Whole(g[Len(lines)], Len(lines))
  BY <1>2, <1>5 DEF T
<1>7. g[Len(lines)] \in Seq(S!Lines)
  BY <1>1, <1>2 DEF AtBy
<1>8. g[Len(lines)] = lines
  BY <1>6, <1>7
<1> QED BY <1>1, <1>8 DEF AtBy

LEMMA AtFirst ==
  ASSUME NEW lines \in Seq(S!Lines), 1 \in 1..Len(lines)
  PROVE  S!At(lines, {1}) = <<lines[1]>>
<1>1. PICK g : AtBy(lines, {1}, g)
  BY AtRuns
<1>2. Len(lines) \in Nat /\ Len(lines) # 0
  OBVIOUS
<1> DEFINE T == {n \in 0..Len(lines) : n # 0 => g[n] = <<lines[1]>>}
<1>3. 0 \in T
  BY <1>2
<1>4. ASSUME NEW n \in 0..Len(lines), n < Len(lines), n \in T
      PROVE  n + 1 \in T
  <2>1. n + 1 \in 1..Len(lines) /\ n + 1 \in 0..Len(lines) /\ (n + 1) - 1 = n
    BY <1>4
  <2>2. g[n + 1] = IF n + 1 = 1 THEN Append(g[n], lines[n + 1]) ELSE g[n]
    BY <1>1, <2>1 DEF AtBy, Taken
  <2>3. CASE n = 0
    <3>1. g[n] = << >>
      BY <1>1, <2>3 DEF AtBy
    <3>2. Append(<< >>, lines[1]) = <<lines[1]>>
      OBVIOUS
    <3> QED BY <2>1, <2>2, <2>3, <3>1, <3>2
  <2>4. CASE n # 0
    BY <1>4, <2>1, <2>2, <2>4
  <2> QED BY <2>3, <2>4
<1> HIDE DEF T
<1>5. \A n \in 0..Len(lines) : n \in T
  BY <1>2, <1>3, <1>4, ByCounting
<1>6. g[Len(lines)] = <<lines[1]>>
  BY <1>2, <1>5 DEF T
<1> QED BY <1>1, <1>6 DEF AtBy

(* So many lines into a text, their length.                                *)
TotalThen(lines, g, n) == IF n = 0 THEN 0 ELSE g[n - 1] + lines[n].chars
TotalBy(lines, g) ==
    /\ g \in [0..Len(lines) -> Nat]
    /\ S!Total(lines) = g[Len(lines)]
    /\ \A n \in 0..Len(lines) : g[n] = TotalThen(lines, g, n)

LEMMA TotalRuns ==
  ASSUME NEW lines \in Seq(S!Lines)
  PROVE  \E g : TotalBy(lines, g)
<1> DEFINE more(n, c) == c + lines[n].chars
           step == [n \in 1..Len(lines) |-> [c \in Nat |-> more(n, c)]]
           a == CHOOSE f : f = [n \in 0..Len(lines) |-> TotalThen(lines, f, n)]
<1>1. Len(lines) \in Nat /\ \A n \in 1..Len(lines) : lines[n].chars \in Nat
  <2>1. Len(lines) \in Nat /\ \A n \in 1..Len(lines) : lines[n] \in S!Lines
    OBVIOUS
  <2> QED BY <2>1 DEF S!Lines
<1>2. \A n \in 1..Len(lines), c \in Nat : more(n, c) \in Nat
  BY <1>1
<1>3. step \in [1..Len(lines) -> [Nat -> Nat]]
  <2> HIDE DEF more
  <2> QED BY <1>2
<1>4. PICK g : Follows(0, step, g, Len(lines), Nat)
  <2> HIDE DEF step
  <2> QED BY <1>1, <1>3, RunsIn
<1> HIDE DEF step
<1>5. /\ g \in [0..Len(lines) -> Nat] /\ g[0] = 0
      /\ \A k \in 1..Len(lines) : g[k] = step[k][g[k - 1]]
  BY <1>4 DEF Follows
<1>6. ASSUME NEW n \in 0..Len(lines)
      PROVE  g[n] = TotalThen(lines, g, n)
  <2>1. CASE n = 0
    BY <1>5, <2>1 DEF TotalThen
  <2>2. CASE n # 0
    <3>1. n \in 1..Len(lines) /\ n - 1 \in 0..Len(lines)
      BY <2>2
    <3>2. g[n - 1] \in Nat
      BY <1>5, <3>1
    <3>3. step[n][g[n - 1]] = more(n, g[n - 1])
      <4> HIDE DEF more
      <4> QED BY <3>1, <3>2 DEF step
    <3> QED BY <1>5, <2>2, <3>1, <3>3 DEF TotalThen
  <2> QED BY <2>1, <2>2
<1>7. g = [n \in 0..Len(lines) |-> TotalThen(lines, g, n)]
  <2>1. g = [n \in 0..Len(lines) |-> g[n]]
    BY <1>5
  <2> QED BY <1>6, <2>1
<1>8. a = [n \in 0..Len(lines) |-> TotalThen(lines, a, n)]
  BY <1>7
<1>9. S!Total(lines) = a[Len(lines)]
  BY DEF S!Total, TotalThen
<1>10. \A n \in 0..Len(lines) : a[n] = TotalThen(lines, a, n)
  <2> HIDE DEF a
  <2> QED BY <1>8
<1> DEFINE U == {n \in 0..Len(lines) : a[n] = g[n]}
<1>11. \A n \in 0..Len(lines) : n \in U
  <2> HIDE DEF a
  <2>1. 0 \in U
    <3>1. 0 \in 0..Len(lines)
      BY <1>1
    <3>2. a[0] = TotalThen(lines, a, 0)
      BY <1>10, <3>1
    <3>3. a[0] = 0
      BY <3>2 DEF TotalThen
    <3> QED BY <1>5, <3>1, <3>3
  <2>2. ASSUME NEW n \in 0..Len(lines), n < Len(lines), n \in U
        PROVE  n + 1 \in U
    <3>1. n + 1 \in 0..Len(lines) /\ n + 1 # 0 /\ (n + 1) - 1 = n /\ a[n] = g[n]
      BY <2>2
    <3> QED BY <1>6, <1>10, <3>1 DEF TotalThen
  <2> HIDE DEF U
  <2> QED BY <1>1, <2>1, <2>2, ByCounting
<1>12. a[Len(lines)] = g[Len(lines)]
  <2> HIDE DEF a
  <2>1. Len(lines) \in 0..Len(lines)
    BY <1>1
  <2> QED BY <1>11, <2>1
<1>13. S!Total(lines) = g[Len(lines)]
  <2> HIDE DEF a
  <2> QED BY <1>9, <1>12
<1> HIDE DEF a, more, U
<1>14. TotalBy(lines, g)
  BY <1>5, <1>6, <1>13 DEF TotalBy
<1> QED BY <1>14

LEMMA TotalIsNat ==
  ASSUME NEW lines \in Seq(S!Lines)
  PROVE  S!Total(lines) \in Nat
<1>1. PICK g : TotalBy(lines, g)
  BY TotalRuns
<1>2. Len(lines) \in 0..Len(lines)
  OBVIOUS
<1> QED BY <1>1, <1>2 DEF TotalBy

LEMMA TotalNone == S!Total(<< >>) = 0
<1>1. << >> \in Seq(S!Lines) /\ Len(<< >>) = 0 /\ 0 \in 0..0
  OBVIOUS
<1>2. PICK g : TotalBy(<< >>, g)
  BY <1>1, TotalRuns
<1> QED BY <1>1, <1>2 DEF TotalBy, TotalThen

(* One more line is as much more as it is long.                            *)
LEMMA TotalMore ==
  ASSUME NEW w \in Seq(S!Lines), NEW x \in S!Lines
  PROVE  S!Total(Append(w, x)) = S!Total(w) + x.chars
<1> DEFINE v == Append(w, x)
<1>1. /\ v \in Seq(S!Lines) /\ Len(v) = Len(w) + 1
      /\ \A j \in 1..Len(w) : v[j] = w[j]
      /\ v[Len(w) + 1] = x
  BY PutBehind
<1> HIDE DEF v
<1>2. PICK g : TotalBy(w, g)
  BY TotalRuns
<1>3. PICK h : TotalBy(v, h)
  BY <1>1, TotalRuns
<1>4. Len(w) \in Nat
  OBVIOUS
<1> DEFINE T == {n \in 0..Len(w) : h[n] = g[n]}
<1>5. 0 \in T
  <2>1. 0 \in 0..Len(w) /\ 0 \in 0..Len(v)
    BY <1>1, <1>4
  <2> QED BY <1>2, <1>3, <2>1 DEF TotalBy, TotalThen
<1>6. ASSUME NEW n \in 0..Len(w), n < Len(w), n \in T
      PROVE  n + 1 \in T
  <2>1. /\ n + 1 \in 1..Len(w) /\ n + 1 \in 0..Len(w) /\ n + 1 \in 0..Len(v)
        /\ (n + 1) - 1 = n /\ n + 1 # 0
    BY <1>1, <1>4, <1>6
  <2>2. g[n + 1] = TotalThen(w, g, n + 1) /\ h[n + 1] = TotalThen(v, h, n + 1)
    BY <1>2, <1>3, <2>1 DEF TotalBy
  <2>3. v[n + 1] = w[n + 1] /\ h[n] = g[n]
    BY <1>1, <1>6, <2>1
  <2> QED BY <2>1, <2>2, <2>3 DEF TotalThen
<1> HIDE DEF T
<1>7. \A n \in 0..Len(w) : n \in T
  BY <1>4, <1>5, <1>6, ByCounting
<1>8. h[Len(w)] = g[Len(w)]
  BY <1>4, <1>7 DEF T
<1>9. /\ Len(v) \in 0..Len(v) /\ Len(v) # 0 /\ Len(v) - 1 = Len(w)
  BY <1>1, <1>4
<1>10. h[Len(v)] = h[Len(v) - 1] + v[Len(v)].chars
  BY <1>3, <1>9 DEF TotalBy, TotalThen
<1>11. S!Total(v) = S!Total(w) + x.chars
  BY <1>1, <1>2, <1>3, <1>8, <1>9, <1>10 DEF TotalBy
<1> QED BY <1>11 DEF v

(* At fewer places there is less.                                          *)
Less(v, w) == Len(v) <= Len(w) /\ S!Total(v) <= S!Total(w)

LEMMA FewerIsLess ==
  ASSUME NEW lines \in Seq(S!Lines), NEW few, NEW places,
         \A n \in 1..Len(lines) : n \in few => n \in places
  PROVE  Less(S!At(lines, few), S!At(lines, places))
<1>1. PICK g : AtBy(lines, few, g)
  BY AtRuns
<1>2. PICK h : AtBy(lines, places, h)
  BY AtRuns
<1>3. Len(lines) \in Nat
  OBVIOUS
<1> DEFINE T == {n \in 0..Len(lines) : Less(g[n], h[n])}
<1>4. 0 \in T
  <2>1. Len(<< >>) <= Len(<< >>) /\ S!Total(<< >>) <= S!Total(<< >>)
    BY TotalNone
  <2> QED BY <1>1, <1>2, <1>3, <2>1 DEF AtBy, Less
<1>5. ASSUME NEW n \in 0..Len(lines), n < Len(lines), n \in T
      PROVE  n + 1 \in T
  <2>1. n + 1 \in 1..Len(lines) /\ n + 1 \in 0..Len(lines) /\ (n + 1) - 1 = n
    BY <1>5
  <2>2. /\ g[n + 1] = IF n + 1 \in few THEN Append(g[n], lines[n + 1]) ELSE g[n]
        /\ h[n + 1] = IF n + 1 \in places THEN Append(h[n], lines[n + 1]) ELSE h[n]
    BY <1>1, <1>2, <2>1 DEF AtBy, Taken
  <2>3. g[n] \in Seq(S!Lines) /\ h[n] \in Seq(S!Lines) /\ lines[n + 1] \in S!Lines
    BY <1>1, <1>2, <2>1 DEF AtBy
  <2>4. lines[n + 1].chars \in Nat
    BY <2>3 DEF S!Lines
  <2>5. /\ Len(Append(g[n], lines[n + 1])) = Len(g[n]) + 1
        /\ S!Total(Append(g[n], lines[n + 1])) = S!Total(g[n]) + lines[n + 1].chars
    BY <2>3, PutBehind, TotalMore
  <2>6. /\ Len(Append(h[n], lines[n + 1])) = Len(h[n]) + 1
        /\ S!Total(Append(h[n], lines[n + 1])) = S!Total(h[n]) + lines[n + 1].chars
    BY <2>3, PutBehind, TotalMore
  <2>7. /\ Len(g[n]) \in Nat /\ Len(h[n]) \in Nat
        /\ S!Total(g[n]) \in Nat /\ S!Total(h[n]) \in Nat
    BY <2>3, TotalIsNat
  <2>8. Len(g[n]) <= Len(h[n]) /\ S!Total(g[n]) <= S!Total(h[n])
    BY <1>5 DEF Less
  <2>9. n + 1 \in few => n + 1 \in places
    BY <2>1
  <2>10. CASE n + 1 \in few
    <3>1. g[n + 1] = Append(g[n], lines[n + 1]) /\ h[n + 1] = Append(h[n], lines[n + 1])
      BY <2>2, <2>9, <2>10
    <3>2. Len(g[n + 1]) = Len(g[n]) + 1 /\ Len(h[n + 1]) = Len(h[n]) + 1
      BY <2>5, <2>6, <3>1
    <3>3. /\ S!Total(g[n + 1]) = S!Total(g[n]) + lines[n + 1].chars
          /\ S!Total(h[n + 1]) = S!Total(h[n]) + lines[n + 1].chars
      BY <2>5, <2>6, <3>1
    <3>4. Len(g[n + 1]) <= Len(h[n + 1])
      BY <2>7, <2>8, <3>2
    <3>5. S!Total(g[n + 1]) <= S!Total(h[n + 1])
      BY <2>4, <2>7, <2>8, <3>3
    <3> QED BY <2>1, <3>4, <3>5 DEF Less
  <2>11. CASE n + 1 \notin few /\ n + 1 \in places
    <3>1. g[n + 1] = g[n] /\ h[n + 1] = Append(h[n], lines[n + 1])
      BY <2>2, <2>11
    <3>2. Len(h[n + 1]) = Len(h[n]) + 1
      BY <2>6, <3>1
    <3>3. S!Total(h[n + 1]) = S!Total(h[n]) + lines[n + 1].chars
      BY <2>6, <3>1
    <3>4. Len(g[n + 1]) <= Len(h[n + 1])
      BY <2>7, <2>8, <3>1, <3>2
    <3>5. S!Total(g[n + 1]) <= S!Total(h[n + 1])
      BY <2>4, <2>7, <2>8, <3>1, <3>3
    <3> QED BY <2>1, <3>4, <3>5 DEF Less
  <2>12. CASE n + 1 \notin few /\ n + 1 \notin places
    BY <2>1, <2>2, <2>8, <2>12 DEF Less
  <2> QED BY <2>10, <2>11, <2>12
<1> HIDE DEF T
<1>6. \A n \in 0..Len(lines) : n \in T
  BY <1>3, <1>4, <1>5, ByCounting
<1>7. Less(g[Len(lines)], h[Len(lines)])
  BY <1>3, <1>6 DEF T
<1> QED BY <1>1, <1>2, <1>7 DEF AtBy

(* What is less fits where the other fits.                                 *)
LEMMA LessFits ==
  ASSUME NEW v \in Seq(S!Lines), NEW w \in Seq(S!Lines), Less(v, w),
         NEW b \in [chars : Nat, lines : Nat, lineChars : Nat], S!Fits(w, b)
  PROVE  S!Fits(v, b)
<1>1. /\ Len(v) \in Nat /\ Len(w) \in Nat /\ S!Total(v) \in Nat /\ S!Total(w) \in Nat
      /\ b.lines \in Nat /\ b.chars \in Nat
  BY TotalIsNat
<1>2. (v = << >>) <=> Len(v) = 0
  OBVIOUS
<1>3. (w = << >>) <=> Len(w) = 0
  OBVIOUS
<1>4. Len(v) <= Len(w) /\ S!Total(v) <= S!Total(w)
  BY DEF Less
<1>5. Len(w) <= b.lines /\ S!Chars(w) <= b.chars
  BY DEF S!Fits
<1>6. S!Chars(v) <= S!Chars(w)
  <2>1. CASE v = << >>
    <3>1. S!Chars(v) = S!Total(v)
      BY <1>1, <2>1 DEF S!Chars
    <3>2. CASE w = << >>
      BY <1>1, <1>4, <3>1, <3>2 DEF S!Chars
    <3>3. CASE w # << >>
      BY <1>1, <1>3, <1>4, <3>1, <3>3 DEF S!Chars
    <3> QED BY <3>2, <3>3
  <2>2. CASE v # << >>
    <3>1. w # << >>
      BY <1>1, <1>2, <1>3, <1>4, <2>2
    <3> QED BY <1>1, <1>4, <2>2, <3>1 DEF S!Chars
  <2> QED BY <2>1, <2>2
<1>7. S!Chars(v) \in Nat /\ S!Chars(w) \in Nat
  <2>5. S!Chars(v) \in Nat
    BY <1>1, <1>2 DEF S!Chars
  <2>6. S!Chars(w) \in Nat
    BY <1>1, <1>3 DEF S!Chars
  <2> QED BY <2>5, <2>6
<1> QED BY <1>1, <1>4, <1>5, <1>6, <1>7 DEF S!Fits

(* Up to a line, the lines of a priority that are taken: with those that   *)
(* were taken before they fit, and none is left out that still fitted.     *)
FitAt(lines, places, b) == S!Fits(S!At(lines, places), b)
TakenUpTo(taken, places, k) == {j \in places : j \in taken \/ j < k}
PickedTo(lines, b, priority, taken, places, n) ==
    /\ places \in SUBSET (1..Len(lines)) /\ taken \subseteq places
    /\ \A j \in places : j \in taken \/ (j \in 1..n /\ S!Priority(lines[j]) = priority)
    /\ places = taken \/ FitAt(lines, places, b)
    /\ \A k \in 1..n :
          S!Priority(lines[k]) = priority /\ k \notin places =>
              ~FitAt(lines, TakenUpTo(taken, places, k) \cup {k}, b)

PickThen(lines, b, priority, taken, g, n) ==
    IF n = 0 THEN taken ELSE S!Pick(lines, b, priority, g[n - 1], n)
PickBy(lines, b, priority, taken, g) ==
    /\ S!Picked(lines, b, priority, taken) = g[Len(lines)]
    /\ \A n \in 0..Len(lines) : g[n] = PickThen(lines, b, priority, taken, g, n)

LEMMA PickRuns ==
  ASSUME NEW lines, Len(lines) \in Nat, NEW b, NEW priority, NEW taken \in SUBSET (1..Len(lines))
  PROVE  \E g : PickBy(lines, b, priority, taken, g)
<1> DEFINE T == SUBSET (1..Len(lines))
           step == [n \in 1..Len(lines) |-> [w \in T |-> S!Pick(lines, b, priority, w, n)]]
           a == CHOOSE f : f = [n \in 0..Len(lines) |-> PickThen(lines, b, priority, taken, f, n)]
<1>1. \A n \in 1..Len(lines), w \in T : S!Pick(lines, b, priority, w, n) \in T
  BY DEF S!Pick
<1>2. taken \in T
  OBVIOUS
<1> HIDE DEF T
<1>3. step \in [1..Len(lines) -> [T -> T]]
  BY <1>1
<1>4. PICK g : Follows(taken, step, g, Len(lines), T)
  <2> HIDE DEF step
  <2> QED BY <1>2, <1>3, RunsIn
<1> HIDE DEF step
<1>5. /\ g \in [0..Len(lines) -> T] /\ g[0] = taken
      /\ \A k \in 1..Len(lines) : g[k] = step[k][g[k - 1]]
  BY <1>4 DEF Follows
<1>6. ASSUME NEW n \in 0..Len(lines)
      PROVE  g[n] = PickThen(lines, b, priority, taken, g, n)
  <2>1. CASE n = 0
    BY <1>5, <2>1 DEF PickThen
  <2>2. CASE n # 0
    <3>1. n \in 1..Len(lines) /\ n - 1 \in 0..Len(lines)
      BY <2>2
    <3>2. g[n - 1] \in T
      BY <1>5, <3>1
    <3>3. step[n][g[n - 1]] = S!Pick(lines, b, priority, g[n - 1], n)
      BY <3>1, <3>2 DEF step
    <3> QED BY <1>5, <2>2, <3>1, <3>3 DEF PickThen
  <2> QED BY <2>1, <2>2
<1>7. g = [n \in 0..Len(lines) |-> PickThen(lines, b, priority, taken, g, n)]
  <2>1. g = [n \in 0..Len(lines) |-> g[n]]
    BY <1>5
  <2> QED BY <1>6, <2>1
<1>8. a = [n \in 0..Len(lines) |-> PickThen(lines, b, priority, taken, a, n)]
  BY <1>7
<1>9. S!Picked(lines, b, priority, taken) = a[Len(lines)]
  BY DEF S!Picked, PickThen
<1>10. \A n \in 0..Len(lines) : a[n] = PickThen(lines, b, priority, taken, a, n)
  <2> HIDE DEF a
  <2> QED BY <1>8
<1> HIDE DEF a
<1>11. PickBy(lines, b, priority, taken, a)
  BY <1>9, <1>10 DEF PickBy
<1> QED BY <1>11

LEMMA TakenBefore ==
  ASSUME NEW taken, NEW w, NEW n, NEW k, n \notin taken, ~(n < k)
  PROVE  TakenUpTo(taken, w \cup {n}, k) = TakenUpTo(taken, w, k)
BY Zenon DEF TakenUpTo

LEMMA PickFurther ==
  ASSUME NEW lines, Len(lines) \in Nat, NEW b, NEW priority, NEW taken, NEW w,
         NEW n \in 1..Len(lines), PickedTo(lines, b, priority, taken, w, n - 1)
  PROVE  PickedTo(lines, b, priority, taken, S!Pick(lines, b, priority, w, n), n)
<1> DEFINE v == S!Pick(lines, b, priority, w, n)
           more == S!Priority(lines[n]) = priority /\ FitAt(lines, w \cup {n}, b)
<1>1. v = IF more THEN w \cup {n} ELSE w
  BY DEF S!Pick, FitAt
<1>2. /\ w \in SUBSET (1..Len(lines)) /\ taken \subseteq w
      /\ \A j \in w : j \in taken \/ (j \in 1..(n - 1) /\ S!Priority(lines[j]) = priority)
      /\ w = taken \/ FitAt(lines, w, b)
  BY DEF PickedTo
<1>3. \A k \in 1..(n - 1) :
          S!Priority(lines[k]) = priority /\ k \notin w =>
              ~FitAt(lines, TakenUpTo(taken, w, k) \cup {k}, b)
  BY DEF PickedTo
<1>4. /\ n \in 1..n /\ \A k \in 1..(n - 1) : k \in 1..n /\ ~(n < k)
      /\ \A k \in 1..n : k \in 1..(n - 1) \/ k = n
      /\ \A k \in 1..(n - 1) : k < n
  OBVIOUS
<1>5. CASE ~more
  <2>1. v = w
    BY <1>1, <1>5
  <2>2. \A j \in w : j \in taken \/ (j \in 1..n /\ S!Priority(lines[j]) = priority)
    BY <1>2, <1>4
  <2>3. TakenUpTo(taken, w, n) = w
    BY <1>2, <1>4 DEF TakenUpTo
  <2>4. ASSUME NEW k \in 1..n, S!Priority(lines[k]) = priority, k \notin w
        PROVE  ~FitAt(lines, TakenUpTo(taken, w, k) \cup {k}, b)
    <3>1. CASE k = n
      BY <1>5, <2>3, <2>4, <3>1
    <3>2. CASE k \in 1..(n - 1)
      BY <1>3, <2>4, <3>2
    <3> QED BY <1>4, <3>1, <3>2
  <2>5. PickedTo(lines, b, priority, taken, w, n)
    BY <1>2, <2>2, <2>4 DEF PickedTo
  <2> QED BY <2>1, <2>5
<1>6. CASE more /\ n \in w
  <2>1. v = w
    BY <1>1, <1>6
  <2>2. \A j \in w : j \in taken \/ (j \in 1..n /\ S!Priority(lines[j]) = priority)
    BY <1>2, <1>4
  <2>4. ASSUME NEW k \in 1..n, S!Priority(lines[k]) = priority, k \notin w
        PROVE  ~FitAt(lines, TakenUpTo(taken, w, k) \cup {k}, b)
    <3>1. k \in 1..(n - 1)
      BY <1>4, <1>6, <2>4
    <3> QED BY <1>3, <2>4, <3>1
  <2>5. PickedTo(lines, b, priority, taken, w, n)
    BY <1>2, <2>2, <2>4 DEF PickedTo
  <2> QED BY <2>1, <2>5
<1>7. CASE more /\ n \notin w
  <2>1. v = w \cup {n}
    BY <1>1, <1>7
  <2>2. v \in SUBSET (1..Len(lines)) /\ taken \subseteq v
    BY <1>2, <2>1
  <2>3. \A j \in v : j \in taken \/ (j \in 1..n /\ S!Priority(lines[j]) = priority)
    BY <1>2, <1>4, <1>7, <2>1
  <2>4. FitAt(lines, v, b)
    BY <1>7, <2>1
  <2>5. ASSUME NEW k \in 1..n, S!Priority(lines[k]) = priority, k \notin v
        PROVE  ~FitAt(lines, TakenUpTo(taken, v, k) \cup {k}, b)
    <3>1. k \in 1..(n - 1) /\ k \notin w
      BY <1>4, <2>1, <2>5
    <3>2. n \notin taken /\ ~(n < k)
      BY <1>2, <1>4, <1>7, <3>1
    <3>3. TakenUpTo(taken, v, k) = TakenUpTo(taken, w, k)
      BY <2>1, <3>2, TakenBefore
    <3> QED BY <1>3, <2>5, <3>1, <3>3
  <2> HIDE DEF v
  <2>6. PickedTo(lines, b, priority, taken, v, n)
    BY <2>2, <2>3, <2>4, <2>5 DEF PickedTo
  <2> QED BY <2>6 DEF v
<1> QED BY <1>5, <1>6, <1>7

LEMMA PickedIs ==
  ASSUME NEW lines, Len(lines) \in Nat, NEW b, NEW priority, NEW taken \in SUBSET (1..Len(lines))
  PROVE  PickedTo(lines, b, priority, taken, S!Picked(lines, b, priority, taken), Len(lines))
<1>1. PICK g : PickBy(lines, b, priority, taken, g)
  BY PickRuns
<1>2. /\ S!Picked(lines, b, priority, taken) = g[Len(lines)]
      /\ \A n \in 0..Len(lines) : g[n] = PickThen(lines, b, priority, taken, g, n)
  BY <1>1 DEF PickBy
<1> DEFINE T == {n \in 0..Len(lines) : PickedTo(lines, b, priority, taken, g[n], n)}
<1>3. 0 \in T
  <2>1. g[0] = taken /\ 0 \in 0..Len(lines)
    BY <1>2 DEF PickThen
  <2>2. PickedTo(lines, b, priority, taken, taken, 0)
    BY DEF PickedTo
  <2> QED BY <2>1, <2>2
<1>4. ASSUME NEW n \in 0..Len(lines), n < Len(lines), n \in T
      PROVE  n + 1 \in T
  <2>1. /\ n + 1 \in 1..Len(lines) /\ n + 1 \in 0..Len(lines)
        /\ (n + 1) - 1 = n /\ n + 1 # 0
    BY <1>4
  <2>2. g[n + 1] = S!Pick(lines, b, priority, g[n], n + 1)
    BY <1>2, <2>1 DEF PickThen
  <2>3. PickedTo(lines, b, priority, taken, g[n + 1], n + 1)
    BY <1>4, <2>1, <2>2, PickFurther
  <2> QED BY <2>1, <2>3
<1> HIDE DEF T
<1>5. \A n \in 0..Len(lines) : n \in T
  BY <1>3, <1>4, ByCounting
<1>6. Len(lines) \in T
  BY <1>5
<1> QED BY <1>2, <1>6 DEF T

LEMMA PriorityIs ==
  ASSUME NEW x
  PROVE  S!Priority(x) \in 0..3
BY DEF S!Priority

LeftOut(lines, b, every, i) == ~FitAt(lines, {j \in every : S!Before(lines, j, i)} \cup {i}, b)

(* Of one importance nothing is left out that fits with what matters more. *)
LEMMA LevelIsFull ==
  ASSUME NEW lines, Len(lines) \in Nat, NEW b, NEW priority \in 0..3, NEW taken, NEW places,
         NEW every, NEW i \in 1..Len(lines),
         PickedTo(lines, b, priority, taken, places, Len(lines)),
         places \subseteq every, every \subseteq 1..Len(lines),
         \A j \in taken : S!Priority(lines[j]) < priority,
         \A j \in every : j \in places \/ priority < S!Priority(lines[j]),
         i \notin every, S!Priority(lines[i]) = priority
  PROVE  LeftOut(lines, b, every, i)
<1>1. \A j \in places : j \in taken \/ (j \in 1..Len(lines) /\ S!Priority(lines[j]) = priority)
  BY DEF PickedTo
<1>2. taken \subseteq places /\ i \notin places
  BY DEF PickedTo
<1>3. ~FitAt(lines, TakenUpTo(taken, places, i) \cup {i}, b)
  BY <1>2 DEF PickedTo
<1>4. ASSUME NEW j
      PROVE  (j \in every /\ S!Before(lines, j, i)) <=> (j \in places /\ (j \in taken \/ j < i))
  <2>1. CASE j \in taken
    <3>1. j \in every /\ j \in places
      BY <1>2, <2>1
    <3>2. S!Before(lines, j, i)
      BY <2>1 DEF S!Before
    <3> QED BY <2>1, <3>1, <3>2
  <2>2. CASE j \in places /\ j \notin taken
    <3>1. j \in every /\ S!Priority(lines[j]) = priority
      BY <1>1, <2>2
    <3>2. ~(S!Priority(lines[j]) < S!Priority(lines[i]))
      BY <3>1
    <3>3. S!Before(lines, j, i) <=> j < i
      BY <3>1, <3>2 DEF S!Before
    <3> QED BY <2>2, <3>1, <3>3
  <2>3. CASE j \in every /\ j \notin places
    <3>1. priority < S!Priority(lines[j])
      BY <2>3
    <3>2. S!Priority(lines[j]) \in 0..3
      BY PriorityIs
    <3>3. /\ ~(S!Priority(lines[j]) < S!Priority(lines[i]))
          /\ S!Priority(lines[j]) # S!Priority(lines[i])
      BY <3>1, <3>2
    <3>4. ~S!Before(lines, j, i)
      BY <3>3 DEF S!Before
    <3> QED BY <1>2, <2>3, <3>4
  <2>4. CASE j \notin every
    BY <1>2, <2>4
  <2> QED BY <2>1, <2>2, <2>3, <2>4
<1> DEFINE before == {j \in every : S!Before(lines, j, i)}
           first == TakenUpTo(taken, places, i)
<1>5. \A j : j \in before <=> j \in first
  BY <1>4, Zenon DEF TakenUpTo
<1> HIDE DEF before, first
<1>6. before = first
  BY <1>5
<1>7. ~FitAt(lines, before \cup {i}, b)
  BY <1>3, <1>6 DEF first
<1> QED BY <1>7 DEF before, LeftOut

LevelOf(lines, b, priority, taken, places) ==
    /\ PickedTo(lines, b, priority, taken, places, Len(lines))
    /\ places \in SUBSET (1..Len(lines)) /\ taken \subseteq places
    /\ \A j \in places : S!Priority(lines[j]) < priority + 1
    /\ \A j \in places : j \in taken \/ S!Priority(lines[j]) = priority
    /\ places = {} \/ FitAt(lines, places, b)

LEMMA LevelIs ==
  ASSUME NEW lines, Len(lines) \in Nat, NEW b, NEW priority \in 0..3,
         NEW taken \in SUBSET (1..Len(lines)),
         \A j \in taken : S!Priority(lines[j]) < priority,
         taken = {} \/ FitAt(lines, taken, b)
  PROVE  LevelOf(lines, b, priority, taken, S!Picked(lines, b, priority, taken))
<1> DEFINE places == S!Picked(lines, b, priority, taken)
<1>1. PickedTo(lines, b, priority, taken, places, Len(lines))
  BY PickedIs
<1> HIDE DEF places
<1>2. /\ places \in SUBSET (1..Len(lines)) /\ taken \subseteq places
       /\ \A j \in places : j \in taken \/ S!Priority(lines[j]) = priority
      /\ places = taken \/ FitAt(lines, places, b)
  BY <1>1 DEF PickedTo
<1>3. ASSUME NEW j \in places
      PROVE  S!Priority(lines[j]) < priority + 1
  <2>1. S!Priority(lines[j]) \in 0..3
    BY PriorityIs
  <2>2. CASE j \in taken
    <3>1. S!Priority(lines[j]) < priority
      BY <2>2
    <3> QED BY <2>1, <3>1
  <2>3. CASE S!Priority(lines[j]) = priority
    BY <2>3
  <2> QED BY <1>2, <2>2, <2>3
<1>4. places = {} \/ FitAt(lines, places, b)
  BY <1>2
<1>5. LevelOf(lines, b, priority, taken, places)
  BY <1>1, <1>2, <1>3, <1>4 DEF LevelOf
<1> QED BY <1>5 DEF places

(* What is selected fits and leaves nothing out that would.                *)
Full(lines, b, places) ==
    /\ places \in SUBSET (1..Len(lines))
    /\ places = {} \/ FitAt(lines, places, b)
    /\ S!LeavesNone(lines, places, b)

LEMMA SelectedIsFull ==
  ASSUME NEW lines \in Seq(S!Lines), NEW b
  PROVE  Full(lines, b, S!Selected(lines, b))
<1> DEFINE p0 == S!Picked(lines, b, 0, {})
           p1 == S!Picked(lines, b, 1, p0)
           p2 == S!Picked(lines, b, 2, p1)
           p3 == S!Picked(lines, b, 3, p2)
<1>1. Len(lines) \in Nat /\ DOMAIN lines = 1..Len(lines)
  OBVIOUS
<1>2. S!Selected(lines, b) = p3
  BY DEF S!Selected
<1>3. LevelOf(lines, b, 0, {}, p0)
  <2>1. {} \in SUBSET (1..Len(lines)) /\ 0 \in 0..3 /\ \A j \in {} : S!Priority(lines[j]) < 0
    OBVIOUS
  <2> QED BY <1>1, <2>1, LevelIs
<1> HIDE DEF p0
<1>40. /\ PickedTo(lines, b, 0, {}, p0, Len(lines))
       /\ p0 \in SUBSET (1..Len(lines)) /\ {} \subseteq p0
       /\ \A j \in p0 : S!Priority(lines[j]) < 1
       /\ \A j \in p0 : j \in {} \/ S!Priority(lines[j]) = 0
       /\ p0 = {} \/ FitAt(lines, p0, b)
  <2>1. 0 + 1 = 1
    OBVIOUS
  <2> QED BY <1>3, <2>1 DEF LevelOf
<1>4. LevelOf(lines, b, 1, p0, p1)
  <2>1. 1 \in 0..3
    OBVIOUS
  <2> QED BY <1>1, <1>40, <2>1, LevelIs
<1> HIDE DEF p1
<1>50. /\ PickedTo(lines, b, 1, p0, p1, Len(lines))
       /\ p1 \in SUBSET (1..Len(lines)) /\ p0 \subseteq p1
       /\ \A j \in p1 : S!Priority(lines[j]) < 2
       /\ \A j \in p1 : j \in p0 \/ S!Priority(lines[j]) = 1
       /\ p1 = {} \/ FitAt(lines, p1, b)
  <2>1. 1 + 1 = 2
    OBVIOUS
  <2> QED BY <1>4, <2>1 DEF LevelOf
<1>5. LevelOf(lines, b, 2, p1, p2)
  <2>1. 2 \in 0..3
    OBVIOUS
  <2> QED BY <1>1, <1>50, <2>1, LevelIs
<1> HIDE DEF p2
<1>60. /\ PickedTo(lines, b, 2, p1, p2, Len(lines))
       /\ p2 \in SUBSET (1..Len(lines)) /\ p1 \subseteq p2
       /\ \A j \in p2 : S!Priority(lines[j]) < 3
       /\ \A j \in p2 : j \in p1 \/ S!Priority(lines[j]) = 2
       /\ p2 = {} \/ FitAt(lines, p2, b)
  <2>1. 2 + 1 = 3
    OBVIOUS
  <2> QED BY <1>5, <2>1 DEF LevelOf
<1>6. LevelOf(lines, b, 3, p2, p3)
  <2>1. 3 \in 0..3
    OBVIOUS
  <2> QED BY <1>1, <1>60, <2>1, LevelIs
<1> HIDE DEF p3
<1>70. /\ PickedTo(lines, b, 3, p2, p3, Len(lines))
       /\ p3 \in SUBSET (1..Len(lines)) /\ p2 \subseteq p3
       /\ \A j \in p3 : S!Priority(lines[j]) < 4
       /\ \A j \in p3 : j \in p2 \/ S!Priority(lines[j]) = 3
       /\ p3 = {} \/ FitAt(lines, p3, b)
  <2>1. 3 + 1 = 4
    OBVIOUS
  <2> QED BY <1>6, <2>1 DEF LevelOf
<1>7. ASSUME NEW i \in 1..Len(lines), i \notin p3
      PROVE  LeftOut(lines, b, p3, i)
  <2>1. S!Priority(lines[i]) = 0 \/ S!Priority(lines[i]) = 1 \/ S!Priority(lines[i]) = 2
        \/ S!Priority(lines[i]) = 3
    BY DEF S!Priority
  <2>2. CASE S!Priority(lines[i]) = 0
    <3> DEFINE none == {}
    <3>1. 0 \in 0..3 /\ \A j \in none : S!Priority(lines[j]) < 0
      OBVIOUS
    <3>4. PickedTo(lines, b, 0, none, p0, Len(lines))
      BY <1>40
    <3> HIDE DEF none
    <3>2. p0 \subseteq p3 /\ p3 \subseteq 1..Len(lines)
      BY <1>50, <1>60, <1>70
    <3>3. \A j \in p3 : j \in p0 \/ 0 < S!Priority(lines[j])
      BY <1>50, <1>60, <1>70
    <3> QED BY <1>1, <1>7, <2>2, <3>1, <3>2, <3>3, <3>4, LevelIsFull
  <2>3. CASE S!Priority(lines[i]) = 1
    <3>2. p1 \subseteq p3 /\ p3 \subseteq 1..Len(lines) /\ 1 \in 0..3
      BY <1>60, <1>70
    <3>3. \A j \in p3 : j \in p1 \/ 1 < S!Priority(lines[j])
      BY <1>60, <1>70
    <3> QED BY <1>1, <1>40, <1>50, <1>7, <2>3, <3>2, <3>3, LevelIsFull
  <2>4. CASE S!Priority(lines[i]) = 2
    <3>2. p2 \subseteq p3 /\ p3 \subseteq 1..Len(lines) /\ 2 \in 0..3
      BY <1>70
    <3>3. \A j \in p3 : j \in p2 \/ 2 < S!Priority(lines[j])
      BY <1>70
    <3> QED BY <1>1, <1>50, <1>60, <1>7, <2>4, <3>2, <3>3, LevelIsFull
  <2>5. CASE S!Priority(lines[i]) = 3
    <3>2. p3 \subseteq p3 /\ p3 \subseteq 1..Len(lines) /\ 3 \in 0..3
      BY <1>70
    <3>3. \A j \in p3 : j \in p3 \/ 3 < S!Priority(lines[j])
      OBVIOUS
    <3> QED BY <1>1, <1>60, <1>70, <1>7, <2>5, <3>2, <3>3, LevelIsFull
  <2> QED BY <2>1, <2>2, <2>3, <2>4, <2>5
<1>8. S!LeavesNone(lines, p3, b)
  BY <1>1, <1>7 DEF S!LeavesNone, FitAt, LeftOut
<1>9. Full(lines, b, p3)
  BY <1>70, <1>8 DEF Full
<1> QED BY <1>2, <1>9

(* What fits as a whole is selected as a whole.                            *)
LEMMA AllIsSelected ==
  ASSUME NEW lines \in Seq(S!Lines), NEW b \in [chars : Nat, lines : Nat, lineChars : Nat],
         S!Fits(lines, b)
  PROVE  S!Selected(lines, b) = 1..Len(lines)
<1> DEFINE places == S!Selected(lines, b)
<1>1. Full(lines, b, places)
  BY SelectedIsFull
<1> HIDE DEF places
<1>2. ASSUME NEW i \in 1..Len(lines), i \notin places
      PROVE  FALSE
  <2> DEFINE few == {j \in places : S!Before(lines, j, i)} \cup {i}
  <2>1. ~S!Fits(S!At(lines, few), b)
    BY <1>1, <1>2 DEF Full, S!LeavesNone
  <2>2. \A n \in 1..Len(lines) : n \in few => n \in 1..Len(lines)
    OBVIOUS
  <2> HIDE DEF few
  <2>3. Less(S!At(lines, few), S!At(lines, 1..Len(lines)))
    BY <2>2, FewerIsLess
  <2>4. S!At(lines, 1..Len(lines)) = lines
    BY AtAll
  <2>5. S!At(lines, few) \in Seq(S!Lines)
    BY AtIsFrom DEF From
  <2> QED BY <2>1, <2>3, <2>4, <2>5, LessFits
<1>3. places \subseteq 1..Len(lines)
  BY <1>1 DEF Full
<1>4. places = 1..Len(lines)
  BY <1>2, <1>3
<1> QED BY <1>4 DEF places

(* If nothing is selected the first line is too long.                      *)
LEMMA NoneIsSelected ==
  ASSUME NEW lines \in Seq(S!Lines), NEW b \in [chars : Nat, lines : Nat, lineChars : Nat],
         lines # << >>, b.lines # 0, S!Selected(lines, b) = {}
  PROVE  1 \in 1..Len(lines) /\ lines[1] \in S!Lines /\ b.chars < lines[1].chars
<1>1. 1 \in 1..Len(lines) /\ DOMAIN lines = 1..Len(lines) /\ lines[1] \in S!Lines
  OBVIOUS
<1>2. Full(lines, b, {})
  BY SelectedIsFull
<1>3. {j \in {} : S!Before(lines, j, 1)} \cup {1} = {1}
  OBVIOUS
<1>4. ~S!Fits(S!At(lines, {1}), b)
  BY <1>1, <1>2, <1>3 DEF Full, S!LeavesNone
<1>5. ~S!Fits(<<lines[1]>>, b)
  BY <1>1, <1>4, AtFirst
<1>6. S!Total(<<lines[1]>>) = lines[1].chars /\ lines[1].chars \in Nat
  <2>1. << >> \in Seq(S!Lines) /\ Append(<< >>, lines[1]) = <<lines[1]>>
    OBVIOUS
  <2>2. lines[1].chars \in Nat
    BY <1>1 DEF S!Lines
  <2>3. S!Total(<<lines[1]>>) = 0 + lines[1].chars
    BY <1>1, <2>1, TotalMore, TotalNone
  <2> QED BY <2>2, <2>3
<1>7. Len(<<lines[1]>>) = 1 /\ <<lines[1]>> # << >>
  OBVIOUS
<1>8. S!Chars(<<lines[1]>>) = lines[1].chars
  BY <1>6, <1>7 DEF S!Chars
<1>9. b.lines \in Nat /\ b.chars \in Nat
  OBVIOUS
<1> QED BY <1>1, <1>5, <1>6, <1>7, <1>8, <1>9 DEF S!Fits

-----------------------------------------------------------------------------
(* What is left of a text *)

BudgetRec == [chars : Nat, lines : Nat, lineChars : Nat]

LEMMA CutIs ==
  ASSUME NEW x \in S!Lines, NEW max \in Nat
  PROVE  /\ S!Cut(x, max) \in S!Lines /\ S!Cut(x, max).chars \in Nat
         /\ max # 0 => S!Cut(x, max).chars <= max
         /\ max = 0 \/ x.chars <= max => S!Cut(x, max) = x
         /\ max # 0 /\ max < x.chars => S!Cut(x, max).chars = max
<1>1. x.chars \in Nat /\ x.mark \in {"core", "detail", "other"}
  BY DEF S!Lines
<1>2. CASE max = 0 \/ x.chars <= max
  <2>1. S!Cut(x, max) = x
    BY <1>2 DEF S!Cut
  <2>2. max # 0 => x.chars <= max
    BY <1>2
  <2>3. ~(max # 0 /\ max < x.chars)
    BY <1>1, <1>2
  <2> QED BY <1>1, <2>1, <2>2, <2>3
<1>3. CASE ~(max = 0 \/ x.chars <= max)
  <2> DEFINE c == S!Line(x.begins, "cut", max, x.mark, FALSE)
  <2>1. S!Cut(x, max) = c
    BY <1>3 DEF S!Cut
  <2>2. x.begins \in {l.begins : l \in Details} \cup {"omitted"}
    BY DEF S!Lines
  <2>3. c \in S!Lines
    BY <1>1, <2>2 DEF S!Line, S!Lines
  <2>4. c.chars = max
    BY DEF S!Line
  <2>5. max <= max
    OBVIOUS
  <2> HIDE DEF c
  <2> QED BY <1>3, <2>1, <2>3, <2>4, <2>5
<1> QED BY <1>2, <1>3

LEMMA SameTurned ==
  ASSUME NEW x, NEW y, S!Same(x, y)
  PROVE  S!Same(y, x)
BY DEF S!Same

Bounded(lines, max) == \A i \in 1..Len(lines) : max # 0 => lines[i].chars <= max
Neat(w, max) == w \in Seq(S!Lines) /\ Apart(w) /\ Bounded(w, max)

AllCut(lines, max) == [i \in DOMAIN lines |-> S!Cut(lines[i], max)]
Firsts(w) == {i \in DOMAIN w : \A j \in 1..(i - 1) : ~S!Same(w[j], w[i])}

LEMMA AllCutIs ==
  ASSUME NEW lines \in Seq(S!Lines), NEW max \in Nat
  PROVE  /\ AllCut(lines, max) \in Seq(S!Lines) /\ Len(AllCut(lines, max)) = Len(lines)
         /\ \A i \in 1..Len(lines) : AllCut(lines, max)[i] = S!Cut(lines[i], max)
<1> DEFINE c == AllCut(lines, max)
<1>1. Len(lines) \in Nat /\ DOMAIN lines = 1..Len(lines) /\ \A i \in 1..Len(lines) : lines[i] \in S!Lines
  OBVIOUS
<1>2. \A i \in 1..Len(lines) : S!Cut(lines[i], max) \in S!Lines
  BY <1>1, CutIs
<1>3. c = [i \in 1..Len(lines) |-> S!Cut(lines[i], max)]
  BY <1>1 DEF AllCut
<1> HIDE DEF c
<1>4. c \in [1..Len(lines) -> S!Lines]
  BY <1>2, <1>3
<1>5. c \in Seq(S!Lines) /\ Len(c) = Len(lines)
  BY <1>1, <1>4, AFunctionIsASeq
<1>6. \A i \in 1..Len(lines) : c[i] = S!Cut(lines[i], max)
  BY <1>3
<1> QED BY <1>5, <1>6 DEF c

LEMMA FirstsAreApart ==
  ASSUME NEW w \in Seq(S!Lines)
  PROVE  ApartAt(w, Firsts(w))
<1> SUFFICES ASSUME NEW j \in 1..Len(w), NEW k \in 1..Len(w), j \in Firsts(w), k \in Firsts(w), j # k
             PROVE  ~S!Same(w[j], w[k])
  BY DEF ApartAt
<1>1. Len(w) \in Nat
  OBVIOUS
<1>2. CASE j < k
  <2>1. j \in 1..(k - 1)
    BY <1>1, <1>2
  <2> QED BY <2>1 DEF Firsts
<1>3. CASE k < j
  <2>1. k \in 1..(j - 1)
    BY <1>1, <1>3
  <2>2. ~S!Same(w[k], w[j])
    BY <2>1 DEF Firsts
  <2> QED BY <2>2, SameTurned
<1>4. j < k \/ k < j
  BY <1>1
<1> QED BY <1>2, <1>3, <1>4

LEMMA NormalizedIs ==
  ASSUME NEW lines \in Seq(S!Lines), NEW max \in Nat
  PROVE  Neat(S!Normalized(lines, max), max) /\ Len(S!Normalized(lines, max)) <= Len(lines)
<1> DEFINE c == AllCut(lines, max)
           w == S!Normalized(lines, max)
<1>1. w = S!At(c, Firsts(c))
  BY DEF S!Normalized, AllCut, Firsts
<1>2. /\ c \in Seq(S!Lines) /\ Len(c) = Len(lines)
      /\ \A i \in 1..Len(lines) : c[i] = S!Cut(lines[i], max)
  BY AllCutIs
<1> HIDE DEF c, w
<1>3. From(w, c, Firsts(c), Len(c))
  BY <1>1, <1>2, AtIsFrom
<1>4. w \in Seq(S!Lines) /\ Apart(w) /\ Len(w) <= Len(lines)
  BY <1>2, <1>3, FirstsAreApart DEF From
<1>5. ASSUME NEW m \in 1..Len(w), max # 0
      PROVE  w[m].chars <= max
  <2>1. PICK i \in 1..Len(c) : w[m] = c[i]
    BY <1>3 DEF From, OfPlace
  <2>2. i \in 1..Len(lines) /\ lines[i] \in S!Lines
    BY <1>2
  <2>3. w[m] = S!Cut(lines[i], max)
    BY <1>2, <2>1, <2>2
  <2> QED BY <1>5, <2>2, <2>3, CutIs
<1>6. Bounded(w, max)
  BY <1>5 DEF Bounded
<1>7. Neat(w, max) /\ Len(w) <= Len(lines)
  BY <1>4, <1>6 DEF Neat
<1> QED BY <1>7 DEF w

(* A neat text is left as it is.                                           *)
LEMMA NeatStays ==
  ASSUME NEW lines, NEW max \in Nat, Neat(lines, max)
  PROVE  S!Normalized(lines, max) = lines
<1> DEFINE c == AllCut(lines, max)
<1>1. S!Normalized(lines, max) = S!At(c, Firsts(c))
  BY DEF S!Normalized, AllCut, Firsts
<1>2. lines \in Seq(S!Lines) /\ Apart(lines) /\ Bounded(lines, max)
  BY DEF Neat
<1>3. /\ c \in Seq(S!Lines) /\ Len(c) = Len(lines)
      /\ \A i \in 1..Len(lines) : c[i] = S!Cut(lines[i], max)
  BY <1>2, AllCutIs
<1> HIDE DEF c
<1>4. ASSUME NEW i \in 1..Len(lines)
      PROVE  c[i] = lines[i]
  <2>1. lines[i] \in S!Lines
    BY <1>2
  <2>2. max = 0 \/ lines[i].chars <= max
    BY <1>2 DEF Bounded
  <2> QED BY <1>3, <2>1, <2>2, CutIs
<1>5. c = lines
  BY <1>2, <1>3, <1>4
<1>6. ASSUME NEW i \in 1..Len(lines)
      PROVE  i \in Firsts(lines)
  <2>1. i \in DOMAIN lines /\ Len(lines) \in Nat
    BY <1>2
  <2>2. \A j \in 1..(i - 1) : j \in 1..Len(lines) /\ j # i
    BY <2>1
  <2> QED BY <1>2, <2>1, <2>2 DEF Firsts, Apart
<1> QED BY <1>1, <1>2, <1>5, <1>6, AtAll

LEMMA OneLine ==
  ASSUME NEW x \in S!Lines, NEW max \in Nat, max # 0 => x.chars <= max
  PROVE  /\ Neat(<<x>>, max) /\ Len(<<x>>) = 1 /\ <<x>>[1] = x /\ <<x>> # << >>
         /\ S!Chars(<<x>>) = x.chars /\ S!Total(<<x>>) = x.chars
<1>1. /\ <<x>> \in Seq(S!Lines) /\ Len(<<x>>) = 1 /\ <<x>>[1] = x /\ <<x>> # << >>
      /\ << >> \in Seq(S!Lines) /\ Append(<< >>, x) = <<x>>
      /\ \A i \in 1..1 : i = 1
  OBVIOUS
<1>2. x.chars \in Nat
  BY DEF S!Lines
<1>3. Apart(<<x>>)
  BY <1>1 DEF Apart
<1>4. Bounded(<<x>>, max)
  BY <1>1 DEF Bounded
<1>5. S!Total(<<x>>) = 0 + x.chars
  BY <1>1, TotalMore, TotalNone
<1>6. S!Total(<<x>>) = x.chars
  BY <1>2, <1>5
<1>7. S!Chars(<<x>>) = x.chars
  BY <1>1, <1>2, <1>6 DEF S!Chars
<1> QED BY <1>1, <1>3, <1>4, <1>6, <1>7 DEF Neat

(* What is kept fits, and is neat; the beginning of a line that is too     *)
(* long takes all of the budget.                                           *)
Filled(w, b) == Len(w) = 1 /\ S!Total(w) = b.chars
KeptOf(w, lines, b) ==
    /\ Neat(w, b.lineChars) /\ S!Fits(w, b) /\ Len(w) <= Len(lines)
    /\ \/ Filled(w, b)
       \/ \A m \in 1..Len(w) : \E i \in 1..Len(lines) : w[m] = lines[i]

LEMMA KeptIs ==
  ASSUME NEW b \in BudgetRec, NEW lines, Neat(lines, b.lineChars), lines # << >>,
         b.chars # 0, b.lines # 0
  PROVE  KeptOf(S!Kept(lines, b), lines, b)
<1> DEFINE selected == S!Selected(lines, b)
<1>1. lines \in Seq(S!Lines) /\ Apart(lines) /\ Bounded(lines, b.lineChars)
  BY DEF Neat
<1>2. b.chars \in Nat /\ b.lines \in Nat /\ b.lineChars \in Nat
  BY DEF BudgetRec
<1>3. S!Kept(lines, b) = IF selected = {} THEN <<S!Cut(lines[1], b.chars)>> ELSE S!At(lines, selected)
  BY DEF S!Kept
<1>4. Full(lines, b, selected)
  BY <1>1, SelectedIsFull
<1>5. Len(lines) \in Nat /\ Len(lines) # 0
  BY <1>1
<1>6. CASE selected = {}
  <2> DEFINE x == S!Cut(lines[1], b.chars)
  <2>1. 1 \in 1..Len(lines) /\ lines[1] \in S!Lines /\ b.chars < lines[1].chars
    BY <1>1, <1>6, NoneIsSelected DEF BudgetRec
  <2>2. x \in S!Lines /\ x.chars \in Nat /\ x.chars = b.chars
    BY <1>2, <2>1, CutIs
  <2>3. lines[1].chars \in Nat
    BY <2>1 DEF S!Lines
  <2>4. b.lineChars # 0 => lines[1].chars <= b.lineChars
    BY <1>1, <2>1 DEF Bounded
  <2>5. b.lineChars # 0 => x.chars <= b.lineChars
    BY <1>2, <2>1, <2>2, <2>3, <2>4
  <2>6. S!Kept(lines, b) = <<x>>
    BY <1>3, <1>6
  <2> HIDE DEF x
  <2>7. /\ Neat(<<x>>, b.lineChars) /\ Len(<<x>>) = 1
        /\ S!Chars(<<x>>) = x.chars /\ S!Total(<<x>>) = x.chars
    BY <1>2, <2>2, <2>5, OneLine
  <2>8. S!Fits(<<x>>, b)
    BY <1>2, <2>2, <2>7 DEF S!Fits
  <2>9. Len(<<x>>) <= Len(lines)
    BY <1>5, <2>7
  <2>10. Filled(<<x>>, b)
    BY <2>2, <2>7 DEF Filled
  <2> QED BY <2>6, <2>7, <2>8, <2>9, <2>10 DEF KeptOf
<1>7. CASE selected # {}
  <2> DEFINE w == S!At(lines, selected)
  <2>1. S!Kept(lines, b) = w
    BY <1>3, <1>7
  <2>2. S!Fits(w, b)
    BY <1>4, <1>7 DEF Full, FitAt
  <2> HIDE DEF selected
  <2>3. From(w, lines, selected, Len(lines))
    BY <1>1, AtIsFrom
  <2> HIDE DEF w
  <2>4. ApartAt(lines, selected)
    BY <1>1 DEF Apart, ApartAt
  <2>5. \A m \in 1..Len(w) : \E i \in 1..Len(lines) : w[m] = lines[i]
    BY <2>3 DEF From, OfPlace
  <2>6. w \in Seq(S!Lines) /\ Apart(w) /\ Len(w) <= Len(lines)
    BY <2>3, <2>4 DEF From
  <2>7. Bounded(w, b.lineChars)
    BY <1>1, <2>5 DEF Bounded
  <2> QED BY <2>1, <2>2, <2>5, <2>6, <2>7 DEF KeptOf, Neat
<1> QED BY <1>6, <1>7

LEMMA NoticeIs ==
  ASSUME NoticeChars \in Nat, NEW n \in Nat
  PROVE  S!Notice(n) \in S!Lines /\ S!Notice(n).chars = NoticeChars
<1>1. n \in Int /\ "omitted" \in {l.begins : l \in Details} \cup {"omitted"}
  OBVIOUS
<1>2. n \in {l.rest : l \in Details} \cup {"cut"} \cup Int
  BY <1>1
<1> QED BY <1>1, <1>2 DEF S!Notice, S!Line, S!Lines

LEMMA FilledIsFull ==
  ASSUME NoticeChars \in Nat, NEW n \in Nat, NEW b \in BudgetRec,
         NEW w \in Seq(S!Lines), Filled(w, b)
  PROVE  ~S!Fits(Append(w, S!Notice(n)), b)
<1> DEFINE v == Append(w, S!Notice(n))
<1>1. S!Notice(n) \in S!Lines /\ S!Notice(n).chars = NoticeChars
  BY NoticeIs
<1>2. Len(v) = Len(w) + 1 /\ v \in Seq(S!Lines)
  BY <1>1, PutBehind
<1>3. S!Total(v) = S!Total(w) + NoticeChars
  BY <1>1, TotalMore
<1>4. Len(w) = 1 /\ S!Total(w) = b.chars /\ b.chars \in Nat
  BY DEF Filled, BudgetRec
<1> HIDE DEF v
<1>5. v # << >> /\ Len(v) = 2
  <2>1. Len(v) = 2
    BY <1>2, <1>4
  <2>2. v = << >> <=> Len(v) = 0
    BY <1>2
  <2>3. ~(Len(v) = 0)
    BY <2>1
  <2> QED BY <2>1, <2>2, <2>3, Zenon
<1>6. S!Chars(v) = b.chars + NoticeChars + 1
  BY <1>3, <1>4, <1>5 DEF S!Chars
<1>7. ~(S!Chars(v) <= b.chars)
  BY <1>4, <1>6
<1>8. ~S!Fits(v, b)
  BY <1>7 DEF S!Fits
<1> QED BY <1>8 DEF v

NoticedOf(r, w, n, b) ==
    /\ r \in Seq(S!Lines) /\ S!Fits(r, b)
    /\ \/ r = w
       \/ /\ n > 0 /\ r = Append(w, S!Notice(n)) /\ ~Filled(w, b)
          /\ Len(r) = Len(w) + 1 /\ r[Len(r)] = S!Notice(n)

LEMMA NoticedIs ==
  ASSUME NoticeChars \in Nat, NEW n \in Nat, NEW b \in BudgetRec,
         NEW w \in Seq(S!Lines), S!Fits(w, b)
  PROVE  NoticedOf(S!Noticed(w, n, b), w, n, b)
<1>1. CASE n > 0 /\ S!Fits(Append(w, S!Notice(n)), b)
  <2>1. S!Noticed(w, n, b) = Append(w, S!Notice(n))
    BY <1>1 DEF S!Noticed
  <2>2. S!Notice(n) \in S!Lines
    BY NoticeIs
  <2>3. /\ Append(w, S!Notice(n)) \in Seq(S!Lines)
        /\ Len(Append(w, S!Notice(n))) = Len(w) + 1
        /\ Append(w, S!Notice(n))[Len(w) + 1] = S!Notice(n)
    BY <2>2, PutBehind
  <2>4. ~Filled(w, b)
    BY <1>1, FilledIsFull
  <2> QED BY <1>1, <2>1, <2>3, <2>4 DEF NoticedOf
<1>2. CASE ~(n > 0 /\ S!Fits(Append(w, S!Notice(n)), b))
  BY <1>2 DEF S!Noticed, NoticedOf
<1> QED BY <1>1, <1>2

(* What compressing a text comes to.                                       *)
Void(whole, b) == whole = << >> \/ b.chars = 0 \/ b.lines = 0

LEMMA CompressedVoid ==
  ASSUME NEW lines, NEW b, Void(S!Normalized(lines, b.lineChars), b)
  PROVE  LET whole == S!Normalized(lines, b.lineChars) IN
         S!Compressed(lines, b) = S!Result(<< >>, Len(whole), Len(lines) - Len(whole))
BY DEF S!Compressed, Void

LEMMA CompressedFull ==
  ASSUME NEW lines, NEW b, ~Void(S!Normalized(lines, b.lineChars), b)
  PROVE  LET whole == S!Normalized(lines, b.lineChars)
             w == S!Kept(whole, b)
             n == Len(whole) - Len(w)
         IN  S!Compressed(lines, b) = S!Result(S!Noticed(w, n, b), n, Len(lines) - Len(whole))
BY DEF S!Compressed, Void

CompressedOf(c, whole, lines, b, w, n) ==
    /\ w \in Seq(S!Lines) /\ n \in Nat /\ n = Len(whole) - Len(w)
    /\ KeptOf(w, whole, b)
    /\ c.omitted = n /\ c.duplicates = Len(lines) - Len(whole)
    /\ NoticedOf(c.lines, w, n, b)

LEMMA CompressedIs ==
  ASSUME NoticeChars \in Nat, NEW b \in BudgetRec, NEW lines \in Seq(S!Lines),
         ~Void(S!Normalized(lines, b.lineChars), b)
  PROVE  \E w, n : CompressedOf(S!Compressed(lines, b), S!Normalized(lines, b.lineChars), lines, b, w, n)
<1> DEFINE whole == S!Normalized(lines, b.lineChars)
           w == S!Kept(whole, b)
           n == Len(whole) - Len(w)
           c == S!Compressed(lines, b)
<1>1. c = S!Result(S!Noticed(w, n, b), n, Len(lines) - Len(whole))
  BY CompressedFull
<1>2. Neat(whole, b.lineChars)
  BY NormalizedIs DEF BudgetRec
<1>3. whole # << >> /\ b.chars # 0 /\ b.lines # 0
  BY DEF Void
<1> HIDE DEF whole
<1>4. KeptOf(w, whole, b)
  BY <1>2, <1>3, KeptIs
<1> HIDE DEF w
<1>5. w \in Seq(S!Lines) /\ S!Fits(w, b) /\ Len(w) <= Len(whole)
  BY <1>4 DEF KeptOf, Neat
<1>6. whole \in Seq(S!Lines)
  BY <1>2 DEF Neat
<1>7. n \in Nat
  BY <1>5, <1>6
<1>8. n = Len(whole) - Len(w)
  OBVIOUS
<1> HIDE DEF n, c
<1>9. NoticedOf(S!Noticed(w, n, b), w, n, b)
  BY <1>5, <1>7, NoticedIs
<1>10. c.omitted = n /\ c.duplicates = Len(lines) - Len(whole) /\ c.lines = S!Noticed(w, n, b)
  BY <1>1 DEF S!Result
<1>11. CompressedOf(c, whole, lines, b, w, n)
  BY <1>4, <1>5, <1>7, <1>8, <1>9, <1>10 DEF CompressedOf
<1>12. \E y, m : CompressedOf(c, whole, lines, b, y, m)
  BY <1>11
<1> QED BY <1>12 DEF c, whole

LEMMA SummaryAccounts ==
  ASSUME NoticeChars \in Nat, NEW b \in BudgetRec, NEW lines \in Seq(S!Lines)
  PROVE  S!Accounts(S!Compressed(lines, b), lines, b)
<1> DEFINE whole == S!Normalized(lines, b.lineChars)
           c == S!Compressed(lines, b)
<1>1. whole \in Seq(S!Lines) /\ Len(lines) \in Nat
  BY NormalizedIs DEF BudgetRec, Neat
<1>2. CASE Void(whole, b)
  <2>1. c = S!Result(<< >>, Len(whole), Len(lines) - Len(whole))
    BY <1>2, CompressedVoid
  <2> HIDE DEF whole, c
  <2>2. c.lines = << >> /\ c.omitted = Len(whole) /\ c.duplicates = Len(lines) - Len(whole)
    BY <2>1 DEF S!Result
  <2>3. Len(c.lines) = 0 /\ Len(whole) \in Nat
    BY <1>1, <2>2
  <2>4. Len(c.lines) + c.omitted + c.duplicates = Len(lines)
    BY <1>1, <2>2, <2>3
  <2>5. S!Accounts(c, lines, b)
    BY <2>2, <2>4 DEF S!Accounts
  <2> QED BY <2>5 DEF c
<1>3. CASE ~Void(whole, b)
  <2>1. PICK w, n : CompressedOf(c, whole, lines, b, w, n)
    BY <1>3, CompressedIs
  <2> HIDE DEF whole, c
  <2>2. /\ w \in Seq(S!Lines) /\ n \in Nat /\ n = Len(whole) - Len(w)
        /\ c.omitted = n /\ c.duplicates = Len(lines) - Len(whole)
        /\ NoticedOf(c.lines, w, n, b)
    BY <2>1 DEF CompressedOf
  <2>3. Len(w) \in Nat /\ Len(whole) \in Nat
    BY <1>1, <2>2
  <2>4. S!Fits(c.lines, b)
    BY <2>2 DEF NoticedOf
  <2>5. CASE c.lines = w
    <3>1. Len(c.lines) = Len(w)
      BY <2>5
    <3>2. Len(c.lines) + c.omitted + c.duplicates = Len(lines)
      BY <1>1, <2>2, <2>3, <3>1
    <3>3. S!Accounts(c, lines, b)
      BY <2>4, <3>2 DEF S!Accounts
    <3> QED BY <3>3 DEF c
  <2>6. CASE c.lines # w
    <3>1. /\ n > 0 /\ Len(c.lines) = Len(w) + 1
          /\ c.lines[Len(c.lines)] = S!Notice(n)
      BY <2>2, <2>6 DEF NoticedOf
    <3>2. Len(c.lines) + c.omitted + c.duplicates = Len(lines) + 1
      BY <1>1, <2>2, <2>3, <3>1
    <3>3. S!Accounts(c, lines, b)
      BY <2>2, <2>4, <3>1, <3>2 DEF S!Accounts
    <3> QED BY <3>3 DEF c
  <2> QED BY <2>5, <2>6
<1> QED BY <1>2, <1>3

LEMMA NothingWasted ==
  ASSUME NEW b \in BudgetRec, NEW lines \in Seq(S!Lines)
  PROVE  LET whole == S!Normalized(lines, b.lineChars)
         IN  S!LeavesNone(whole, S!Selected(whole, b), b)
<1> DEFINE whole == S!Normalized(lines, b.lineChars)
<1>1. whole \in Seq(S!Lines)
  BY NormalizedIs DEF BudgetRec, Neat
<1> HIDE DEF whole
<1>2. S!LeavesNone(whole, S!Selected(whole, b), b)
  BY <1>1, SelectedIsFull DEF Full
<1> QED BY <1>2 DEF whole

(* What fits and is neat is compressed to itself.                          *)
LEMMA CompressedToItself ==
  ASSUME NEW b \in BudgetRec, NEW lines, Neat(lines, b.lineChars), S!Fits(lines, b),
         b.chars # 0, b.lines # 0
  PROVE  S!Compressed(lines, b).lines = lines
<1>1. b.lineChars \in Nat /\ lines \in Seq(S!Lines)
  BY DEF BudgetRec, Neat
<1>2. S!Normalized(lines, b.lineChars) = lines
  BY <1>1, NeatStays
<1>3. CASE lines = << >>
  <2>1. Void(S!Normalized(lines, b.lineChars), b)
    BY <1>2, <1>3 DEF Void
  <2>2. S!Compressed(lines, b) = S!Result(<< >>, Len(lines), Len(lines) - Len(lines))
    BY <1>2, <2>1, CompressedVoid
  <2> QED BY <1>3, <2>2 DEF S!Result
<1>4. CASE lines # << >>
  <2>1. ~Void(S!Normalized(lines, b.lineChars), b)
    BY <1>2, <1>4 DEF Void
  <2>2. S!Selected(lines, b) = 1..Len(lines)
    BY <1>1, AllIsSelected DEF BudgetRec
  <2>3. 1 \in 1..Len(lines)
    BY <1>1, <1>4
  <2>4. S!At(lines, 1..Len(lines)) = lines
    BY <1>1, AtAll
  <2>5. S!Kept(lines, b) = lines
    BY <2>2, <2>3, <2>4 DEF S!Kept
  <2>6. Len(lines) - Len(lines) = 0
    BY <1>1
  <2>7. S!Compressed(lines, b) = S!Result(S!Noticed(lines, 0, b), 0, 0)
    BY <1>2, <2>1, <2>5, <2>6, CompressedFull
  <2>8. S!Noticed(lines, 0, b) = lines
    BY DEF S!Noticed
  <2> QED BY <2>7, <2>8 DEF S!Result
<1> QED BY <1>3, <1>4

OnceIsEnough(lines, b) ==
    LET whole == S!Normalized(lines, b.lineChars)
        once == S!Compressed(lines, b)
    IN  /\ b.lineChars = 0 \/ NoticeChars <= b.lineChars
        /\ \A i \in DOMAIN whole : ~S!Same(whole[i], S!Notice(once.omitted))
        => S!Compressed(once.lines, b).lines = once.lines

(* With a notice a text stays neat, if the notice is not cut and is not    *)
(* there already.                                                          *)
LEMMA NeatWithNotice ==
  ASSUME NEW b \in BudgetRec, NEW w, Neat(w, b.lineChars), NEW x \in S!Lines,
         b.lineChars # 0 => x.chars <= b.lineChars,
         \A m \in 1..Len(w) : ~S!Same(w[m], x)
  PROVE  Neat(Append(w, x), b.lineChars)
<1> DEFINE v == Append(w, x)
<1>1. w \in Seq(S!Lines) /\ Len(w) \in Nat
  BY DEF Neat
<1>2. /\ v \in Seq(S!Lines) /\ Len(v) = Len(w) + 1
      /\ \A j \in 1..Len(w) : v[j] = w[j]
      /\ v[Len(w) + 1] = x
  BY <1>1, PutBehind
<1> HIDE DEF v
<1>3. \A m \in 1..Len(v) : m \in 1..Len(w) \/ m = Len(w) + 1
  BY <1>1, <1>2
<1>4. ASSUME NEW j \in 1..Len(v), NEW k \in 1..Len(v), j # k
      PROVE  ~S!Same(v[j], v[k])
  <2>1. CASE j = Len(w) + 1
    <3>1. k \in 1..Len(w)
      BY <1>3, <1>4, <2>1
    <3> QED BY <1>2, <2>1, <3>1, SameTurned
  <2>2. CASE k = Len(w) + 1
    <3>1. j \in 1..Len(w)
      BY <1>3, <1>4, <2>2
    <3> QED BY <1>2, <2>2, <3>1
  <2>3. CASE j \in 1..Len(w) /\ k \in 1..Len(w)
    BY <1>2, <1>4, <2>3 DEF Neat, Apart
  <2> QED BY <1>3, <2>1, <2>2, <2>3
<1>5. ASSUME NEW j \in 1..Len(v), b.lineChars # 0
      PROVE  v[j].chars <= b.lineChars
  <2>1. CASE j = Len(w) + 1
    BY <1>2, <1>5, <2>1
  <2>2. CASE j \in 1..Len(w)
    BY <1>2, <1>5, <2>2 DEF Neat, Bounded
  <2> QED BY <1>3, <2>1, <2>2
<1>6. Neat(v, b.lineChars)
  BY <1>2, <1>4, <1>5 DEF Neat, Apart, Bounded
<1> QED BY <1>6 DEF v

LEMMA OnceIs ==
  ASSUME NoticeChars \in Nat, NEW b \in BudgetRec, NEW lines \in Seq(S!Lines)
  PROVE  OnceIsEnough(lines, b)
<1> DEFINE whole == S!Normalized(lines, b.lineChars)
           once == S!Compressed(lines, b)
<1>1. whole \in Seq(S!Lines) /\ b.lineChars \in Nat
  BY NormalizedIs DEF BudgetRec, Neat
<1> SUFFICES ASSUME b.lineChars = 0 \/ NoticeChars <= b.lineChars,
                    \A i \in DOMAIN whole : ~S!Same(whole[i], S!Notice(once.omitted))
             PROVE  S!Compressed(once.lines, b).lines = once.lines
  BY DEF OnceIsEnough
<1>2. CASE Void(whole, b)
  <2>1. once.lines = << >>
    BY <1>2, CompressedVoid DEF S!Result
  <2> HIDE DEF whole, once
  <2>2. << >> \in Seq(S!Lines)
    OBVIOUS
  <2>3. Len(S!Normalized(<< >>, b.lineChars)) <= 0 /\ S!Normalized(<< >>, b.lineChars) \in Seq(S!Lines)
    BY <1>1, <2>2, NormalizedIs DEF Neat
  <2>4. S!Normalized(<< >>, b.lineChars) = << >>
    BY <2>3
  <2>5. S!Compressed(<< >>, b).lines = << >>
    BY <2>4, CompressedVoid DEF Void, S!Result
  <2> QED BY <2>1, <2>5
<1>3. CASE ~Void(whole, b)
  <2>1. PICK w, n : CompressedOf(once, whole, lines, b, w, n)
    BY <1>3, CompressedIs
  <2> HIDE DEF whole, once
  <2>2. b.chars # 0 /\ b.lines # 0
    BY <1>3 DEF Void
  <2>3. /\ KeptOf(w, whole, b) /\ n \in Nat /\ once.omitted = n
        /\ NoticedOf(once.lines, w, n, b)
    BY <2>1 DEF CompressedOf
  <2>4. Neat(w, b.lineChars) /\ S!Fits(w, b)
    BY <2>3 DEF KeptOf
  <2>5. CASE once.lines = w
    BY <2>2, <2>4, <2>5, CompressedToItself
  <2>6. CASE once.lines # w
    <3>1. once.lines = Append(w, S!Notice(n)) /\ ~Filled(w, b) /\ S!Fits(once.lines, b)
      BY <2>3, <2>6 DEF NoticedOf
    <3>2. \A m \in 1..Len(w) : \E i \in 1..Len(whole) : w[m] = whole[i]
      BY <2>3, <3>1 DEF KeptOf
    <3>3. DOMAIN whole = 1..Len(whole)
      BY <1>1
    <3>4. \A m \in 1..Len(w) : ~S!Same(w[m], S!Notice(n))
      BY <2>3, <3>2, <3>3
    <3>5. S!Notice(n) \in S!Lines /\ S!Notice(n).chars = NoticeChars
      BY <2>3, NoticeIs
    <3>6. Neat(once.lines, b.lineChars)
      BY <2>4, <3>1, <3>4, <3>5, NeatWithNotice
    <3> QED BY <2>2, <3>1, <3>6, CompressedToItself
  <2> QED BY <2>5, <2>6
<1> QED BY <1>2, <1>3

-----------------------------------------------------------------------------
(* The invariant: a text is one of lines, which a step leaves.             *)

SummaryInv == text \in Seq(S!Lines) /\ budget \in BudgetRec

LEMMA SummaryStarts == S!Init => SummaryInv
BY LinesAssumption DEF S!Init, S!SizesFit, SummaryInv, BudgetRec

LEMMA SummarySteps ==
  ASSUME SummaryInv, [S!Next]_<<text, budget>>
  PROVE  SummaryInv'
<1>0. /\ text \in Seq(S!Lines) /\ budget \in BudgetRec /\ NoticeChars \in Nat
      /\ Details \subseteq S!Lines
  BY LinesAssumption DEF SummaryInv, S!SizesFit
<1>1. CASE \E x \in Details : S!Add(x)
  BY <1>0, <1>1 DEF S!Add, SummaryInv
<1>2. CASE S!Compress
  <2>1. text' = S!Compressed(text, budget).lines /\ budget' = budget
    BY <1>2 DEF S!Compress
  <2>2. S!Compressed(text, budget).lines \in Seq(S!Lines)
    <3>1. CASE Void(S!Normalized(text, budget.lineChars), budget)
      <4>1. S!Compressed(text, budget).lines = << >>
        BY <3>1, CompressedVoid DEF S!Result
      <4> QED BY <4>1
    <3>2. CASE ~Void(S!Normalized(text, budget.lineChars), budget)
      BY <1>0, <3>2, CompressedIs DEF CompressedOf, NoticedOf
    <3> QED BY <3>1, <3>2
  <2> QED BY <1>0, <2>1, <2>2 DEF SummaryInv
<1>3. CASE UNCHANGED <<text, budget>>
  BY <1>0, <1>3 DEF SummaryInv
<1> QED BY <1>1, <1>2, <1>3 DEF S!Next

LEMMA SummaryHolds ==
  ASSUME SummaryInv
  PROVE  SummariesFit
<1>0. text \in Seq(S!Lines) /\ budget \in BudgetRec /\ NoticeChars \in Nat
  BY LinesAssumption DEF SummaryInv, S!SizesFit
<1>1. S!WithinBudget
  BY <1>0, SummaryAccounts DEF S!WithinBudget
<1>2. S!NothingIsWasted
  BY <1>0, NothingWasted DEF S!NothingIsWasted
<1>3. S!CompressedOnce
  BY <1>0, OnceIs DEF S!CompressedOnce, OnceIsEnough
<1> QED BY <1>1, <1>2, <1>3 DEF SummariesFit

(* What is left of an agent's detail fits its budget and counts with what  *)
(* is missing to what there was; nothing is left out that would have       *)
(* fitted; and compressing it again changes nothing.                       *)
THEOREM SummarySafety == FilesSpec => []SummariesFit
<1>1. S!Spec => []SummaryInv
  BY SummaryStarts, SummarySteps, PTL DEF S!Spec
<1>2. SummaryInv => SummariesFit
  BY SummaryHolds
<1> QED BY WorkspaceParts, <1>1, <1>2, PTL
=============================================================================
