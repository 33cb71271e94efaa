-------------------------------- MODULE Repl --------------------------------
(***************************************************************************)
(* The line REPL (rusty-claude-cli/src/main.rs, LiveCli and run_repl): a   *)
(* runtime that is built anew for every turn and for most commands, the    *)
(* plugins that a build initialises and that are shut down with the        *)
(* runtime before, and the session files.  An error of a turn or of a      *)
(* command ends the REPL and drops what there is.                          *)
(*                                                                         *)
(* A session is the set of turns it holds, whole or in its summary.        *)
(***************************************************************************)
EXTENDS Integers

CONSTANTS Sessions,      \* names of session files
          Retitled,       \* those whose content has another session id
          N,             \* plugins 1..N, in the order of their ids
          Modes,         \* permission modes
          MaxTurns       \* bound of the model: turns that are run

Bounds == N \in Nat /\ MaxTurns \in Nat

Plugins == 1..N

VARIABLES rt, fresh,     \* the runtime of the REPL; the one that is being built
          handle, mode,  \* LiveCli's session and permission_mode
          op,            \* the command under way
          turns,         \* turns run so far
          file,          \* the session files
          enabled, gone, \* plugins enabled; plugins whose directory is removed
          told,          \* history: what each plugin was told
          owed,          \* history: the turns a file has to hold
          closed,        \* history: files that /session close removed
          spoilt         \* history: an initialisation or a shutdown failed

world == <<turns, file, enabled, gone, told, owed, closed, spoilt>>
vars == <<rt, fresh, handle, mode, op, world>>

NoRuntime == [path |-> CHOOSE s \in Sessions : TRUE, holds |-> {}, mode |-> CHOOSE m \in Modes : TRUE,
              plugins |-> {}, active |-> FALSE]
NoFile == [there |-> FALSE, holds |-> {}]
File(holds) == [there |-> TRUE, holds |-> holds]

AtPrompt == op.pc = "prompt"
Goto(pc) == op' = [op EXCEPT !.pc = pc]
Unused == {s \in Sessions \ Retitled : ~file[s].there /\ s \notin closed /\ s # handle}

-----------------------------------------------------------------------------
(* Plugins: PluginRegistry::initialize and shutdown *)

Initialised(done) ==
    [p \in Plugins |-> IF p \in done THEN [open |-> told[p].open + 1, up |-> TRUE] ELSE told[p]]
ShutDown(done) ==
    [p \in Plugins |-> IF p \in done THEN [open |-> told[p].open - 1, up |-> FALSE] ELSE told[p]]

(* Shutdown goes in reverse order and stops at the first that fails.  Its  *)
(* command runs in the directory of the plugin, and fails if that is gone. *)
MayFailOf(ps) == {p \in ps : \A g \in ps \cap gone : g <= p}
Stops(ps) == ps \cap gone = {}

-----------------------------------------------------------------------------
(* build_runtime *)

Prepare(cmd, s, holds) ==
    /\ fresh' = [NoRuntime EXCEPT !.path = s, !.holds = holds]
    /\ op' = [cmd |-> cmd, pc |-> "build"]

(* Faulty variant: what the runtime before has initialised is left out.    *)
BuildTheRest ==
    /\ op.pc = "build"
    /\ told' = Initialised(enabled \ rt.plugins)
    /\ fresh' = [fresh EXCEPT !.mode = mode, !.plugins = enabled, !.active = TRUE]
    /\ Goto(IF op.cmd = "turn" THEN "turn" ELSE "replace")
    /\ UNCHANGED <<rt, handle, mode, turns, file, enabled, gone, owed, closed, spoilt>>

(* plugin_registry.initialize, the policy, the client of the provider.  On *)
(* an error the plugins initialised so far are left so.                    *)
Build ==
    /\ op.pc = "build"
    /\ \/ /\ told' = Initialised(enabled)
          /\ fresh' = [fresh EXCEPT !.mode = mode, !.plugins = enabled, !.active = TRUE]
          /\ Goto(IF op.cmd = "turn" THEN "turn" ELSE "replace") /\ UNCHANGED spoilt
       \/ /\ \E p \in Plugins \cup {N + 1} : told' = Initialised({q \in enabled : q < p})
          /\ spoilt' = TRUE /\ fresh' = NoRuntime /\ Goto("unwind")
    /\ UNCHANGED <<rt, handle, mode, turns, file, enabled, gone, owed, closed>>

(* The turn pushes each message to memory and to the file of its session;  *)
(* one that fails may have written some.                                   *)
Turn ==
    LET s == fresh.path n == turns + 1 IN
    /\ op.pc = "turn" /\ turns' = n
    /\ \/ /\ fresh' = [fresh EXCEPT !.holds = @ \cup {n}]
          /\ file' = [file EXCEPT ![s] = File(@.holds \cup {n})]
          /\ owed' = [owed EXCEPT ![s] = @ \cup {n}]
          /\ Goto("replace")
       \/ /\ file' \in {file, [file EXCEPT ![s] = File(@.holds \cup {n})]}
          /\ Goto("giveUp") /\ UNCHANGED <<fresh, owed>>
    /\ UNCHANGED <<rt, handle, mode, enabled, gone, told, closed, spoilt>>

(* After a turn that failed: runtime.shutdown_plugins.                     *)
GiveUp ==
    /\ op.pc = "giveUp" /\ Goto("unwind")
    /\ \/ /\ Stops(fresh.plugins) /\ told' = ShutDown(fresh.plugins)
          /\ fresh' = [fresh EXCEPT !.active = FALSE] /\ UNCHANGED spoilt
       \/ /\ \E p \in MayFailOf(fresh.plugins) : told' = ShutDown({q \in fresh.plugins : q > p})
          /\ spoilt' = TRUE /\ UNCHANGED fresh
    /\ UNCHANGED <<rt, handle, mode, turns, file, enabled, gone, owed, closed>>

(* Faulty variant: the new runtime is taken, the old one dropped unasked.  *)
ReplaceOnly ==
    /\ op.pc = "replace"
    /\ rt' = fresh /\ fresh' = NoRuntime
    /\ handle' = IF op.cmd \in {"new", "switch", "fork", "close"} THEN fresh.path ELSE handle
    /\ Goto("persist")
    /\ UNCHANGED <<mode, world>>

(* Faulty variant: the session that is switched to is not made the active. *)
ReplaceKeepsHandle ==
    /\ op.pc = "replace"
    /\ Stops(rt.plugins) /\ told' = ShutDown(rt.plugins)
    /\ rt' = fresh /\ fresh' = NoRuntime
    /\ Goto("persist")
    /\ UNCHANGED <<handle, mode, turns, file, enabled, gone, owed, closed, spoilt>>

(* replace_runtime, and the session of the command becomes the active one. *)
Replace ==
    /\ op.pc = "replace"
    /\ \/ /\ Stops(rt.plugins) /\ told' = ShutDown(rt.plugins)
          /\ rt' = fresh /\ fresh' = NoRuntime
          /\ handle' = IF op.cmd \in {"new", "switch", "fork", "close"} THEN fresh.path ELSE handle
          /\ Goto("persist") /\ UNCHANGED spoilt
       \/ /\ \E p \in MayFailOf(rt.plugins) : told' = ShutDown({q \in rt.plugins : q > p})
          /\ spoilt' = TRUE /\ Goto("unwind") /\ UNCHANGED <<rt, fresh, handle>>
    /\ UNCHANGED <<mode, turns, file, enabled, gone, owed, closed>>

(* persist_session; save_to_path replaces the file or leaves it.           *)
Persist ==
    /\ op.pc = "persist"
    /\ \/ file' = [file EXCEPT ![handle] = File(rt.holds)] /\ Goto("prompt")
       \/ Goto("unwind") /\ UNCHANGED file
    /\ UNCHANGED <<rt, fresh, handle, mode, turns, enabled, gone, told, owed, closed, spoilt>>

(* BuiltRuntime::drop of a runtime that is still active; errors are lost.  *)
Drop ==
    LET victim == IF fresh.active THEN fresh ELSE rt IN
    /\ op.pc = "unwind"
    /\ IF ~victim.active THEN Goto("ended") /\ UNCHANGED <<rt, fresh, told, spoilt>>
       ELSE /\ \/ Stops(victim.plugins) /\ told' = ShutDown(victim.plugins) /\ UNCHANGED spoilt
               \/ \E p \in MayFailOf(victim.plugins) :
                     told' = ShutDown({q \in victim.plugins : q > p}) /\ spoilt' = TRUE
            /\ IF fresh.active THEN fresh' = NoRuntime /\ UNCHANGED rt ELSE rt' = NoRuntime /\ UNCHANGED fresh
            /\ UNCHANGED op
    /\ UNCHANGED <<handle, mode, turns, file, enabled, gone, owed, closed>>

-----------------------------------------------------------------------------
(* Commands *)

RunTurn ==
    /\ AtPrompt /\ turns < MaxTurns
    /\ Prepare("turn", rt.path, rt.holds)
    /\ UNCHANGED <<rt, handle, mode, world>>

(* /model and /compact: another model, the same turns in fewer messages.   *)
Remake ==
    /\ AtPrompt
    /\ Prepare("remake", rt.path, rt.holds)
    /\ UNCHANGED <<rt, handle, mode, world>>

SetPermissions ==
    /\ AtPrompt
    /\ mode' \in Modes \ {mode}
    /\ Prepare("permissions", rt.path, rt.holds)
    /\ UNCHANGED <<rt, handle, world>>

(* Of /clear the handle is changed first, of the others last.              *)
ClearSession ==
    /\ AtPrompt
    /\ handle' \in Unused
    /\ Prepare("clear", handle', {})
    /\ UNCHANGED <<rt, mode, world>>

NewSession ==
    /\ AtPrompt
    /\ \E s \in Unused : /\ file' = [file EXCEPT ![handle] = File(rt.holds), ![s] = File({})]
                         /\ Prepare("new", s, {})
    /\ UNCHANGED <<rt, handle, mode, turns, enabled, gone, told, owed, closed, spoilt>>

ForkSession ==
    /\ AtPrompt
    /\ \E s \in Unused : /\ file' = [file EXCEPT ![s] = File(rt.holds)]
                         /\ owed' = [owed EXCEPT ![s] = rt.holds]
                         /\ Prepare("fork", s, rt.holds)
    /\ UNCHANGED <<rt, handle, mode, turns, enabled, gone, told, closed, spoilt>>

(* /resume and /session switch.                                            *)
SwitchSession ==
    /\ AtPrompt
    /\ \E s \in Sessions : file[s].there /\ Prepare("switch", s, file[s].holds)
    /\ UNCHANGED <<rt, handle, mode, world>>

(* Faulty variant: nobody asks whether the session is the active one.      *)
CloseAnySession ==
    /\ AtPrompt
    /\ \E s \in Sessions :
         /\ file[s].there
         /\ file' = [file EXCEPT ![s] = NoFile] /\ closed' = closed \cup {s}
         /\ owed' = [owed EXCEPT ![s] = {}]
         /\ Goto("persist") /\ UNCHANGED fresh
    /\ UNCHANGED <<rt, handle, mode, turns, enabled, gone, told, spoilt>>

(* The name of the file is compared with the session id of the content.    *)
(* The latest of the other sessions is next, or one that is new.           *)
CloseSession ==
    /\ AtPrompt
    /\ \E s \in Sessions :
         /\ file[s].there
         /\ closed' = closed \cup {s} /\ owed' = [owed EXCEPT ![s] = {}]
         /\ IF s = handle /\ s \notin Retitled
            THEN \/ \E next \in Sessions \ {s} :
                      /\ file[next].there /\ file' = [file EXCEPT ![s] = NoFile]
                      /\ Prepare("close", next, file[next].holds)
                 \/ \E next \in Unused :
                      /\ \A other \in Sessions \ {s} : ~file[other].there
                      /\ file' = [file EXCEPT ![s] = NoFile, ![next] = File({})]
                      /\ Prepare("close", next, {})
            ELSE /\ file' = [file EXCEPT ![s] = NoFile]
                 /\ Goto("persist") /\ UNCHANGED fresh
    /\ UNCHANGED <<rt, handle, mode, turns, enabled, gone, told, spoilt>>

(* /plugins: enable, disable, install; uninstall removes the directory.    *)
PluginsCommand ==
    /\ AtPrompt
    /\ enabled' \in SUBSET Plugins
    /\ gone' \in {gone \ enabled'} \cup {(gone \cup {p}) \ enabled' : p \in enabled \ enabled'}
    /\ Prepare("plugins", rt.path, rt.holds)
    /\ UNCHANGED <<rt, handle, mode, turns, file, told, owed, closed, spoilt>>

(* No such session, a file that does not load, an unknown mode, a read     *)
(* error of the terminal: run_repl returns.                                *)
CommandFails ==
    /\ AtPrompt /\ Goto("unwind")
    /\ UNCHANGED <<rt, fresh, handle, mode, world>>

Exit ==
    /\ AtPrompt /\ Goto("unwind")
    /\ file' \in {file, [file EXCEPT ![handle] = File(rt.holds)]}
    /\ UNCHANGED <<rt, fresh, handle, mode, turns, enabled, gone, told, owed, closed, spoilt>>

-----------------------------------------------------------------------------
(* LiveCli::new builds the first runtime; old files may be there.          *)
Init ==
    /\ \E s \in Sessions \ Retitled, m \in Modes, ps \in SUBSET Plugins :
         /\ handle = s /\ mode = m /\ enabled = ps
         /\ fresh = [NoRuntime EXCEPT !.path = s]
    /\ rt = NoRuntime /\ op = [cmd |-> "start", pc |-> "build"]
    /\ turns = 0 /\ gone = {} /\ closed = {} /\ spoilt = FALSE
    /\ file = [s \in Sessions |-> IF s \in Retitled THEN File({}) ELSE NoFile]
    /\ told = [p \in Plugins |-> [open |-> 0, up |-> FALSE]]
    /\ owed = [s \in Sessions |-> {}]

Command ==
    \/ RunTurn \/ Remake \/ SetPermissions \/ ClearSession \/ NewSession \/ ForkSession
    \/ SwitchSession \/ CloseSession \/ PluginsCommand \/ CommandFails \/ Exit

Next == Command \/ Build \/ Turn \/ GiveUp \/ Replace \/ Persist \/ Drop

Spec == Init /\ [][Next]_vars

-----------------------------------------------------------------------------
(* Properties *)

(* Runtimes, files and what plugins were told are well formed.             *)
TypeOK ==
    /\ {rt.plugins, fresh.plugins, enabled, gone} \subseteq SUBSET Plugins
    /\ {rt.mode, fresh.mode, mode} \subseteq Modes /\ {handle, rt.path, fresh.path} \subseteq Sessions
    /\ file \in [Sessions -> [there : BOOLEAN, holds : SUBSET (1..MaxTurns)]]
    /\ told \in [Plugins -> [open : -2..3, up : BOOLEAN]]

(* The new runtime initialises the plugins before the old one shuts them   *)
(* down, yet in every turn each plugin whose tools and hooks it runs was   *)
(* told last to start, and the turn runs under the mode shown.             *)
UpInTurns ==
    op.pc = "turn" => fresh.mode = mode /\ \A p \in fresh.plugins : told[p].up

(* However the REPL ends, each plugin has been shut down as often as it    *)
(* was initialised, if none of these failed on the way.                    *)
PluginsAreClosed ==
    op.pc = "ended" /\ ~spoilt => \A p \in Plugins : told[p].open = 0

(* A turn that was answered is in the file of its session, and in those of *)
(* its forks, whatever is switched, cleared or fails afterwards.           *)
TurnsAreOnDisk == \A s \in Sessions : owed[s] \subseteq file[s].holds

(* A session that was closed does not come back when the next one is       *)
(* saved.  (One whose file was renamed does, if it is the active one.)     *)
ClosedStaysClosed == \A s \in closed \ Retitled : ~file[s].there
=============================================================================
