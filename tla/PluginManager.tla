--------------------------- MODULE PluginManager ---------------------------
(***************************************************************************)
(* The plugin manager (plugins/src/lib.rs): directories under the install  *)
(* root, the registry file with a record per installed plugin, and the     *)
(* switches in the settings file.  A command is a sequence of operations   *)
(* on these files, each of which may fail or be cut short by a crash; the  *)
(* manager keeps nothing in memory between two commands.                   *)
(*                                                                         *)
(* Directories of external plugins outside the install root, and names     *)
(* that sanitize_plugin_id maps to the same directory, are left out.       *)
(***************************************************************************)
EXTENDS Naturals, FiniteSets

CONSTANTS External,      \* plugins that the user installs
          Bundled,       \* plugins that come with the program
          MaxVersion     \* bound of the model: versions of a plugin

Plugins == External \cup Bundled

Populated == Plugins # {} /\ External \cap Bundled = {} /\ MaxVersion \in Nat \ {0}

VARIABLES upstream,      \* version a source has on offer, 0: none
          dir,           \* the copy under the install root
          registry,      \* the registry file: version recorded, 0: no record
          switch,        \* enabledPlugins of the settings file
          op,            \* the command under way
          cut            \* history: bundled plugins whose update was cut short

files == <<dir, registry, switch>>
vars == <<upstream, files, op, cut>>

Versions == 0..MaxVersion
(* none, no manifest, a manifest that does not load, one that does though  *)
(* files are missing, the whole source, the whole source and its build     *)
Parts == {"none", "bare", "invalid", "partial", "whole", "built"}
NoCopy == [version |-> 0, part |-> "none"]
Nothing == [p \in Plugins |-> 0]

Commands == {"install", "update", "uninstall", "enable", "disable", "list"}
Idle == [cmd |-> "none", target |-> CHOOSE p \in Plugins : TRUE,
         at |-> CHOOSE p \in Plugins : TRUE, pc |-> "idle", held |-> Nothing, version |-> 0,
         changed |-> FALSE]

HasManifest(p) == dir[p].part \notin {"none", "bare"}      \* plugin_manifest_path
Loads(p) == dir[p].part \in {"partial", "whole", "built"}  \* load_plugin_from_directory

-----------------------------------------------------------------------------
(* Steps every command is made of *)

At(pc) == op.pc = pc
Goto(pc) == op' = [op EXCEPT !.pc = pc]

(* What is left when removing or copying a directory is cut short: of no   *)
(* version that is on offer.                                               *)
Remains == {[version |-> 0, part |-> part] : part \in {"bare", "invalid", "partial"}}

(* fs::write empties the file before it writes.                            *)
Interrupted ==
    /\ op.pc \notin {"idle", "listed", "installed"}
    /\ op' = Idle
    /\ cut' = IF op.cmd = "update" /\ op.pc \in {"clear", "copy"}
              THEN cut \cup ({op.at} \cap Bundled) ELSE cut
    /\ CASE op.pc = "clear" -> \E d \in Remains \cup {dir[op.at]} :
                                  dir' = [dir EXCEPT ![op.at] = d]
         [] op.pc = "copy"  -> \E d \in Remains : dir' = [dir EXCEPT ![op.at] = d]
         [] OTHER           -> UNCHANGED dir
    /\ CASE op.pc \in {"store", "syncStore", "discover"} -> registry' \in {registry, Nothing}
         [] OTHER -> UNCHANGED registry
    /\ CASE op.pc = "switch" -> switch' \in {switch, [p \in Plugins |-> "unset"]}
         [] OTHER -> UNCHANGED switch
    /\ UNCHANGED upstream

Clear ==
    /\ At("clear")
    /\ dir' = [dir EXCEPT ![op.at] = NoCopy]
    /\ Goto(IF op.cmd = "uninstall" THEN "store" ELSE "copy")
    /\ UNCHANGED <<upstream, registry, switch, cut>>

(* The directory of a bundled plugin is recorded in memory and stored when *)
(* all of them are in place.                                               *)
Copy ==
    /\ At("copy")
    /\ dir' = [dir EXCEPT ![op.at] = [version |-> op.version, part |-> "whole"]]
    /\ op' = CASE op.cmd = "install" -> [op EXCEPT !.pc = "build"]
               [] op.cmd = "update"  -> [op EXCEPT !.pc = "store"]
               [] OTHER -> [op EXCEPT !.pc = "sync", !.held[op.at] = op.version, !.changed = TRUE]
    /\ cut' = cut \ {op.at}
    /\ UNCHANGED <<upstream, registry, switch>>

-----------------------------------------------------------------------------
(* install, update, uninstall *)

Begin(cmd, p) ==
    /\ op = Idle
    /\ op' = [cmd |-> cmd, target |-> p, at |-> p, changed |-> FALSE,
              held |-> IF cmd = "install" THEN Nothing ELSE registry,
              version |-> IF cmd \in {"install", "update"} THEN upstream[p] ELSE 0,
              pc |-> CASE cmd \in {"install", "update"} -> "stage"
                       [] cmd = "uninstall" -> "clear"
                       [] OTHER -> "sync"]
    /\ CASE cmd = "install"   -> p \in External
         [] cmd = "update"    -> registry[p] > 0
         [] cmd = "uninstall" -> registry[p] > 0 /\ p \in External
         [] cmd = "list"      -> p = Idle.target
         [] OTHER             -> TRUE
    /\ UNCHANGED <<upstream, files, cut>>

(* The source is cloned or found, and its manifest loads.                  *)
Stage ==
    /\ At("stage") /\ op.version > 0
    /\ Goto("clear")
    /\ UNCHANGED <<upstream, files, cut>>

(* Faulty variant: a build that fails is recorded nevertheless.            *)
BuildGoesOn ==
    /\ At("build")
    /\ dir' \in {dir, [dir EXCEPT ![op.target].part = "built"]}
    /\ Goto("store")
    /\ UNCHANGED <<upstream, registry, switch, cut>>

(* A build that fails takes the directory away again.                      *)
Build ==
    /\ At("build")
    /\ \/ dir' = [dir EXCEPT ![op.target].part = "built"] /\ Goto("store")
       \/ dir' = [dir EXCEPT ![op.target] = NoCopy] /\ op' = Idle
    /\ UNCHANGED <<upstream, registry, switch, cut>>

(* install() loads the registry here, the others have loaded it before.    *)
Store ==
    /\ At("store")
    /\ registry' = [(IF op.cmd = "install" THEN registry ELSE op.held)
                      EXCEPT ![op.target] = IF op.cmd = "uninstall" THEN 0 ELSE op.version]
    /\ IF op.cmd = "update" THEN op' = Idle ELSE Goto("switch")
    /\ UNCHANGED <<upstream, dir, switch, cut>>

SwitchTo(cmd) ==
    CASE cmd \in {"install", "enable"} -> "on" [] cmd = "disable" -> "off" [] OTHER -> "unset"

WriteSwitch ==
    /\ At("switch")
    /\ switch' = [switch EXCEPT ![op.target] = SwitchTo(op.cmd)]
    /\ IF op.cmd = "install" THEN Goto("installed") ELSE op' = Idle
    /\ UNCHANGED <<upstream, dir, registry, cut>>

-----------------------------------------------------------------------------
(* plugin_registry: the bundled plugins are put in place, the directories  *)
(* are looked through and records without a directory dropped              *)

(* Faulty variant: a copy that loads is taken for the current one.         *)
NeedsSyncIfBroken(b) == op.held[b] = 0 \/ ~Loads(b)

NeedsSync(b) == op.held[b] = 0 \/ op.held[b] # upstream[b] \/ ~Loads(b)

(* Faulty variant: the record is stored before the copy is made.           *)
SyncOneEagerly(b) ==
    /\ At("sync") /\ upstream[b] > 0 /\ NeedsSync(b)
    /\ registry' = [op.held EXCEPT ![b] = upstream[b]]
    /\ op' = [op EXCEPT !.at = b, !.version = upstream[b],
                        !.pc = IF dir[b].part = "none" THEN "copy" ELSE "clear"]
    /\ UNCHANGED <<upstream, dir, switch, cut>>

SyncOne(b) ==
    /\ At("sync") /\ upstream[b] > 0 /\ NeedsSync(b)
    /\ op' = [op EXCEPT !.at = b, !.version = upstream[b],
                        !.pc = IF dir[b].part = "none" THEN "copy" ELSE "clear"]
    /\ UNCHANGED <<upstream, files, cut>>

(* A bundled plugin that the program no longer has is removed.             *)
SyncStale(b) ==
    /\ At("sync") /\ upstream[b] = 0 /\ op.held[b] > 0
    /\ dir' = [dir EXCEPT ![b] = NoCopy]
    /\ op' = [op EXCEPT !.held[b] = 0, !.changed = TRUE]
    /\ UNCHANGED <<upstream, registry, switch, cut>>

SyncDone ==
    /\ At("sync")
    /\ \A b \in Bundled : IF upstream[b] > 0 THEN ~NeedsSync(b) ELSE op.held[b] = 0
    /\ Goto(IF op.changed THEN "syncStore" ELSE "discover")
    /\ UNCHANGED <<upstream, files, cut>>

SyncStore ==
    /\ At("syncStore")
    /\ registry' = op.held
    /\ Goto("discover")
    /\ UNCHANGED <<upstream, dir, switch, cut>>

(* Faulty variant: whatever directory is there keeps the record.           *)
DiscoverBare ==
    /\ At("discover")
    /\ registry' = [p \in Plugins |-> IF dir[p].part # "none" THEN registry[p] ELSE 0]
    /\ IF \E p \in Plugins : dir[p].part = "invalid" THEN op' = Idle
       ELSE IF op.cmd = "list" THEN Goto("listed")
       ELSE IF Loads(op.target) THEN Goto("switch") ELSE op' = Idle
    /\ UNCHANGED <<upstream, dir, switch, cut>>

(* One manifest that does not load fails the whole listing (into_registry) *)
(* and with it enable() and disable(), after the records were dropped.     *)
Discover ==
    /\ At("discover")
    /\ registry' = [p \in Plugins |-> IF HasManifest(p) THEN registry[p] ELSE 0]
    /\ IF \E p \in Plugins : dir[p].part = "invalid" THEN op' = Idle
       ELSE IF op.cmd = "list" THEN Goto("listed")
       ELSE IF Loads(op.target) THEN Goto("switch") ELSE op' = Idle
    /\ UNCHANGED <<upstream, dir, switch, cut>>

Return ==
    /\ op.pc \in {"listed", "installed"} /\ op' = Idle
    /\ UNCHANGED <<upstream, files, cut>>

(* A new release of a plugin or of the program; one that is dropped.       *)
Release(p) ==
    /\ op = Idle
    /\ \/ upstream[p] \in 1..(MaxVersion - 1) /\ upstream' = [upstream EXCEPT ![p] = @ + 1]
       \/ p \in Bundled /\ upstream[p] > 0 /\ upstream' = [upstream EXCEPT ![p] = 0]
    /\ UNCHANGED <<files, op, cut>>

-----------------------------------------------------------------------------
Init ==
    /\ upstream = [p \in Plugins |-> 1]
    /\ dir = [p \in Plugins |-> NoCopy] /\ registry = Nothing
    /\ switch = [p \in Plugins |-> "unset"]
    /\ op = Idle /\ cut = {}

Next ==
    \/ \E cmd \in Commands, p \in Plugins : Begin(cmd, p)
    \/ Stage \/ Clear \/ Copy \/ Build \/ Store \/ WriteSwitch
    \/ \E b \in Bundled : SyncOne(b) \/ SyncStale(b)
    \/ SyncDone \/ SyncStore \/ Discover \/ Return \/ Interrupted
    \/ \E p \in Plugins : Release(p)

Spec == Init /\ [][Next]_vars

-----------------------------------------------------------------------------
(* Properties *)

(* Files and the command are well formed.                                  *)
TypeOK ==
    /\ upstream \in [Plugins -> Versions] /\ registry \in [Plugins -> Versions]
    /\ dir \in [Plugins -> [version : Versions, part : Parts]]
    /\ switch \in [Plugins -> {"unset", "on", "off"}]
    /\ op.held \in [Plugins -> Versions] /\ op.version \in Versions /\ {op.target, op.at} \subseteq Plugins
    /\ cut \subseteq Bundled

(* Whatever was cut short before: a listing that succeeds leaves a record  *)
(* only where there is a manifest, and every bundled plugin recorded with  *)
(* the version of the program and in place as a whole.  The one exception: *)
(* `update` of a bundled plugin clears the directory under a record that   *)
(* is current, so what it leaves when cut short is taken for whole.        *)
ListingHeals ==
    op.pc = "listed" =>
        /\ \A p \in Plugins : registry[p] > 0 => HasManifest(p)
        /\ \A b \in Bundled : /\ registry[b] = upstream[b]
                              /\ upstream[b] > 0 /\ b \notin cut => dir[b] = [version |-> upstream[b], part |-> "whole"]

(* "A half-built plugin is never registered": a record that install makes  *)
(* stands for a directory that is complete and built.                      *)
InstalledIsBuilt ==
    op.pc = "installed" =>
        /\ registry[op.target] = op.version /\ switch[op.target] = "on"
        /\ dir[op.target] = [version |-> op.version, part |-> "built"]
=============================================================================
