---------------------------- MODULE Configuration ----------------------------
(***************************************************************************)
(* The settings of runtime/config.rs: ten files in a fixed order, merged   *)
(* key by key, and the views the program takes of the result; and what an  *)
(* agent of a tab makes of them when it starts (appui/worker.rs, main.rs). *)
(* A value is tagged with what it is; an object is a function from its     *)
(* keys.  Of keys that are treated alike one stands for all.               *)
(***************************************************************************)
EXTENDS Integers, Sequences, FiniteSets

CONSTANTS Contents,     \* kind of a file -> what a user may write into it
          Absent,       \* no file, no value
          Broken,       \* a file that does not parse
          Error,
          MaxFiles      \* bound of the model: files that exist

VARIABLE files          \* place in the order -> contents, Absent or Broken

Object(f) == [is |-> "object", of |-> f]
List(seq) == [is |-> "list", of |-> seq]
Text(t) == [is |-> "text", of |-> t]
Flag(b) == [is |-> "flag", of |-> b]
NoKeys == [k \in {} |-> Absent]

(* ConfigLoader::discover *)
Entry(source, kind) == [source |-> source, kind |-> kind]
Discover == <<Entry("user", "legacy"), Entry("user", "json"), Entry("user", "toml"),
              Entry("user", "mcp"),
              Entry("project", "legacy"), Entry("project", "json"), Entry("project", "toml"),
              Entry("project", "mcp"),
              Entry("local", "json"), Entry("local", "toml")>>
Places == DOMAIN Discover

(* read_optional_json_object, read_optional_toml_object: a legacy file     *)
(* that does not parse counts as none.                                     *)
Read(i) == IF files[i] = Broken
           THEN IF Discover[i].kind = "legacy" THEN Absent ELSE Error
           ELSE files[i]

-----------------------------------------------------------------------------
(* Merging *)

(* Faulty variant: an object takes the place of the one before.            *)
OverwriteObjects(target, source) ==
    [k \in DOMAIN target \cup DOMAIN source |->
        IF k \in DOMAIN source THEN source[k] ELSE target[k]]

(* deep_merge_objects *)
RECURSIVE DeepMerge(_, _)
DeepMerge(target, source) ==
    [k \in DOMAIN target \cup DOMAIN source |->
        IF k \notin DOMAIN source THEN target[k]
        ELSE IF k \in DOMAIN target /\ target[k].is = "object" /\ source[k].is = "object"
             THEN Object(DeepMerge(target[k].of, source[k].of))
             ELSE source[k]]

Merged ==
    LET upto[i \in 0..Len(Discover)] ==
          IF i = 0 THEN NoKeys
          ELSE IF Discover[i].kind = "mcp" \/ Read(i) \in {Absent, Error} THEN upto[i - 1]
          ELSE DeepMerge(upto[i - 1], Read(i))
    IN  upto[Len(Discover)]

-----------------------------------------------------------------------------
(* Reading a value *)

Typed(object, key, is, default) ==
    IF key \notin DOMAIN object THEN default
    ELSE IF object[key].is = is THEN object[key].of ELSE Error

(* parse_optional_hooks_config_object *)
Hooks(root) ==
    LET hooks == Typed(root, "hooks", "object", NoKeys)
    IN  IF hooks = Error THEN Error ELSE Typed(hooks, "PreToolUse", "list", << >>)

(* What is no object says nothing of permissions.                          *)
Permissions(root) ==
    LET found == Typed(root, "permissions", "object", NoKeys)
    IN  IF found = Error THEN NoKeys ELSE found

(* parse_optional_permission_rules *)
Deny(root) == Typed(Permissions(root), "deny", "list", << >>)

(* parse_optional_permission_mode: either of two keys.                     *)
ModeOf(label) ==
    CASE label \in {"default", "plan", "read-only"} -> "read-only"
      [] label \in {"acceptEdits", "auto", "workspace-write"} -> "workspace-write"
      [] label \in {"dontAsk", "danger-full-access"} -> "danger-full-access"
      [] OTHER -> Error
IsText(object, key) == key \in DOMAIN object /\ object[key].is = "text"
Mode(root) ==
    IF IsText(root, "permissionMode") THEN ModeOf(root["permissionMode"].of)
    ELSE IF IsText(Permissions(root), "defaultMode")
         THEN ModeOf(Permissions(root)["defaultMode"].of)
    ELSE Absent

(* parse_optional_plugin_config: one of two maps, the other one unseen.    *)
BoolMap(object, key, default) ==
    LET map == Typed(object, key, "object", default)
    IN  IF map = Error THEN Error
        ELSE IF \E k \in DOMAIN map : map[k].is # "flag" THEN Error ELSE map
EnabledPlugins(root) ==
    LET first == BoolMap(root, "enabledPlugins", NoKeys)
        plugins == Typed(root, "plugins", "object", NoKeys)
    IN  IF Error \in {first, plugins} THEN Error ELSE BoolMap(plugins, "enabled", first)

(* parse_optional_external_consult: more is required of what is enabled.   *)
ExternalConsult(root) ==
    LET found == Typed(root, "externalConsult", "object", NoKeys)
        enabled == IF found = Error THEN Error ELSE Typed(found, "enabled", "flag", FALSE)
        model == IF found = Error THEN Error ELSE Typed(found, "model", "text", Absent)
    IN  IF Error \in {enabled, model} \/ (enabled = TRUE /\ model = Absent)
        THEN Error ELSE enabled

(* parse_mcp_server_config, infer_mcp_server_type                          *)
Server(value) ==
    IF value.is # "object" THEN Error
    ELSE LET object == value.of
             inferred == IF "url" \in DOMAIN object THEN "http" ELSE "stdio"
             type == Typed(object, "type", "text", inferred)
             key == IF type = "http" THEN "url" ELSE "command"
         IN  IF type \notin {"http", "stdio"} \/ ~IsText(object, key) THEN Error
             ELSE [transport |-> type, at |-> object[key].of]

(* The servers of a file; mcp.toml holds nothing else.                     *)
ServersOf(i) ==
    IF Read(i) \in {Absent, Error} THEN NoKeys
    ELSE IF Discover[i].kind = "mcp" THEN Read(i)
    ELSE Typed(Read(i), "mcpServers", "object", NoKeys)

(* Faulty variant: the first file that names a server has it.              *)
KeepServers(target, i) ==
    [n \in DOMAIN target \cup DOMAIN ServersOf(i) |->
        IF n \in DOMAIN target THEN target[n]
        ELSE [scope |-> Discover[i].source, config |-> Server(ServersOf(i)[n])]]

(* merge_mcp_servers: a server is taken as a whole.                        *)
MergeServers(target, i) ==
    [n \in DOMAIN target \cup DOMAIN ServersOf(i) |->
        IF n \in DOMAIN ServersOf(i)
        THEN [scope |-> Discover[i].source, config |-> Server(ServersOf(i)[n])]
        ELSE target[n]]

Servers ==
    LET upto[i \in 0..Len(Discover)] ==
          IF i = 0 THEN NoKeys
          ELSE IF ServersOf(i) = Error THEN upto[i - 1] ELSE MergeServers(upto[i - 1], i)
    IN  upto[Len(Discover)]

-----------------------------------------------------------------------------
(* ConfigLoader::load: the first thing that is wrong ends it.              *)

FileFails(i) ==
    \/ Read(i) = Error \/ ServersOf(i) = Error
    \/ \E n \in DOMAIN ServersOf(i) : Server(ServersOf(i)[n]) = Error
    \/ Discover[i].kind # "mcp" /\ Read(i) # Absent /\ Hooks(Read(i)) = Error

Load ==
    LET merged == Merged
        views == [hooks |-> Hooks(merged), deny |-> Deny(merged), mode |-> Mode(merged),
                  plugins |-> EnabledPlugins(merged), consult |-> ExternalConsult(merged),
                  servers |-> Servers]
    IN  IF (\E i \in Places : FileFails(i)) \/ (\E v \in DOMAIN views : views[v] = Error)
        THEN Error ELSE views

(* The start of an agent: with no configuration it has no hook and no      *)
(* rule, and where nobody says otherwise, the mode that forbids nothing.   *)
Started(load) ==
    IF load = Error
    THEN [mode |-> "danger-full-access", deny |-> << >>, hooks |-> << >>]
    ELSE [mode |-> IF load.mode = Absent THEN "danger-full-access" ELSE load.mode,
          deny |-> load.deny, hooks |-> load.hooks]

-----------------------------------------------------------------------------
(* The user writes and removes files; a file may be empty.                 *)

Init == files = [i \in Places |-> Absent]

Edit(i) ==
    /\ \E content \in Contents[Discover[i].kind] \cup {Absent, Broken, NoKeys} :
          files' = [files EXCEPT ![i] = content]
    /\ Cardinality({j \in Places : files'[j] # Absent}) <= MaxFiles

Next == \E i \in Places : Edit(i)

Spec == Init /\ [][Next]_files

-----------------------------------------------------------------------------
(* Properties *)

(* What file i says of a setting: it is silent, it has a value, or it has  *)
(* something else where the setting's object should be, and so nothing.    *)
Silent(i, path) ==
    \/ Discover[i].kind = "mcp" \/ Read(i) = Absent
    \/ path[1] \notin DOMAIN Read(i)
    \/ /\ Len(path) = 2 /\ Read(i)[path[1]].is = "object"
       /\ path[2] \notin DOMAIN Read(i)[path[1]].of
Says(i, path) ==
    LET first == Read(i)[path[1]]
    IN  IF Len(path) = 1 THEN first
        ELSE IF first.is = "object" THEN first.of[path[2]] ELSE Absent

Last(places) == CHOOSE i \in places : \A j \in places : j <= i
LastWord(path) ==
    LET speaking == {i \in Places : ~Silent(i, path)}
    IN  IF speaking = {} THEN Absent ELSE Says(Last(speaking), path)

Lines(path) == IF LastWord(path) = Absent THEN << >> ELSE LastWord(path).of
IsWord(path) == LastWord(path) # Absent /\ LastWord(path).is = "text"

(* Settings that can be read hold, for each setting by itself, what the    *)
(* last of the files that speak of it says, however the files between cut  *)
(* its object up or replace it; an agent starts with the hooks, rules and  *)
(* mode of that; and a server is wholly the one of the last file that      *)
(* names it, with the scope of that file (GUIDE.md, CONFIG.md).            *)
LaterFilesWin ==
    LET load == Load
        started == Started(load)
    IN  load # Error =>
        /\ started.deny = Lines(<<"permissions", "deny">>)
        /\ started.hooks = Lines(<<"hooks", "PreToolUse">>)
        /\ started.mode =
              IF IsWord(<<"permissionMode">>) THEN ModeOf(LastWord(<<"permissionMode">>).of)
              ELSE IF IsWord(<<"permissions", "defaultMode">>)
                   THEN ModeOf(LastWord(<<"permissions", "defaultMode">>).of)
              ELSE "danger-full-access"
        /\ DOMAIN load.servers = UNION {DOMAIN ServersOf(i) : i \in Places}
        /\ \A n \in DOMAIN load.servers :
              LET i == Last({j \in Places : n \in DOMAIN ServersOf(j)})
              IN  load.servers[n] = [scope |-> Discover[i].source,
                                     config |-> Server(ServersOf(i)[n])]
=============================================================================
