------------------------------- MODULE MCTab -------------------------------
(* Model checking of a tab of the terminal UI and of the settings that its *)
(* agents start with: each behaviour is of one of the two, and the other   *)
(* stays where it begins.  For the settings: two spellings of the mode, a  *)
(* list of rules, hooks set and taken away, a server given twice, and      *)
(* values of the wrong type, in any file where they may stand.             *)
EXTENDS AgentTab, TLC

CONSTANTS Contents, Absent, Broken, Error, MaxFiles      \* Configuration

VARIABLES part, settings

C == INSTANCE Configuration WITH files <- settings

all == <<part, vars, settings>>

Key(k, v) == k :> v
One(k, v) == C!Object(k :> v)
MCContents ==
    LET texts == {
            Key("permissions", One("deny", C!List(<<"x">>))),
            Key("permissions", One("defaultMode", C!Text("plan"))) @@
            Key("hooks", One("PreToolUse", C!List(<<"h">>))),
            Key("permissions", C!Text("off")) @@ Key("permissionMode", C!Text("auto")),
            Key("mcpServers", One("s", One("command", C!Text("d")))) @@
            Key("hooks", One("PreToolUse", C!List(<< >>))),
            Key("hooks", C!Text("h"))}
    IN  [kind \in {"legacy", "json", "toml", "mcp"} |->
            IF kind = "mcp"
            THEN {Key("s", One("url", C!Text("u"))), Key("s", One("command", C!Text("c")))}
            ELSE texts]

TabInit ==
    /\ part \in {"tab", "settings"}
    /\ Init /\ C!Init
    /\ part # "tab" => disk = NoFile

TabNext ==
    \/ part = "tab" /\ Next /\ UNCHANGED <<part, settings>>
    \/ part = "settings" /\ C!Next /\ UNCHANGED <<part, vars>>

TabFairness ==
    /\ WF_vars(part = "tab" /\ Drain)
    /\ WF_vars(part = "tab" /\ Reply)
    /\ \A g \in Agents : WF_vars(part = "tab" /\ g \in Spawned /\ AgentStep(g))

TabSpec == TabInit /\ [][TabNext]_all /\ TabFairness

-----------------------------------------------------------------------------
(* Turns end on screen and replaced threads end by themselves.             *)
ThreadsEnd == TurnsEnd /\ OrphansEnd

(* Settings: the last file that speaks of one has it.                      *)
LaterFilesWin == C!LaterFilesWin
=============================================================================
