------------------------------ MODULE MCEngine ------------------------------
(* Model checking of the turn loop and of the manager of MCP servers: a    *)
(* behaviour is one of either, and the other stays where it begins.        *)
EXTENDS MCConversationTurn

CONSTANTS Servers, NoServer, MaxOps, MaxPages, MaxProcs, MaxSpawns, MaxNoise

ASSUME ServersAssumption == MaxProcs \in Nat /\ NoServer \notin Servers

VARIABLES part,
          server, process, indexed, at, op, nextId, ops, pages, spawns, noise, sent

M == INSTANCE McpManager WITH pc <- at

mcp == <<server, process, indexed, at, op, nextId, ops, pages, spawns, noise, sent>>
all == <<part, vars, mcp>>

EngineInit ==
    /\ part \in {"turn", "mcp"}
    /\ Init /\ M!Init
    /\ part # "turn" => driver = "repl" /\ policy.mode = "workspace-write"

InTurn == UNCHANGED <<part, mcp>>
InMcp == UNCHANGED <<part, vars>>

EngineNext ==
    \/ part = "turn" /\ Next /\ InTurn
    \/ part = "mcp" /\ M!Next /\ InMcp

(* The fairness that each module states for itself.                        *)
Fairness ==
    /\ WF_all(part = "turn" /\ TurnStep /\ InTurn)
    /\ WF_all(part = "mcp" /\ M!Step /\ InMcp)

EngineSpec == EngineInit /\ [][EngineNext]_all /\ Fairness

(* The turn: results are what happened, the counter covers the session,    *)
(* turns keep the history and end.                                         *)
ResultsAreTrue == TypeOK /\ ResultsAreHonest /\ TotalCoversSession
TurnsEndWell == HistoryIsKept /\ TurnEnds

(* The manager: pipes are in step, no process is lost, no call is sent     *)
(* twice, every operation ends.                                            *)
ServersInStep == M!TypeOK /\ M!InSync /\ M!NoOrphans /\ M!CallSentOnce
OperationsEnd == M!OperationsEnd
=============================================================================
