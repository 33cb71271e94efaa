----------------------------- MODULE MCServices -----------------------------
(* Model checking of the registry of workers and of parts of the program   *)
(* that share no state with it or each other: each behaviour is one of one *)
(* part, and the others stay where they begin.                             *)
EXTENDS WorkerBoot, TLC

CONSTANTS Agents, Procs, Slots,                                  \* SubAgents
          Tasks, Teams, MaxMessages,                             \* TaskBoard
          Modes,                                                 \* PlanMode
          Calls, Pieces, MaxRetries,                             \* ProviderStream
          Answers, Events, Commands, PipeSize, Payload, MaxOutput, Limits,
          Helpers, HelpersEnd                                    \* HookCommand

VARIABLES part,
          manifest, job, thread, proc, free, queue,
          task, spawn, child, killing, team, joining,
          mode, kept, op, before,
          protocol, client, said, st, pending, held, out, sending, pc,
          event, limited, stage, how, result, outcomes, verdict,
          shell, exit, helper, want, printed, left, inp, expired, aborted

Says(deny, override, updated) == [deny |-> deny, override |-> override, updated |-> updated]
MCAnswers == {Says(FALSE, "none", "none"), Says(FALSE, "allow", "v1"),
              Says(FALSE, "ask", "none"), Says(TRUE, "none", "v2")}

A == INSTANCE SubAgents WITH worker <- thread
T == INSTANCE TaskBoard
P == INSTANCE PlanMode
S == INSTANCE ProviderStream
H == INSTANCE HookCommand WITH pc <- stage, out <- printed

agents == <<manifest, job, thread, proc, free, queue>>
tasks == <<task, spawn, child, killing, team, joining>>
plan == <<mode, kept, op, before>>
provider == <<protocol, client, said, st, pending, held, out, sending, pc>>
hooks == <<event, limited, stage, how, result, outcomes, verdict,
           shell, exit, helper, want, printed, left, inp, expired, aborted>>
all == <<part, vars, agents, tasks, plan, provider, hooks>>

ServicesInit ==
    /\ part \in {"boot", "agents", "tasks", "plan", "provider", "hooks"}
    /\ Init /\ A!Init /\ T!Init /\ P!Init /\ S!Init /\ H!CommandInit
    /\ part # "plan" => mode = P!Unset
    /\ part # "provider" => protocol = "openai" /\ client = "slot"
    /\ part # "hooks" => event = "pre" /\ limited

InBoot == UNCHANGED <<part, agents, tasks, plan, provider, hooks>>
InAgents == UNCHANGED <<part, vars, tasks, plan, provider, hooks>>
InTasks == UNCHANGED <<part, vars, agents, plan, provider, hooks>>
InPlan == UNCHANGED <<part, vars, agents, tasks, provider, hooks>>
InProvider == UNCHANGED <<part, vars, agents, tasks, plan, hooks>>
InHooks == UNCHANGED <<part, vars, agents, tasks, plan, provider>>

ServicesNext ==
    \/ part = "boot" /\ Next /\ InBoot
    \/ part = "agents" /\ A!Next /\ InAgents
    \/ part = "tasks" /\ T!Next /\ InTasks
    \/ part = "plan" /\ P!Next /\ InPlan
    \/ part = "provider" /\ S!Next /\ InProvider
    \/ part = "hooks" /\ H!CommandNext /\ InHooks

(* The fairness that each module states for itself.                        *)
Fairness ==
    /\ \A a \in Agents : WF_all(part = "agents" /\ A!Supervise(a) /\ InAgents)
    /\ \A t \in Tasks : /\ WF_all(part = "tasks" /\ T!Begin(t) /\ InTasks)
                        /\ WF_all(part = "tasks" /\ T!Watch(t) /\ InTasks)
    /\ WF_all(part = "provider" /\ S!Next /\ InProvider)
    /\ WF_all(part = "hooks" /\ H!Runner /\ InHooks)
    /\ WF_all(part = "hooks" /\ H!Writer /\ InHooks)
    /\ WF_all(part = "hooks" /\ H!Expire /\ InHooks)
    /\ WF_all(part = "hooks" /\ H!Emit /\ InHooks)
    /\ HelpersEnd => WF_all(part = "hooks" /\ H!HelperEnds /\ InHooks)

ServicesSpec == ServicesInit /\ [][ServicesNext]_all /\ Fairness

(* Workers: what the registry keeps of a worker agrees with itself and with *)
(* what was sent to it, seen of it and logged in this life.                *)
WorkersAreTrue ==
    /\ ReplayIsLostPrompt /\ NoPromptFromEarlierLife /\ OneMisdeliveryPerDispatch
    /\ PromptedMeansBooted /\ ErrorExplainsStatus /\ LogTellsStatus

(* Sub-agents: a manifest tells the truth, a start heals it, its outcome   *)
(* is final and gets there.                                                *)
AgentOutcomes ==
    /\ [](part = "agents" => A!TypeOK /\ A!StatusIsTrue /\ A!StartHeals)
    /\ A!OutcomesStand /\ A!AgentsEnd

(* Tasks: the outcome on the board is the command's, and it gets there.    *)
TaskOutcomes == [](T!TypeOK /\ T!OutcomeIsReal) /\ T!ExitsAreRecorded

(* Plan mode: the mode it replaced is on disk.                             *)
PriorModeIsKept == part = "plan" => P!TypeOK /\ P!PriorModeIsKept

(* Providers: answers arrive, whole, and every request ends.               *)
AnswersArrive ==
    part = "provider" => [](S!AnswersArrive /\ S!NothingIsHalf) /\ S!RequestsEnd

(* Hooks: the run implements its verdict, ends and leaves nothing.         *)
Implements == H!Implements
RunEnds == part = "hooks" => [](H!TypeOK /\ H!NothingLeftBehind) /\ H!RunEnds
=============================================================================
