------------------------------ MODULE AgentTab ------------------------------
(***************************************************************************)
(* One tab of the terminal UI and the agent threads it has spawned:        *)
(* rusty-claude-cli/src/appui/ui.rs and worker.rs.                         *)
(*                                                                         *)
(* The UI thread and an agent thread share two channels (prompts one way,  *)
(* events the other), two reply channels and a cancel flag.  The tab talks *)
(* to one agent, the current one; /compact, /rewind, /plan, /model and a   *)
(* forced abort replace it and drop its handle.  The replaced thread is    *)
(* not joined: it runs on until it notices its channels are closed, and    *)
(* all agents of a tab write the same session file.                        *)
(*                                                                         *)
(* A session is abstracted to which turns its messages belong to: what     *)
(* compaction has summarised, then the user's message and the agent's      *)
(* answer of each turn.  Text, usage and the activity label are left out.  *)
(***************************************************************************)
EXTENDS Integers, Sequences, FiniteSets

CONSTANTS
  MaxTurns,      \* bound: prompts the user submits
  MaxAgents,     \* bound: agent threads spawned
  MaxTools,      \* bound: tool calls in a turn (the code's is usize::MAX)
  Preserve,      \* messages compaction keeps (CompactionConfig: 4)
  StartMayFail,  \* whether building the API client may fail
  NoFile

ASSUME TabAssumption ==
  /\ MaxTurns \in Nat /\ MaxAgents \in Nat \ {0} /\ MaxTools \in Nat
  /\ Preserve \in Nat
  /\ StartMayFail \in BOOLEAN

VARIABLES
  running,          \* Tab.running
  cancelRequested,  \* Tab.cancel_requested
  modal,            \* Tab.modal
  current,          \* the agent behind Tab.handle; 0 once the tab is closed
  turns,            \* prompts submitted so far
  spawned,          \* agents spawned so far
  agent,            \* the agents' own state and their channels
  disk,             \* the session file
  \* history, read by no action:
  reported,         \* turns whose end the UI has been told
  rewound,          \* turns /rewind took out of the file
  overlapped        \* an agent was replaced before it had gone idle

ui == <<running, cancelRequested, modal, current, turns, spawned>>
history == <<reported, rewound, overlapped>>
vars == <<ui, agent, disk, history>>

-----------------------------------------------------------------------------
Agents == 1..MaxAgents
Spawned == 1..spawned
Turns == 0..MaxTurns      \* 0: what was there when the tab was opened

Message == [turn : Turns, by : {"user", "agent"}]
Session == [summary : SUBSET Turns, messages : Seq(Message)]

NewSession == [summary |-> {}, messages |-> <<>>]
OldSession == [summary |-> {},
               messages |-> <<[turn |-> 0, by |-> "user"],
                              [turn |-> 0, by |-> "agent"]>>]

\* The turns a session still knows of.
TurnsIn(s) == s.summary \cup {s.messages[i].turn : i \in DOMAIN s.messages}

Asks == {"permission", "question"}
InTurn == {"request", "stream", "dispatch", "permission", "execute", "work",
           "question"}
Pc == InTurn \cup {"start", "wait", "save", "gone"}

Agent == [ pc       : Pc,
           cancel   : BOOLEAN,           \* AgentHandle.cancel
           session  : Session,           \* ConversationRuntime.session
           persists : BOOLEAN,           \* Session.persistence is Some
           turn     : Turns,             \* the turn being run
           tools    : Nat,               \* tool calls of this turn
           inbox    : Seq(Turns),        \* to_agent
           outbox   : Seq(Asks \cup {"done", "error"}),  \* from_agent
           replies  : [Asks -> Seq(BOOLEAN)],  \* permission_reply and
                                               \* question_reply
           told     : BOOLEAN ]          \* history: Esc was pressed while
                                         \* this turn was running

NewAgent(session, persists) ==
  [ pc |-> "start", cancel |-> FALSE, session |-> session,
    persists |-> persists, turn |-> 0, tools |-> 0, inbox |-> <<>>,
    outbox |-> <<>>, replies |-> [ask \in Asks |-> <<>>], told |-> FALSE ]

\* Tab::new, or Tab::from_session on a file load_recent_sessions found.
Init ==
  /\ running = FALSE /\ cancelRequested = FALSE /\ modal = "none"
  /\ current = 1 /\ turns = 0 /\ spawned = 1
  /\ \E loaded \in BOOLEAN :
       LET s == IF loaded THEN OldSession ELSE NewSession
       IN /\ agent = [g \in Agents |-> NewAgent(s, loaded)]
          /\ disk = IF loaded THEN s ELSE NoFile
  /\ reported = {} /\ rewound = {} /\ overlapped = FALSE

-----------------------------------------------------------------------------
(***************************************************************************)
(* The agent thread.                                                       *)
(***************************************************************************)

Connected(g) == g = current

Become(g, a) == agent' = [agent EXCEPT ![g] = a]

\* TuiApiClient::new, before the command loop.
Start(g) ==
  /\ agent[g].pc = "start"
  /\ Become(g, [agent[g] EXCEPT !.pc = "wait"])
  /\ UNCHANGED <<ui, disk, history>>

\* It fails: the thread tells the UI and ends, and its prompts with it.
FailToStart(g) ==
  /\ StartMayFail
  /\ agent[g].pc = "start"
  /\ Become(g, [agent[g] EXCEPT !.pc = "gone", !.inbox = <<>>,
                                !.outbox = Append(@, "error")])
  /\ UNCHANGED <<ui, disk, history>>

\* Session::push_message: the message goes to memory and, in a session that
\* has a persistence path, to the end of the file as it is by now, or into a
\* new file with all the session.
Pushed(a, by) == Append(a.session.messages, [turn |-> a.turn, by |-> by])

Persist(a, by) ==
  disk' = IF ~a.persists THEN disk
          ELSE IF disk = NoFile
               THEN [a.session EXCEPT !.messages = Pushed(a, by)]
               ELSE [disk EXCEPT !.messages =
                       Append(@, [turn |-> a.turn, by |-> by])]

\* The command loop takes a prompt: the cancel flag is reset, and run_turn
\* pushes the user's text.
ReceivePrompt(g) ==
  LET a == [agent[g] EXCEPT !.turn = Head(agent[g].inbox)]
  IN /\ agent[g].pc = "wait"
     /\ agent[g].inbox # <<>>
     /\ Become(g, [a EXCEPT !.pc = "request", !.cancel = FALSE, !.tools = 0,
                            !.inbox = Tail(@), !.told = FALSE,
                            !.session.messages = Pushed(a, "user")])
     /\ Persist(a, "user")
     /\ UNCHANGED <<ui, history>>

\* Faulty variant: only an aborted agent looks whether its channel is closed.
ExitWhenCancelled(g) ==
  /\ agent[g].pc = "wait"
  /\ agent[g].inbox = <<>>
  /\ agent[g].cancel
  /\ ~Connected(g)
  /\ Become(g, [agent[g] EXCEPT !.pc = "gone"])
  /\ UNCHANGED <<ui, disk, history>>

\* The loop ends when the handle is dropped and the channel is empty.
Exit(g) ==
  /\ agent[g].pc = "wait"
  /\ agent[g].inbox = <<>>
  /\ ~Connected(g)
  /\ Become(g, [agent[g] EXCEPT !.pc = "gone"])
  /\ UNCHANGED <<ui, disk, history>>

\* The first event of the reply finds the flag down: the stream is consumed.
BeginStream(g) ==
  /\ agent[g].pc = "request"
  /\ ~agent[g].cancel
  /\ Become(g, [agent[g] EXCEPT !.pc = "stream"])
  /\ UNCHANGED <<ui, disk, history>>

\* What the agent sends goes nowhere once the handle is dropped.
Sent(g, e) == IF Connected(g) THEN Append(agent[g].outbox, e) ELSE agent[g].outbox

\* A network error, or a stream left at its first event because of the
\* cancel flag, from which no assistant message can be built.
FailTurn(g) ==
  /\ agent[g].pc \in {"request", "stream"}
  /\ Become(g, [agent[g] EXCEPT !.pc = "save", !.outbox = Sent(g, "error"),
                                !.told = FALSE])
  /\ UNCHANGED <<ui, disk, history>>

\* compact_session: all but the last messages become part of the summary.
Compacted(s) ==
  LET cut == Len(s.messages) - Preserve
  IN IF cut <= 0 THEN s
     ELSE [summary  |-> s.summary \cup {s.messages[i].turn : i \in 1..cut},
           messages |-> SubSeq(s.messages, cut + 1, Len(s.messages))]

\* A reply without tool calls ends the turn; maybe_auto_compact() then
\* compacts the session in memory once enough tokens have been used.
Answer(g) ==
  LET a == [agent[g] EXCEPT !.session.messages = Pushed(agent[g], "agent")]
  IN /\ a.pc = "stream"
     /\ \E session \in {a.session, Compacted(a.session)} :
          Become(g, [a EXCEPT !.pc = "save", !.outbox = Sent(g, "done"),
                              !.told = FALSE, !.session = session])
     /\ Persist(agent[g], "agent")
     /\ UNCHANGED <<ui, history>>

\* A reply with tool calls.
CallTools(g) ==
  /\ agent[g].pc = "stream"
  /\ agent[g].tools < MaxTools
  /\ Become(g, [agent[g] EXCEPT !.pc = "dispatch", !.tools = @ + 1])
  /\ UNCHANGED <<ui, disk, history>>

\* A tool call has its result: the next one, or the results go to the model.
Continue(g, a) ==
  \/ Become(g, [a EXCEPT !.pc = "request"])
  \/ /\ a.tools < MaxTools
     /\ Become(g, [a EXCEPT !.pc = "dispatch", !.tools = @ + 1])

\* Hooks and policy allow the call, have the user asked, or deny it.
Dispatch(g) ==
  /\ agent[g].pc = "dispatch"
  /\ \/ Become(g, [agent[g] EXCEPT !.pc = "execute"])
     \/ Become(g, [agent[g] EXCEPT !.pc = "permission",
                                   !.outbox = Sent(g, "permission")])
     \/ Continue(g, agent[g])
  /\ UNCHANGED <<ui, disk, history>>

\* What recv() on a reply channel may return: the next reply, or a refusal
\* once the UI's end is gone; nothing yet otherwise.
Received(g, ask) ==
  LET a == agent[g]
  IN IF a.replies[ask] # <<>>
     THEN {[agent |-> [a EXCEPT !.replies[ask] = Tail(@)],
            yes   |-> Head(a.replies[ask])]}
     ELSE IF Connected(g) THEN {} ELSE {[agent |-> a, yes |-> FALSE]}

\* GuiPermissionPrompter::decide.
TakePermission(g) ==
  /\ agent[g].pc = "permission"
  /\ \E r \in Received(g, "permission") :
       \/ r.yes /\ Become(g, [r.agent EXCEPT !.pc = "execute"])
       \/ ~r.yes /\ Continue(g, r.agent)
  /\ UNCHANGED <<ui, disk, history>>

\* Faulty variant: the flag is not looked at before a tool runs.
ExecuteRegardless(g) ==
  /\ agent[g].pc = "execute"
  /\ Become(g, [agent[g] EXCEPT !.pc = "work"])
  /\ UNCHANGED <<ui, disk, history>>

\* GuiToolExecutor::execute: refused when cancelled; otherwise the tool runs,
\* or the tool is AskUserQuestion (or the review of an external consultation).
Execute(g) ==
  /\ agent[g].pc = "execute"
  /\ \/ agent[g].cancel /\ Continue(g, agent[g])
     \/ ~agent[g].cancel /\ Become(g, [agent[g] EXCEPT !.pc = "work"])
     \/ ~agent[g].cancel /\ Become(g, [agent[g] EXCEPT !.pc = "question",
                                              !.outbox = Sent(g, "question")])
  /\ UNCHANGED <<ui, disk, history>>

FinishWork(g) ==
  /\ agent[g].pc = "work"
  /\ Continue(g, agent[g])
  /\ UNCHANGED <<ui, disk, history>>

\* ask_user and run_external_consult get their answer, or none.
TakeAnswer(g) ==
  /\ agent[g].pc = "question"
  /\ \E r \in Received(g, "question") : Continue(g, r.agent)
  /\ UNCHANGED <<ui, disk, history>>

\* Faulty variant: only new sessions are saved, the others were appended to.
SaveNewOnly(g) ==
  /\ agent[g].pc = "save"
  /\ Become(g, [agent[g] EXCEPT !.pc = "wait"])
  /\ disk' = IF agent[g].persists THEN disk ELSE agent[g].session
  /\ UNCHANGED <<ui, history>>

\* save_to_path, after the end of the turn has been announced.
Save(g) ==
  /\ agent[g].pc = "save"
  /\ Become(g, [agent[g] EXCEPT !.pc = "wait"])
  /\ disk' = agent[g].session
  /\ UNCHANGED <<ui, history>>

AgentStep(g) ==
  \/ Start(g) \/ FailToStart(g)
  \/ ReceivePrompt(g) \/ Exit(g)
  \/ BeginStream(g) \/ FailTurn(g) \/ Answer(g)
  \/ CallTools(g) \/ Dispatch(g) \/ TakePermission(g) \/ Execute(g) \/ FinishWork(g) \/ TakeAnswer(g)
  \/ Save(g)

-----------------------------------------------------------------------------
(***************************************************************************)
(* The UI thread.                                                          *)
(***************************************************************************)

Open == current # 0
NoModal == Open /\ modal = "none"      \* on_key: a modal takes all keys

\* submit and dispatch_macro; a prompt to an agent that is gone is dropped.
Submit ==
  /\ NoModal /\ ~running
  /\ turns < MaxTurns
  /\ turns' = turns + 1
  /\ running' = TRUE /\ cancelRequested' = FALSE
  /\ agent' = IF agent[current].pc = "gone" THEN agent
              ELSE [agent EXCEPT ![current].inbox = Append(@, turns + 1)]
  /\ UNCHANGED <<modal, current, spawned, disk, history>>

\* Faulty variants: any event opens a modal; every event lowers the flag.
DrainAnyAsk ==
  /\ Open
  /\ agent[current].outbox # <<>>
  /\ modal' = Head(agent[current].outbox)
  /\ agent' = [agent EXCEPT ![current].outbox = Tail(@)]
  /\ UNCHANGED <<running, cancelRequested, current, turns, spawned, disk, history>>

DrainAskResets ==
  /\ Open
  /\ agent[current].outbox # <<>>
  /\ Head(agent[current].outbox) \in Asks
  /\ modal' = Head(agent[current].outbox)
  /\ agent' = [agent EXCEPT ![current].outbox = Tail(@), ![current].cancel = FALSE]
  /\ UNCHANGED <<running, cancelRequested, current, turns, spawned, disk, history>>

\* Tab::apply on the next event of the current agent.
DrainAsk ==
  /\ Open
  /\ agent[current].outbox # <<>>
  /\ Head(agent[current].outbox) \in Asks
  /\ modal' = Head(agent[current].outbox)
  /\ agent' = [agent EXCEPT ![current].outbox = Tail(@)]
  /\ UNCHANGED <<running, cancelRequested, current, turns, spawned, disk, history>>

\* Faulty variant: an error does not end the turn.
DrainDone ==
  /\ Open
  /\ agent[current].outbox # <<>>
  /\ Head(agent[current].outbox) \in {"done", "error"}
  /\ IF Head(agent[current].outbox) = "error"
     THEN UNCHANGED <<running, cancelRequested>>
     ELSE running' = FALSE /\ cancelRequested' = FALSE
  /\ agent' = [agent EXCEPT ![current].outbox = Tail(@), ![current].cancel = FALSE]
  /\ UNCHANGED <<modal, current, turns, spawned, disk, history>>

DrainEnd ==
  /\ Open
  /\ agent[current].outbox # <<>>
  /\ Head(agent[current].outbox) \in {"done", "error"}
  /\ running' = FALSE /\ cancelRequested' = FALSE
  /\ agent' = [agent EXCEPT ![current].outbox = Tail(@), ![current].cancel = FALSE]
  /\ reported' = reported \cup ({agent[current].turn} \ {0})
  /\ UNCHANGED <<modal, current, turns, spawned, disk, rewound, overlapped>>

\* Faulty variant: the modal stays open.
ReplyAgain ==
  /\ Open /\ modal # "none"
  /\ \E yes \in BOOLEAN :
       agent' = [agent EXCEPT ![current].replies[modal] = Append(@, yes)]
  /\ UNCHANGED <<ui, disk, history>>

\* on_modal_key: the reply goes to the agent the tab has now.
Reply ==
  /\ Open /\ modal # "none"
  /\ \E yes \in BOOLEAN :
       agent' = [agent EXCEPT ![current].replies[modal] = Append(@, yes)]
  /\ modal' = "none"
  /\ UNCHANGED <<running, cancelRequested, current, turns, spawned, disk, history>>

\* cancel_turn, the first time.
CancelTurn ==
  /\ NoModal /\ running /\ ~cancelRequested
  /\ cancelRequested' = TRUE
  /\ agent' = [agent EXCEPT ![current].cancel = TRUE,
                            ![current].told = agent[current].pc \in InTurn]
  /\ UNCHANGED <<running, modal, current, turns, spawned, disk, history>>

\* A fresh agent takes the tab over; `a' are the agents as they are left.
Replace(a, session, persists) ==
  /\ spawned < MaxAgents
  /\ spawned' = spawned + 1
  /\ current' = spawned + 1
  /\ agent' = [a EXCEPT ![spawned + 1] = NewAgent(session, persists)]
  /\ overlapped' = (overlapped \/ a[current].pc \notin {"start", "wait", "gone"}
                               \/ a[current].inbox # <<>>)

\* Faulty variant: the tab is freed without a fresh agent.
ForceAbortOnlyUi ==
  /\ NoModal /\ running /\ cancelRequested
  /\ running' = FALSE /\ cancelRequested' = FALSE
  /\ agent' = [agent EXCEPT ![current].cancel = TRUE]
  /\ UNCHANGED <<modal, current, turns, spawned, disk, history>>

\* cancel_turn, the second time: force_abort_turn.
ForceAbort ==
  /\ NoModal /\ running /\ cancelRequested
  /\ LET a == [agent EXCEPT ![current].cancel = TRUE]
     IN IF disk = NoFile THEN Replace(a, NewSession, FALSE)
                         ELSE Replace(a, disk, TRUE)
  /\ running' = FALSE /\ cancelRequested' = FALSE
  /\ UNCHANGED <<modal, turns, disk, reported, rewound>>

\* A command at the prompt that works on the saved session.
Command == NoModal /\ ~running /\ disk # NoFile

\* /plan and /model: respawn_active.
Respawn ==
  /\ Command
  /\ Replace(agent, disk, TRUE)
  /\ UNCHANGED <<running, cancelRequested, modal, turns, disk, reported, rewound>>

\* /compact: compact_active.
Compact ==
  /\ Command
  /\ disk' = Compacted(disk)
  /\ Replace(agent, Compacted(disk), TRUE)
  /\ UNCHANGED <<running, cancelRequested, modal, turns, reported, rewound>>

UserPositions(s) == {i \in DOMAIN s.messages : s.messages[i].by = "user"}

\* Going back n turns: the messages from the n-th last user message on are
\* cut off; with no turn left over, everything is, the summary included.
Rewound(s, n) ==
  LET kept == Cardinality(UserPositions(s)) - n
  IN IF kept <= 0 THEN NewSession
     ELSE LET at == CHOOSE i \in UserPositions(s) :
                      Cardinality({j \in UserPositions(s) : j < i}) = kept
          IN [s EXCEPT !.messages = SubSeq(@, 1, at - 1)]

\* /rewind: rewind_active.
Rewind ==
  /\ Command
  /\ UserPositions(disk) # {}
  /\ \E n \in 1..2 :
       /\ disk' = Rewound(disk, n)
       /\ Replace(agent, Rewound(disk, n), TRUE)
  /\ rewound' = rewound \cup (TurnsIn(disk) \ TurnsIn(disk'))
  /\ UNCHANGED <<running, cancelRequested, modal, turns, reported>>

\* close_tab removes the file; the thread is left to itself.
CloseTab ==
  /\ NoModal
  /\ current' = 0
  /\ disk' = NoFile
  /\ UNCHANGED <<running, cancelRequested, modal, turns, spawned, agent, history>>

Drain == DrainAsk \/ DrainEnd

User == Submit \/ Reply \/ CancelTurn \/ ForceAbort \/ Respawn \/ Compact
          \/ Rewind \/ CloseTab

Next == Drain \/ User \/ \E g \in Spawned : AgentStep(g)

Spec == Init /\ [][Next]_vars

\* Threads are scheduled, requests and tools end, the UI loop polls its
\* channels and the user answers what a modal asks; nothing obliges him to
\* submit, cancel or close anything.
Fairness ==
  /\ WF_vars(Drain)
  /\ WF_vars(Reply)
  /\ \A g \in Agents : WF_vars(g \in Spawned /\ AgentStep(g))

FairSpec == Spec /\ Fairness

-----------------------------------------------------------------------------
(***************************************************************************)
(* Properties.                                                             *)
(***************************************************************************)

TypeOK ==
  /\ running \in BOOLEAN /\ cancelRequested \in BOOLEAN
  /\ modal \in Asks \cup {"none"}
  /\ spawned \in Agents /\ current \in 0..spawned
  /\ turns \in Turns
  /\ agent \in [Agents -> Agent]
  /\ disk \in Session \cup {NoFile}
  /\ reported \subseteq Turns /\ rewound \subseteq Turns
  /\ overlapped \in BOOLEAN

\* How many entries of a channel are of these kinds.
Count(q, kinds) == Cardinality({i \in DOMAIN q : q[i] \in kinds})

\* The current agent waits for a reply exactly when its question is on the
\* way to the user, on his screen, or answered: nobody waits for an answer
\* that is not asked, and no answer is left over for a later question.
QuestionsMatchAnswers ==
  Open => \A ask \in Asks :
    LET asked    == Count(agent[current].outbox, {ask})
        shown    == IF modal = ask THEN 1 ELSE 0
        answered == Len(agent[current].replies[ask])
    IN asked + shown + answered = IF agent[current].pc = ask THEN 1 ELSE 0

\* When the prompt accepts input, the current agent has no turn to run: a
\* command that reads and replaces the session never meets a turn under way.
IdleTabHasIdleAgent ==
  Open /\ ~running =>
    /\ agent[current].inbox = <<>>
    /\ agent[current].pc \notin InTurn
    /\ modal = "none"

\* Questions and answers pair up, and an idle tab has an idle agent.
QuestionsArePaired == TypeOK /\ IdleTabHasIdleAgent /\ QuestionsMatchAnswers

\* Esc pressed while a turn runs stays in force until that turn ends: from
\* then on the turn starts no tool.
NoToolAfterCancel ==
  [][\A g \in Spawned : agent[g].told => ~(agent[g].pc # "work" /\ agent'[g].pc = "work")]_vars

\* As long as no agent was replaced in the middle of something, an agent that
\* waits for the next prompt has its whole session on file.
IdleAgentIsSaved ==
  Open /\ ~overlapped =>
    \/ agent[current].pc \notin {"start", "wait"}
    \/ agent[current].session.messages = <<>>
    \/ disk = agent[current].session

\* A turn ends for the user, whatever it asks him on the way, unless he
\* closes the tab or its agent never came up.
TurnsEnd == running ~> (~running \/ ~Open \/ agent[current].pc = "gone")

\* A replaced agent's thread ends by itself.
OrphansEnd ==
  \A g \in Agents : (g \in Spawned /\ g # current) ~> agent[g].pc = "gone"

-----------------------------------------------------------------------------
\* All threads are idle and nothing is under way.
Quiet ==
  \A g \in Spawned : agent[g].pc \in {"start", "wait", "gone"} /\ agent[g].inbox = <<>>

\* worker.rs:231: the session is saved always, even after an error, "so that
\* the history is not lost": a turn whose end was shown stays on file unless
\* /rewind takes it back.
NoFinishedTurnLost ==
  Open /\ Quiet =>
    \A t \in reported \ rewound : disk # NoFile /\ t \in TurnsIn(disk)
=============================================================================
