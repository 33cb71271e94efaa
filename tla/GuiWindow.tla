------------------------------ MODULE GuiWindow ------------------------------
(***************************************************************************)
(* The graphical client (gui/src/main.rs, worker.rs, ui/app.slint): tabs,  *)
(* each with an agent thread, under one UI thread.  A timer of the UI      *)
(* drains the events of all tabs; one dialogue for permissions and one for *)
(* questions serve all tabs, and modal_session is the index of the tab     *)
(* whose answer is awaited.  The dialogues stop the mouse, but the keys of *)
(* the input field go on to work: another tab, a new one, close the tab.   *)
(*                                                                         *)
(* A request for the user is <<tab, number>>.  What is shown and what is   *)
(* answered carry the request the user sees.                               *)
(***************************************************************************)
EXTENDS Naturals, Sequences, SequencesExt

CONSTANTS Tabs,          \* tabs that are ever opened
          MaxPrompts,    \* bound of the model: prompts of a tab
          MaxCalls       \* bound of the model: tool calls of a tab

ASSUME TabsAssumption == Tabs # {}

VARIABLES open, active,  \* the tabs shown, in order, and the index of the active one
          modal,         \* modal_session, 0: none
          perm, question,   \* the request each dialogue shows
          busy, tabBusy, \* the UI's indicator, and what each tab has for it
          agent,         \* the thread of a tab
          cancel,        \* its flag
          prompts, events, replies, answers,   \* channels
          sent,          \* prompts given to a tab so far
          crossed        \* history: a request met another, or a tab was closed under one

window == <<open, active, modal, perm, question>>
channels == <<prompts, events, replies, answers>>
vars == <<window, busy, tabBusy, agent, cancel, channels, sent, crossed>>

None == <<>>
First == CHOOSE t \in Tabs : TRUE         \* the tab there is at the start
NoAgent == [pc |-> "none", asks |-> 0, calls |-> 0, got |-> None]
Event(type, ask) == [type |-> type, ask |-> ask]
Say(type) == <<Event(type, None)>>

Closed(t) == agent[t].pc # "none" /\ t \notin ToSet(open)
Alive(t) == agent[t].pc \notin {"none", "ended"}
InTurn(t) == agent[t].pc \in {"model", "gate", "askPerm", "askUser", "execute", "tool", "save"}
Ask(t) == <<t, agent[t].asks>>

Goto(t, pc) == agent' = [agent EXCEPT ![t].pc = pc]
Send(t, evs) == events' = [events EXCEPT ![t] = IF Closed(t) THEN @ ELSE @ \o evs]

-----------------------------------------------------------------------------
(* The agent thread: worker, and the ConversationRuntime it runs           *)

(* The client is built, or the thread ends after an error.                 *)
StartAgent(t) ==
    /\ agent[t].pc = "start"
    /\ \/ Goto(t, "idle") /\ UNCHANGED events
       \/ Goto(t, "ended") /\ Send(t, Say("over"))
    /\ UNCHANGED <<window, busy, tabBusy, cancel, prompts, replies, answers, sent, crossed>>

(* The flag is lowered when a prompt is taken; prompts that wait outlive   *)
(* their tab.                                                              *)
TakePrompt(t) ==
    /\ agent[t].pc = "idle" /\ prompts[t] > 0
    /\ prompts' = [prompts EXCEPT ![t] = @ - 1]
    /\ cancel' = [cancel EXCEPT ![t] = FALSE]
    /\ Goto(t, "model") /\ Send(t, Say("busy"))
    /\ UNCHANGED <<window, busy, tabBusy, replies, answers, sent, crossed>>

EndAgent(t) ==
    /\ agent[t].pc = "idle" /\ prompts[t] = 0 /\ Closed(t)
    /\ Goto(t, "ended")
    /\ UNCHANGED <<window, busy, tabBusy, cancel, channels, sent, crossed>>

(* The answer has a call, or it is the last one, or there is an error.     *)
(* A cancelled stream is left at its next event.                           *)
Stream(t) ==
    /\ agent[t].pc = "model"
    /\ \/ /\ ~cancel[t] /\ agent[t].calls < MaxCalls
          /\ agent' = [agent EXCEPT ![t].pc = "gate", ![t].calls = @ + 1, ![t].got = None]
          /\ UNCHANGED events
       \/ Goto(t, "save") /\ Send(t, Say("over"))
    /\ UNCHANGED <<window, busy, tabBusy, cancel, prompts, replies, answers, sent, crossed>>

(* The policy lets the call pass, or asks; or the tool asks a question.    *)
Gate(t) ==
    /\ agent[t].pc = "gate"
    /\ \/ Goto(t, "execute") /\ UNCHANGED events
       \/ /\ agent' = [agent EXCEPT ![t].pc = "askPerm", ![t].asks = @ + 1]
          /\ Send(t, Say("busy") \o <<Event("perm", <<t, agent[t].asks + 1>>)>>)
       \/ /\ ~cancel[t]
          /\ agent' = [agent EXCEPT ![t].pc = "askUser", ![t].asks = @ + 1]
          /\ Send(t, Say("busy") \o <<Event("question", <<t, agent[t].asks + 1>>)>>)
    /\ UNCHANGED <<window, busy, tabBusy, cancel, prompts, replies, answers, sent, crossed>>

(* GuiPermissionPrompter::decide: the next reply there is, or "ui          *)
(* disconnected".                                                          *)
TakeReply(t) ==
    /\ agent[t].pc = "askPerm"
    /\ \/ /\ replies[t] # <<>>
          /\ replies' = [replies EXCEPT ![t] = Tail(@)]
          /\ agent' = [agent EXCEPT ![t].pc = IF Head(replies[t]).allow THEN "execute" ELSE "model",
                                    ![t].got = Head(replies[t]).ask]
       \/ /\ replies[t] = <<>> /\ Closed(t)
          /\ Goto(t, "model") /\ UNCHANGED replies
    /\ UNCHANGED <<window, busy, tabBusy, cancel, prompts, events, answers, sent, crossed>>

(* Faulty variant: a closed tab is waited for.                             *)
TakeAnswerOfOpenTab(t) ==
    /\ agent[t].pc = "askUser" /\ answers[t] # <<>>
    /\ answers' = [answers EXCEPT ![t] = Tail(@)]
    /\ agent' = [agent EXCEPT ![t].pc = "model", ![t].got = Head(answers[t])]
    /\ UNCHANGED <<window, busy, tabBusy, cancel, prompts, events, replies, sent, crossed>>

(* ask_user                                                                *)
TakeAnswer(t) ==
    /\ agent[t].pc = "askUser"
    /\ \/ /\ answers[t] # <<>>
          /\ answers' = [answers EXCEPT ![t] = Tail(@)]
          /\ agent' = [agent EXCEPT ![t].pc = "model", ![t].got = Head(answers[t])]
       \/ answers[t] = <<>> /\ Closed(t) /\ Goto(t, "model") /\ UNCHANGED answers
    /\ UNCHANGED <<window, busy, tabBusy, cancel, prompts, events, replies, sent, crossed>>

(* GuiToolExecutor::execute, and the next request.                         *)
Execute(t) ==
    /\ agent[t].pc = "execute"
    /\ IF cancel[t] THEN Goto(t, "model") /\ UNCHANGED events
       ELSE Goto(t, "tool") /\ Send(t, Say("busy"))
    /\ UNCHANGED <<window, busy, tabBusy, cancel, prompts, replies, answers, sent, crossed>>

ToolEnds(t) ==
    /\ agent[t].pc = "tool"
    /\ agent' = [agent EXCEPT ![t].pc = "model", ![t].got = None] /\ Send(t, Say("busy"))
    /\ UNCHANGED <<window, busy, tabBusy, cancel, prompts, replies, answers, sent, crossed>>

(* The session is saved, whatever came of the turn.                        *)
Save(t) ==
    /\ agent[t].pc = "save"
    /\ agent' = [agent EXCEPT ![t].pc = "idle", ![t].got = None] /\ Send(t, Say("idle"))
    /\ UNCHANGED <<window, busy, tabBusy, cancel, prompts, replies, answers, sent, crossed>>

-----------------------------------------------------------------------------
(* The timer: drain_session of every tab, then the dialogue's tab is made  *)
(* the active one.                                                         *)

(* The last event about the indicator decides.                             *)
BusyAfter(evs, b) ==
    LET said == {k \in DOMAIN evs : evs[k].type \in {"busy", "over", "idle"}}
    IN IF said = {} THEN b
       ELSE \E k \in said : evs[k].type = "busy" /\ \A j \in said : j <= k

(* The requests of some kinds among events, and the tabs with such.        *)
AsksIn(evs, types) == {k \in DOMAIN evs : evs[k].type \in types}
Asking(types) == {i \in 1..Len(open) : AsksIn(events[open[i]], types) # {}}

Requests == {"perm", "question"}
Several == \/ \E i, j \in Asking(Requests) : i # j
           \/ \E i \in Asking(Requests) : \E k, l \in AsksIn(events[open[i]], Requests) : k # l

(* A dialogue shows the last request of its kind.                          *)
Shown(type, now) ==
    IF Asking({type}) = {} THEN now
    ELSE LET evs == events[open[Max(Asking({type}))]] IN evs[Max(AsksIn(evs, {type}))].ask

Opened == Asking(Requests)

(* Faulty variant: only the dialogue of the active tab is remembered.      *)
TickActiveOnly ==
    /\ \E t \in ToSet(open) : events[t] # <<>>
    /\ events' = [t \in Tabs |-> IF t \in ToSet(open) THEN <<>> ELSE events[t]]
    /\ tabBusy' = [t \in Tabs |-> IF t \in ToSet(open) THEN BusyAfter(events[t], tabBusy[t]) ELSE tabBusy[t]]
    /\ perm' = Shown("perm", perm) /\ question' = Shown("question", question)
    /\ modal' = IF active \in Opened THEN active ELSE modal
    /\ busy' = BusyAfter(events[open[active]], busy)
    /\ crossed' = (crossed \/ Several
                   \/ (Opened # {} /\ (perm # None \/ question # None)))
    /\ UNCHANGED <<open, active, agent, cancel, prompts, replies, answers, sent>>

Tick ==
    /\ \E t \in ToSet(open) : events[t] # <<>>
    /\ events' = [t \in Tabs |-> IF t \in ToSet(open) THEN <<>> ELSE events[t]]
    /\ tabBusy' = [t \in Tabs |-> IF t \in ToSet(open) THEN BusyAfter(events[t], tabBusy[t]) ELSE tabBusy[t]]
    /\ perm' = Shown("perm", perm) /\ question' = Shown("question", question)
    /\ modal' = IF Opened = {} THEN modal ELSE Max(Opened)
    /\ active' = IF Opened = {} THEN active ELSE Max(Opened)
    /\ busy' = IF active' # active THEN tabBusy'[open[active']] ELSE BusyAfter(events[open[active]], busy)
    /\ crossed' = (crossed \/ Several
                   \/ (Opened # {} /\ (perm # None \/ question # None)))
    /\ UNCHANGED <<open, agent, cancel, prompts, replies, answers, sent>>

-----------------------------------------------------------------------------
(* The user *)

Mouse == perm = None /\ question = None

(* on_send: a prompt to a thread that has ended is lost.                   *)
SendPrompt ==
    LET t == open[active] IN
    /\ sent[t] < MaxPrompts /\ sent' = [sent EXCEPT ![t] = @ + 1]
    /\ prompts' = IF Alive(t) THEN [prompts EXCEPT ![t] = @ + 1] ELSE prompts
    /\ busy' = TRUE
    /\ UNCHANGED <<window, tabBusy, agent, cancel, events, replies, answers, crossed>>

Interrupt ==
    /\ busy /\ cancel' = [cancel EXCEPT ![open[active]] = TRUE]
    /\ UNCHANGED <<window, busy, tabBusy, agent, channels, sent, crossed>>

(* Faulty variant: the indicator stays as it was.                          *)
ActivateOnly(tabs, i) == open' = tabs /\ active' = i /\ UNCHANGED busy

(* apply_active                                                            *)
Activate(tabs, i) == open' = tabs /\ active' = i /\ busy' = tabBusy[tabs[i]]

NewTab ==
    /\ \E t \in Tabs : /\ agent[t].pc = "none"
                       /\ Goto(t, "start") /\ Activate(Append(open, t), Len(open) + 1)
    /\ UNCHANGED <<modal, perm, question, tabBusy, cancel, channels, sent, crossed>>

SelectTab ==
    /\ \E i \in 1..Len(open) : i # active /\ Activate(open, i)
    /\ UNCHANGED <<modal, perm, question, tabBusy, agent, cancel, channels, sent, crossed>>

(* close_tab with the mouse, close_current with a key.                     *)
CloseTab ==
    /\ Len(open) > 1
    /\ \E i \in 1..Len(open) :
         /\ Mouse \/ i = active
         /\ Activate(RemoveAt(open, i), IF active > Len(open) - 1 THEN Len(open) - 1
                                        ELSE IF i < active THEN active - 1 ELSE active)
    /\ crossed' = (crossed \/ ~Mouse)
    /\ UNCHANGED <<modal, perm, question, tabBusy, agent, cancel, channels, sent>>

(* Faulty variant: the answer goes to the tab in front.                    *)
ReplyToActive ==
    /\ perm # None /\ question = None
    /\ \E allow \in BOOLEAN :
         replies' = [replies EXCEPT ![open[active]] = Append(@, [ask |-> perm, allow |-> allow])]
    /\ perm' = None /\ modal' = 0
    /\ UNCHANGED <<open, active, question, busy, tabBusy, agent, cancel, prompts, events, answers, sent, crossed>>

(* reply_perm; the dialogue of a question covers the other one.            *)
ReplyPerm ==
    /\ perm # None /\ question = None
    /\ \E allow \in BOOLEAN :
         replies' = IF modal \in 1..Len(open)
                    THEN [replies EXCEPT ![open[modal]] = Append(@, [ask |-> perm, allow |-> allow])]
                    ELSE replies
    /\ perm' = None /\ modal' = 0
    /\ UNCHANGED <<open, active, question, busy, tabBusy, agent, cancel, prompts, events, answers, sent, crossed>>

ReplyQuestion ==
    /\ question # None
    /\ answers' = IF modal \in 1..Len(open)
                  THEN [answers EXCEPT ![open[modal]] = Append(@, question)] ELSE answers
    /\ question' = None /\ modal' = 0
    /\ UNCHANGED <<open, active, perm, busy, tabBusy, agent, cancel, prompts, events, replies, sent, crossed>>

-----------------------------------------------------------------------------
Init ==
    /\ open = <<First>>
    /\ agent = [t \in Tabs |-> IF t = First THEN [NoAgent EXCEPT !.pc = "start"] ELSE NoAgent]
    /\ active = 1 /\ modal = 0 /\ perm = None /\ question = None
    /\ busy = FALSE /\ tabBusy = [t \in Tabs |-> FALSE] /\ cancel = [t \in Tabs |-> FALSE]
    /\ prompts = [t \in Tabs |-> 0] /\ sent = [t \in Tabs |-> 0]
    /\ events = [t \in Tabs |-> <<>>] /\ replies = [t \in Tabs |-> <<>>] /\ answers = [t \in Tabs |-> <<>>]
    /\ crossed = FALSE

AgentStep(t) ==
    \/ StartAgent(t) \/ TakePrompt(t) \/ EndAgent(t) \/ Stream(t) \/ Gate(t)
    \/ TakeReply(t) \/ TakeAnswer(t) \/ Execute(t) \/ ToolEnds(t) \/ Save(t)
Reply == ReplyPerm \/ ReplyQuestion

Next ==
    \/ \E t \in Tabs : AgentStep(t)
    \/ Tick \/ SendPrompt \/ Interrupt \/ NewTab \/ SelectTab \/ CloseTab \/ Reply

(* Threads are scheduled, requests and tools return, the timer fires and   *)
(* the user answers what he is shown.                                      *)
Fairness == WF_vars(Tick) /\ WF_vars(Reply) /\ \A t \in Tabs : WF_vars(AgentStep(t))
Spec == Init /\ [][Next]_vars /\ Fairness

-----------------------------------------------------------------------------
(* Properties *)

(* The active tab is one of those shown, each shown once, a tab that has a *)
(* thread was opened, and unless requests crossed the tab that waits for   *)
(* an answer is shown too.                                                 *)
TypeOK ==
    /\ active \in 1..Len(open) /\ busy \in BOOLEAN
    /\ modal \in Nat /\ (~crossed => modal \in 0..Len(open))
    /\ \A i, j \in 1..Len(open) : open[i] = open[j] => i = j
    /\ \A t \in ToSet(open) : agent[t].pc # "none"
    /\ tabBusy \in [Tabs -> BOOLEAN] /\ cancel \in [Tabs -> BOOLEAN]

(* An answer is taken by the agent whose request the user saw.             *)
AnswersReachAsker == \A t \in Tabs : agent[t].got \in {None, Ask(t)}

(* The same as long as no request comes while another is shown and no tab  *)
(* is closed under a dialogue; the user may go from tab to tab meanwhile.  *)
AnswersFit == ~crossed => AnswersReachAsker

(* When all is drained, the indicator and the mark of each tab say whether *)
(* its thread is in a turn.  (A prompt to a thread that has ended leaves   *)
(* the indicator lit.)                                                     *)
BusyIsTrue ==
    /\ \A t \in ToSet(open) :
         Alive(t) /\ events[t] = <<>> /\ prompts[t] = 0 => (tabBusy[t] <=> InTurn(t) /\ agent[t].pc # "save")
    /\ LET t == open[active] IN
         Alive(t) /\ events[t] = <<>> /\ prompts[t] = 0 => (busy <=> tabBusy[t])

(* No agent waits for ever: the user is shown its request, in whichever    *)
(* tab it is, and what he says reaches it, if requests did not cross.      *)
RequestsAreAnswered ==
    \A t \in Tabs : agent[t].pc \in {"askPerm", "askUser"}
                      ~> agent[t].pc \notin {"askPerm", "askUser"} \/ crossed

(* The thread of a closed tab ends, wherever it was.                       *)
ClosedTabsEnd == \A t \in Tabs : Closed(t) ~> agent[t].pc = "ended"
=============================================================================
