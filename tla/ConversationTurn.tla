-------------------------- MODULE ConversationTurn --------------------------
(***************************************************************************)
(* ConversationRuntime::run_turn (runtime/conversation.rs): the loop of    *)
(* model requests and tool calls of a turn, with the hooks, the permission *)
(* policy and the session it writes, and the two programs that drive it.   *)
(* The REPL runs every turn on a runtime built from the session it keeps   *)
(* and drops that runtime when the turn fails; a tab's agent keeps its     *)
(* runtime and saves its session after every turn.                         *)
(*                                                                         *)
(* The permission decision is Permissions!Authorize and the verdicts of    *)
(* the hooks are those of HookRun.                                         *)
(***************************************************************************)
EXTENDS Integers, Sequences, FiniteSets

CONSTANTS Tools, Rules, Required, NoText,
          InputNames,      \* names of the inputs of tools ...
          InputOf,         \* ... and what they hold, for the rules
          TurnPolicies,        \* the policies a turn may run under
          Answers,         \* what a hook may print (see HookRun)
          Hooked,          \* BOOLEAN: are pre and post hooks configured?
          HasPrompter,     \* BOOLEAN: is there anybody to ask?
          Drivers,         \* "repl", "tab": the programs that run the turns
          PushMayFail,     \* BOOLEAN: may appending to the session file fail?
          MaxIterations,   \* with_max_iterations
          Threshold,       \* input tokens that trigger the compaction
          Preserve,        \* recent messages a compaction preserves
          Usages,          \* input tokens of a request, 0 where no usage is sent
          MaxTurns, MaxCalls      \* bounds of the model

ASSUME DriversAssumption == Drivers \subseteq {"repl", "tab"}
ASSUME BooleansAssumption == {Hooked, HasPrompter, PushMayFail} \subseteq BOOLEAN
ASSUME AnswersAssumption == \A a \in Answers : a.updated \in InputNames \cup {"none"}
ASSUME NumbersAssumption ==
    /\ MaxIterations \in Nat \ {0} /\ Threshold \in Nat \ {0} /\ Preserve \in Nat
    /\ Usages \subseteq Nat /\ MaxTurns \in Nat /\ MaxCalls \in Nat

VARIABLES policy,      \* the permission policy of the runtime
          driver,      \* the program that drives the runtime
          messages,    \* its session
          kept,        \* the session the driver builds the next runtime from
          total,       \* cumulative input tokens of the usage tracker
          pc,          \* where run_turn is
          iterations,
          todo,        \* tool calls of the last reply not answered yet
          cur,         \* what is known of the call at the head of todo
          facts,       \* call -> what was done about it (history)
          torn,        \* a result of a session that lives on was not pushed (history)
          turns, calls \* counters of the model

setup == <<policy, driver>>
session == <<messages, kept>>
counters == <<torn, turns, calls>>
vars == <<setup, session, total, pc, iterations, todo, cur, facts, counters>>

Perm == INSTANCE Permissions WITH
          Inputs <- {InputOf[n] : n \in InputNames}, MaxRules <- 0
Pre == INSTANCE HookRun WITH
          event <- "pre", Events <- {"pre"}, Commands <- 1, outcomes <- << >>, verdict <- [kind |-> "none"]
Post == INSTANCE HookRun WITH
          event <- "post", Events <- {"post"}, Commands <- 1, outcomes <- << >>, verdict <- [kind |-> "none"]

(* A run of more commands than one ends with the flags of its last one.    *)
PreVerdicts == {Pre!Verdict(<< >>)} \cup
               (IF Hooked THEN {Pre!Verdict(<<o>>) : o \in Pre!Outcomes} ELSE {})
PostVerdicts == {Post!Verdict(<< >>)} \cup
                (IF Hooked THEN {Post!Verdict(<<o>>) : o \in Post!Outcomes} ELSE {})
Refuses(v) == v.denied \/ v.failed \/ v.cancelled

-----------------------------------------------------------------------------
(* The session *)

Plain == [role |-> "user", calls |-> << >>, answers |-> 0, error |-> FALSE, tokens |-> 0]
User == Plain
Assistant(cs, n) == [Plain EXCEPT !.role = "assistant", !.calls = cs, !.tokens = n]
ToolResult(id, e) == [Plain EXCEPT !.role = "tool", !.answers = id, !.error = e]
Summary == [Plain EXCEPT !.role = "system"]

(* Input tokens of the messages of a session: UsageTracker::from_session.  *)
Tokens(seq) ==
    LET f[i \in 0..Len(seq)] == IF i = 0 THEN 0 ELSE f[i - 1] + seq[i].tokens
    IN  f[Len(seq)]

(* push_message: a message that cannot be appended to the file is popped   *)
(* again and the error handed on.                                          *)
Pushed(m) == messages' = Append(messages, m)
NotPushed == PushMayFail /\ UNCHANGED messages

SummaryLength(seq) == IF seq # << >> /\ seq[1].role = "system" THEN 1 ELSE 0

(* Faulty variant: the message in front of the preserved ones is lost too. *)
CompactedTooFar(seq) ==
    IF Len(seq) - SummaryLength(seq) > Preserve
    THEN <<Summary>> \o SubSeq(seq, Len(seq) - Preserve + 2, Len(seq))
    ELSE seq

(* compact_session with max_estimated_tokens = 0.                          *)
Compacted(seq) ==
    IF Len(seq) - SummaryLength(seq) > Preserve
    THEN <<Summary>> \o SubSeq(seq, Len(seq) - Preserve + 1, Len(seq))
    ELSE seq

NoCall == [input |-> "none", refused |-> FALSE, override |-> "none",
           reply |-> "none", error |-> FALSE]
NoFact == [ran |-> FALSE, ok |-> FALSE, posts |-> << >>, objected |-> FALSE]

-----------------------------------------------------------------------------
(* The driver *)

(* The turn is over: the REPL keeps the session of a turn that succeeded,  *)
(* a tab's agent saves what it has in any case.                            *)
TurnOver(ok) ==
    /\ pc' = IF driver = "repl" THEN "idle" ELSE "ready"
    /\ kept' = IF ok \/ driver = "tab" THEN messages' ELSE kept
    /\ iterations' = 0 /\ todo' = << >> /\ cur' = NoCall

(* Faulty variant: a new runtime counts its tokens from zero.              *)
RebuildFromZero ==
    /\ pc \in {"idle", "ready"} /\ turns < MaxTurns
    /\ pc' = "ready"
    /\ messages' = kept
    /\ total' = 0
    /\ UNCHANGED <<setup, kept, iterations, todo, cur, facts, counters>>

(* prepare_turn_runtime, before every turn of the REPL, and spawn_agent    *)
(* when a tab's agent is replaced.                                         *)
Rebuild ==
    /\ pc \in {"idle", "ready"} /\ turns < MaxTurns
    /\ pc' = "ready"
    /\ messages' = kept
    /\ total' = Tokens(kept)
    /\ UNCHANGED <<setup, kept, iterations, todo, cur, facts, counters>>

StartTurn ==
    /\ pc = "ready" /\ turns < MaxTurns
    /\ turns' = turns + 1
    /\ \/ Pushed(User) /\ pc' = "loop" /\ UNCHANGED <<kept, iterations, todo, cur>>
       \/ NotPushed /\ TurnOver(FALSE)
    /\ UNCHANGED <<setup, total, facts, torn, calls>>

-----------------------------------------------------------------------------
(* The model *)

(* Faulty variant: the bound is looked at after one request too many.      *)
ReplyOnceMore(cs, n) ==
    /\ pc = "loop" /\ iterations <= MaxIterations
    /\ total' = total + n
    /\ \/ /\ Pushed(Assistant(cs, n))
          /\ iterations' = iterations + 1
          /\ pc' = IF cs = << >> THEN "end" ELSE "pre"
          /\ todo' = cs
          /\ UNCHANGED <<kept, cur>>
       \/ NotPushed /\ TurnOver(FALSE)
    /\ calls' = calls + Len(cs)
    /\ UNCHANGED <<setup, facts, torn, turns>>

(* A complete reply: its usage is recorded, then it is pushed.             *)
Reply(cs, n) ==
    /\ pc = "loop" /\ iterations < MaxIterations
    /\ total' = total + n
    /\ \/ /\ Pushed(Assistant(cs, n))
          /\ iterations' = iterations + 1
          /\ pc' = IF cs = << >> THEN "end" ELSE "pre"
          /\ todo' = cs
          /\ UNCHANGED <<kept, cur>>
       \/ NotPushed /\ TurnOver(FALSE)
    /\ calls' = calls + Len(cs)
    /\ UNCHANGED <<setup, facts, torn, turns>>

(* Faulty variant: the bound stops the requests but does not end the turn. *)
GiveUpBelowBound ==
    /\ pc = "loop" /\ iterations < MaxIterations
    /\ UNCHANGED messages
    /\ TurnOver(FALSE)
    /\ UNCHANGED <<setup, total, facts, counters>>

(* The loop's bound, a failed request, or a stream without a stop event or *)
(* without content: the turn fails with what is in the session so far.     *)
GiveUp ==
    /\ pc = "loop"
    /\ UNCHANGED messages
    /\ TurnOver(FALSE)
    /\ UNCHANGED <<setup, total, facts, counters>>

-----------------------------------------------------------------------------
(* The tool calls of a reply, one after the other *)

call == Head(todo)

PreHook(v) ==
    /\ pc = "pre"
    /\ cur' = [NoCall EXCEPT !.input = IF v.updated = "none" THEN call.input ELSE v.updated,
                             !.refused = Refuses(v),
                             !.override = v.override]
    /\ pc' = IF Refuses(v) THEN "push" ELSE "gate"
    /\ facts' = [facts EXCEPT ![call.id] = NoFact]
    /\ UNCHANGED <<setup, session, total, iterations, todo, counters>>

(* Faulty variant: the policy is asked about the input the model gave.     *)
GateOriginal(reply) ==
    /\ pc = "gate"
    /\ LET d == Perm!Authorize(policy, call.tool, InputOf[call.input], cur.override, reply)
       IN  /\ d.asked \/ reply = "none" \/ ~HasPrompter
           /\ cur' = [cur EXCEPT !.reply = reply, !.refused = ~d.allowed]
           /\ pc' = IF d.allowed THEN "execute" ELSE "push"
    /\ UNCHANGED <<setup, session, total, iterations, todo, facts, counters>>

(* authorize_with_context, on the input the tool will get.  The user is    *)
(* asked only where the decision asks.                                     *)
Gate(reply) ==
    /\ pc = "gate"
    /\ LET d == Perm!Authorize(policy, call.tool, InputOf[cur.input], cur.override, reply)
       IN  /\ d.asked \/ reply = "none" \/ ~HasPrompter
           /\ cur' = [cur EXCEPT !.reply = reply, !.refused = ~d.allowed]
           /\ pc' = IF d.allowed THEN "execute" ELSE "push"
    /\ UNCHANGED <<setup, session, total, iterations, todo, facts, counters>>

Execute(ok) ==
    /\ pc = "execute"
    /\ facts' = [facts EXCEPT ![call.id] = [@ EXCEPT !.ran = TRUE, !.ok = ok]]
    /\ cur' = [cur EXCEPT !.error = ~ok]
    /\ pc' = "post"
    /\ UNCHANGED <<setup, session, total, iterations, todo, counters>>

(* Faulty variant: what the post hooks say replaces what the tool said.    *)
PostHookDecides(v) ==
    /\ pc = "post"
    /\ cur' = [cur EXCEPT !.error = Refuses(v)]
    /\ facts' = [facts EXCEPT
                   ![call.id].posts = Append(@, IF cur.error THEN "failure" ELSE "success"),
                   ![call.id].objected = Refuses(v)]
    /\ pc' = "push"
    /\ UNCHANGED <<setup, session, total, iterations, todo, counters>>

(* The hooks for a failed or for a successful tool; their objection turns  *)
(* the result into an error.                                               *)
PostHook(v) ==
    /\ pc = "post"
    /\ cur' = [cur EXCEPT !.error = @ \/ Refuses(v)]
    /\ facts' = [facts EXCEPT
                   ![call.id].posts = Append(@, IF cur.error THEN "failure" ELSE "success"),
                   ![call.id].objected = Refuses(v)]
    /\ pc' = "push"
    /\ UNCHANGED <<setup, session, total, iterations, todo, counters>>

(* Faulty variant: a refused call is passed over.                          *)
PushResultIfRun ==
    /\ pc = "push"
    /\ \/ /\ IF cur.refused THEN UNCHANGED messages
             ELSE Pushed(ToolResult(call.id, cur.error))
          /\ todo' = Tail(todo) /\ cur' = NoCall
          /\ pc' = IF Tail(todo) = << >> THEN "loop" ELSE "pre"
          /\ UNCHANGED <<kept, iterations, torn>>
       \/ NotPushed /\ TurnOver(FALSE) /\ torn' = (driver = "tab")
    /\ UNCHANGED <<setup, total, facts, turns, calls>>

(* The result is pushed, and the next call of the reply or the next        *)
(* request follows.                                                        *)
PushResult ==
    /\ pc = "push"
    /\ \/ /\ Pushed(ToolResult(call.id, cur.refused \/ cur.error))
          /\ todo' = Tail(todo) /\ cur' = NoCall
          /\ pc' = IF Tail(todo) = << >> THEN "loop" ELSE "pre"
          /\ UNCHANGED <<kept, iterations, torn>>
       \/ NotPushed /\ TurnOver(FALSE) /\ torn' = (driver = "tab")
    /\ UNCHANGED <<setup, total, facts, turns, calls>>

(* maybe_auto_compact, and the turn is over.                               *)
EndTurn ==
    /\ pc = "end"
    /\ messages' = IF total >= Threshold THEN Compacted(messages) ELSE messages
    /\ TurnOver(TRUE)
    /\ UNCHANGED <<setup, total, facts, counters>>

-----------------------------------------------------------------------------
Init ==
    /\ policy \in TurnPolicies /\ driver \in Drivers /\ torn = FALSE
    /\ messages = << >> /\ kept = << >> /\ total = 0
    /\ pc = "idle" /\ iterations = 0 /\ todo = << >> /\ cur = NoCall
    /\ facts = [c \in 1..MaxCalls |-> NoFact]
    /\ turns = 0 /\ calls = 0

(* The calls of a reply: the ids are new, tool and input are the model's.  *)
Calls == [id : 1..MaxCalls, tool : Tools, input : InputNames]
Requested(k) == {cs \in [1..k -> Calls] : \A i \in 1..k : cs[i].id = calls + i}

TurnStep ==
    \/ \E k \in 0..(MaxCalls - calls), n \in Usages : \E cs \in Requested(k) : Reply(cs, n)
    \/ GiveUp
    \/ \E v \in PreVerdicts : PreHook(v)
    \/ \E reply \in IF HasPrompter THEN {"none", "allow", "deny"} ELSE {"none"} : Gate(reply)
    \/ \E ok \in BOOLEAN : Execute(ok)
    \/ \E v \in PostVerdicts : PostHook(v)
    \/ PushResult
    \/ EndTurn

Next == Rebuild \/ StartTurn \/ TurnStep

Spec == Init /\ [][Next]_vars

(* A turn's thread runs on: requests, hooks, questions and tools come back *)
(* with an answer or an error.                                             *)
FairSpec == Spec /\ WF_vars(TurnStep)

-----------------------------------------------------------------------------
(* Properties *)

TypeOK ==
    /\ policy \in TurnPolicies /\ driver \in Drivers /\ torn \in BOOLEAN
    /\ pc \in {"idle", "ready", "loop", "pre", "gate", "execute", "post", "push", "end"}
    /\ iterations \in 0..MaxIterations
    /\ \A i \in DOMAIN todo : todo[i] \in Calls
    /\ (pc \in {"pre", "gate", "execute", "post", "push"}) = (todo # << >>)
    /\ cur.input \in InputNames \cup {"none"}
    /\ total \in Nat

(* A tool runs on the very input, and only on the input, that the policy   *)
(* allowed, under the hook's override and the user's answer, and never     *)
(* after a pre hook refused.                                               *)
RunsWhatWasAllowed ==
    pc \in {"execute", "post"} =>
        /\ ~cur.refused
        /\ Perm!Authorize(policy, call.tool, InputOf[cur.input], cur.override, cur.reply).allowed

(* Every call of a reply is answered, in order, by the messages after it.  *)
Answered(seq) ==
    \A i \in DOMAIN seq : \A k \in DOMAIN seq[i].calls :
        /\ i + k \in DOMAIN seq
        /\ seq[i + k].role = "tool"
        /\ seq[i + k].answers = seq[i].calls[k].id

(* Every tool result follows its call, unless a compaction has cut the     *)
(* call off: then nothing but the summary and other results come before.   *)
Rooted(seq) ==
    \A j \in DOMAIN seq : seq[j].role = "tool" =>
        \/ \E i \in 1..(j - 1) :
              j - i \in DOMAIN seq[i].calls /\ seq[i].calls[j - i].id = seq[j].answers
        \/ \A i \in 1..(j - 1) : seq[i].role \in {"system", "tool"}

(* What a request sends to the provider: all calls are answered and all    *)
(* results have their calls, over failures, refusals, compactions and the  *)
(* turns the REPL forgets.  The one exception is a tab that could not push *)
(* a result: it goes on with the session as it is.                         *)
RequestsArePaired == pc = "loop" /\ ~torn => Answered(messages) /\ Rooted(messages)

(* A result is no error exactly if the tool ran, succeeded and no post     *)
(* hook objected; one run of post hooks, of the right kind, follows each   *)
(* execution and none a refusal.                                           *)
ResultsAreHonest ==
    \A i \in DOMAIN messages : messages[i].role = "tool" =>
        LET f == facts[messages[i].answers] IN
        /\ messages[i].error = ~(f.ran /\ f.ok /\ ~f.objected)
        /\ f.posts = IF ~f.ran THEN << >>
                     ELSE IF f.ok THEN <<"success">> ELSE <<"failure">>

(* The tracker the compaction depends on never counts less than the        *)
(* session it compacts.                                                    *)
TotalCoversSession == pc \notin {"idle"} => total >= Tokens(messages)

IsSuffix(s, t) == Len(s) <= Len(t) /\ s = SubSeq(t, Len(t) - Len(s) + 1, Len(t))

(* Messages are appended, or replaced by a summary and the recent ones     *)
(* word for word, or forgotten with a failed turn of the REPL.             *)
HistoryIsKept ==
    [][\/ Len(messages') = Len(messages) + 1 /\ messages = SubSeq(messages', 1, Len(messages))
       \/ /\ messages' # << >> /\ messages'[1] = Summary
          /\ IsSuffix(Tail(messages'), messages) /\ Len(messages') = Preserve + 1
       \/ pc = "idle" /\ messages' = kept]_messages

(* Every turn ends.                                                        *)
TurnEnds == pc \notin {"idle", "ready"} ~> pc \in {"idle", "ready"}
=============================================================================
