------------------------------ MODULE HookRun ------------------------------
(***************************************************************************)
(* What HookRunner::run_commands (runtime/hooks.rs) promises to its        *)
(* caller, without processes, pipes and clocks: the configured commands    *)
(* answer one after the other, the first objection ends the run, and the   *)
(* verdict is a function of the answers.  HookCommand implements this      *)
(* specification; ConversationTurn uses its verdicts.                      *)
(***************************************************************************)
EXTENDS Naturals, Sequences

CONSTANTS Events,     \* "pre", "post": the events hooks are configured for
          Commands,   \* number of commands configured for an event
          Answers     \* what a command may print: [deny, override, updated]

VARIABLES event,      \* the event the commands are run for
          outcomes,   \* of the commands that have ended, in order
          verdict     \* of the run, NoVerdict while it lasts

NoVerdict == [kind |-> "none"]

Silent == [deny |-> FALSE, override |-> "none", updated |-> "none"]

(* HookCommandOutcome: how a command ended and what it printed.            *)
Outcome(kind, answer) ==
    [kind |-> kind, override |-> answer.override, updated |-> answer.updated]

Outcomes == {Outcome(kind, a) : kind \in {"allow", "deny", "failed"}, a \in Answers}
            \cup {Outcome(kind, Silent) : kind \in {"failed", "cancelled", "timed_out"}}

(* A pre hook that did not answer in time might have objected; a post hook *)
(* only advises.                                                           *)
FailureKinds == {"failed"} \cup (IF event = "pre" THEN {"timed_out"} ELSE {})

(* The outcomes after which no further command is run.                     *)
Objects(o) == o.kind \in {"deny", "cancelled"} \cup FailureKinds

(* The value that was given last, "none" if none was.                      *)
LastGiven(values) ==
    LET given == {i \in DOMAIN values : values[i] # "none"}
    IN  IF given = {} THEN "none"
        ELSE values[CHOOSE i \in given : \A j \in given : j <= i]

(* HookRunResult.                                                          *)
Verdict(seq) ==
    LET last == IF seq = << >> THEN "allow" ELSE seq[Len(seq)].kind
    IN  [kind |-> "verdict",
         denied |-> last = "deny",
         failed |-> last \in FailureKinds,
         cancelled |-> last = "cancelled",
         override |-> LastGiven([i \in DOMAIN seq |-> seq[i].override]),
         updated |-> LastGiven([i \in DOMAIN seq |-> seq[i].updated])]

CancelledVerdict == Verdict(<<Outcome("cancelled", Silent)>>)

Init == event \in Events /\ outcomes = << >> /\ verdict = NoVerdict

(* Nothing to run, or cancelled before anything ran.                       *)
EndAtOnce ==
    /\ verdict = NoVerdict /\ outcomes = << >>
    /\ verdict' = IF Commands = 0 THEN Verdict(<< >>) ELSE CancelledVerdict
    /\ UNCHANGED <<event, outcomes>>

Answer(o) ==
    /\ verdict = NoVerdict /\ Len(outcomes) < Commands
    /\ outcomes' = Append(outcomes, o)
    /\ verdict' = IF Objects(o) \/ Len(outcomes') = Commands THEN Verdict(outcomes')
                                                            ELSE NoVerdict
    /\ UNCHANGED event

Next == EndAtOnce \/ \E o \in Outcomes : Answer(o)

Spec == Init /\ [][Next]_<<event, outcomes, verdict>>
=============================================================================
