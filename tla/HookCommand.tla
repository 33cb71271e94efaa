---------------------------- MODULE HookCommand ----------------------------
(***************************************************************************)
(* HookRunner::run_commands with the processes it drives                   *)
(* (runtime/hooks.rs): a turn's thread spawns a shell per command, feeds   *)
(* its stdin from a thread of its own, polls for the user's abort, the     *)
(* time limit and the shell's exit, and collects the output only           *)
(* afterwards.  The shell may leave helpers behind that keep the pipes     *)
(* open; a kill reaches the shell alone.                                   *)
(***************************************************************************)
EXTENDS HookRun, FiniteSets

CONSTANTS PipeSize,     \* chunks a pipe holds
          Payload,      \* chunks of the JSON document on stdin
          MaxOutput,    \* bound on the chunks a hook prints
          Limits,       \* values of limited, FALSE: CLAW_HOOK_TIMEOUT_SECS=0
          Helpers,      \* may a shell leave a helper behind?
          HelpersEnd    \* do helpers end by themselves?

VARIABLES pc,        \* of the turn's thread
          how,       \* why the poll loop was left
          result,    \* HookRunResult as merged so far
          shell,     \* "none", "running", "exited"
          exit,      \* [code, answer] of a shell that exited by itself
          helper,    \* a process that outlived the shell holds the pipes
          want,      \* chunks the shell still has to print
          out,       \* chunks in the stdout pipe
          left,      \* chunks of the payload the writer thread still has
          inp,       \* chunks in the stdin pipe
          limited,   \* is there a time limit for a command?
          expired,   \* the limit of the current command has passed
          aborted    \* the abort signal

turn == <<event, limited, pc, how, result, outcomes, verdict>>
process == <<shell, exit, helper, want, out>>
stdin == <<left, inp>>
vars == <<turn, process, stdin, expired, aborted>>

NoExit == [code |-> "none", answer |-> Silent]

Fresh == [denied |-> FALSE, failed |-> FALSE, cancelled |-> FALSE,
          override |-> "none", updated |-> "none"]

Returned(r) == [kind |-> "verdict", denied |-> r.denied, failed |-> r.failed,
                cancelled |-> r.cancelled, override |-> r.override, updated |-> r.updated]

-----------------------------------------------------------------------------
(* The turn's thread *)

Return(r) == pc' = "done" /\ how' = "none" /\ verdict' = Returned(r)

Begin ==
    /\ pc = "start"
    /\ result' = Fresh
    /\ IF Commands = 0 THEN Return(Fresh)
       ELSE IF aborted THEN Return([Fresh EXCEPT !.cancelled = TRUE])
       ELSE pc' = "next" /\ UNCHANGED <<how, verdict>>
    /\ UNCHANGED <<event, limited, outcomes, process, stdin, expired, aborted>>

(* Every command gets new pipes, a new thread that holds the payload, and  *)
(* its own time limit.                                                     *)
Spawn ==
    /\ pc = "next"
    /\ pc' = "poll"
    /\ shell' = "running" /\ exit' = NoExit /\ helper' = FALSE
    /\ want' \in 0..MaxOutput /\ out' = 0
    /\ left' = Payload /\ inp' = 0
    /\ expired' = FALSE
    /\ UNCHANGED <<event, limited, how, result, outcomes, verdict, aborted>>

(* Faulty variant: the abort is looked at when the shell has ended.        *)
PollExitFirst ==
    /\ pc = "poll"
    /\ \/ shell = "exited" /\ aborted /\ how' = "cancelled"
       \/ shell = "exited" /\ ~aborted /\ how' = "finished"
       \/ shell = "running" /\ expired /\ how' = "timed_out"
    /\ pc' = "collect"
    /\ shell' = "exited"
    /\ want' = 0
    /\ UNCHANGED <<event, limited, result, outcomes, verdict, exit, helper, out,
                   stdin, expired, aborted>>

(* One round of the loop of output_with_stdin: abort, limit, exit, in this *)
(* order.  Otherwise it sleeps and comes back, which changes nothing.      *)
Poll ==
    /\ pc = "poll"
    /\ \/ aborted /\ how' = "cancelled"
       \/ ~aborted /\ expired /\ how' = "timed_out"
       \/ ~aborted /\ ~expired /\ shell = "exited" /\ how' = "finished"
    /\ pc' = "collect"
    /\ shell' = "exited"              \* kill reaches the shell
    /\ want' = 0
    /\ UNCHANGED <<event, limited, result, outcomes, verdict, exit, helper, out,
                   stdin, expired, aborted>>

(* wait_with_output reads until every process that holds the pipe is gone. *)
Drain ==
    /\ pc = "collect" /\ out > 0
    /\ out' = out - 1
    /\ UNCHANGED <<turn, shell, exit, helper, want, stdin, expired, aborted>>

(* Faulty variant: the output of the shell alone is waited for.            *)
CollectShell ==
    /\ pc = "collect" /\ out = 0
    /\ pc' = "join"
    /\ UNCHANGED <<event, limited, how, result, outcomes, verdict, process, stdin,
                   expired, aborted>>

Collect ==
    /\ pc = "collect" /\ out = 0 /\ shell = "exited" /\ ~helper
    /\ pc' = "join"
    /\ UNCHANGED <<event, limited, how, result, outcomes, verdict, process, stdin,
                   expired, aborted>>

(* What the command amounts to: HookCommandOutcome.                        *)
Ended == CASE how = "cancelled" -> Outcome("cancelled", Silent)
           [] how = "timed_out" -> Outcome("timed_out", Silent)
           [] how = "finished" ->
                Outcome(IF exit.code = "0" THEN (IF exit.answer.deny THEN "deny" ELSE "allow")
                        ELSE IF exit.code = "2" THEN "deny"
                        ELSE "failed", exit.answer)

(* Faulty variant: only a command that agrees is listened to.              *)
MergedIfAllowed(r, o) ==
    IF o.kind # "allow" THEN r
    ELSE [r EXCEPT !.override = IF o.override = "none" THEN @ ELSE o.override,
                   !.updated = IF o.updated = "none" THEN @ ELSE o.updated]

(* merge_parsed_hook_output: what a later command gives replaces what an   *)
(* earlier one gave.                                                       *)
Merged(r, o) ==
    [r EXCEPT !.override = IF o.override = "none" THEN @ ELSE o.override,
              !.updated = IF o.updated = "none" THEN @ ELSE o.updated]

(* The flag of an outcome that ends the run.                               *)
Flagged(r, o) ==
    [r EXCEPT !.denied = o.kind = "deny",
              !.failed = o.kind \in {"failed", "timed_out"},
              !.cancelled = o.kind = "cancelled"]

(* Faulty variant: a command that took too long is passed over.            *)
StopsUnlessLate(o) == o.kind \in {"deny", "failed", "cancelled"}

Stops(o) == \/ o.kind \in {"deny", "failed", "cancelled"}
            \/ o.kind = "timed_out" /\ event = "pre"

(* The outcome of a command is merged; an objection, or the last command,  *)
(* ends the run.                                                           *)
Settled(o) ==
    LET merged == Merged(result, o)
    IN  /\ outcomes' = Append(outcomes, o)
        /\ IF Stops(o)
           THEN result' = Flagged(merged, o) /\ Return(result')
           ELSE /\ result' = merged
                /\ IF Len(outcomes') = Commands THEN Return(merged)
                   ELSE pc' = "next" /\ how' = "none" /\ UNCHANGED verdict

(* The writer thread is joined before the outcome is returned.             *)
Conclude ==
    /\ pc = "join" /\ left = 0
    /\ Settled(Ended)
    /\ UNCHANGED <<event, limited, process, stdin, expired, aborted>>

(* The shell cannot be started: no process, no pipes, a failure.           *)
SpawnFails ==
    /\ pc = "next"
    /\ Settled(Outcome("failed", Silent))
    /\ UNCHANGED <<event, limited, process, stdin, expired, aborted>>

-----------------------------------------------------------------------------
(* The thread that writes the payload *)

Readers == shell = "running" \/ helper

(* Faulty variant: the payload is written whether or not there is room.    *)
FeedBlindly ==
    /\ left > 0 /\ Readers
    /\ left' = left - 1 /\ inp' = inp + 1
    /\ UNCHANGED <<turn, process, expired, aborted>>

Feed ==
    /\ left > 0 /\ Readers /\ inp < PipeSize
    /\ left' = left - 1 /\ inp' = inp + 1
    /\ UNCHANGED <<turn, process, expired, aborted>>

(* Faulty variant: a hook that read nothing of its input is waited for.    *)
BrokenPipeOnceRead ==
    /\ left > 0 /\ ~Readers /\ inp = 0
    /\ left' = 0
    /\ UNCHANGED <<turn, process, inp, expired, aborted>>

(* EPIPE: nobody has the pipe open for reading, the thread gives up.       *)
BrokenPipe ==
    /\ left > 0 /\ ~Readers
    /\ left' = 0
    /\ UNCHANGED <<turn, process, inp, expired, aborted>>

-----------------------------------------------------------------------------
(* The hook, the clock and the user *)

Emit ==
    /\ shell = "running" /\ want > 0 /\ out < PipeSize
    /\ want' = want - 1 /\ out' = out + 1
    /\ UNCHANGED <<turn, shell, exit, helper, stdin, expired, aborted>>

Read ==
    /\ shell = "running" /\ inp > 0
    /\ inp' = inp - 1
    /\ UNCHANGED <<turn, process, left, expired, aborted>>

LeaveHelper ==
    /\ Helpers /\ shell = "running" /\ ~helper
    /\ helper' = TRUE
    /\ UNCHANGED <<turn, shell, exit, want, out, stdin, expired, aborted>>

(* A shell that has printed everything ends, whether or not it read its    *)
(* input, and with any status.                                             *)
Exit(code, answer) ==
    /\ shell = "running" /\ want = 0
    /\ shell' = "exited" /\ exit' = [code |-> code, answer |-> answer]
    /\ UNCHANGED <<turn, helper, want, out, stdin, expired, aborted>>

HelperEnds ==
    /\ helper /\ helper' = FALSE
    /\ UNCHANGED <<turn, shell, exit, want, out, stdin, expired, aborted>>

Expire ==
    /\ limited /\ pc = "poll" /\ ~expired
    /\ expired' = TRUE
    /\ UNCHANGED <<turn, process, stdin, aborted>>

Abort ==
    /\ ~aborted /\ pc # "done"
    /\ aborted' = TRUE
    /\ UNCHANGED <<turn, process, stdin, expired>>

-----------------------------------------------------------------------------
CommandInit ==
    /\ Init
    /\ limited \in Limits
    /\ pc = "start" /\ how = "none" /\ result = Fresh
    /\ shell = "none" /\ exit = NoExit /\ helper = FALSE /\ want = 0 /\ out = 0
    /\ left = 0 /\ inp = 0
    /\ expired = FALSE /\ aborted = FALSE

Runner == Begin \/ Spawn \/ SpawnFails \/ Poll \/ Drain \/ Collect \/ Conclude
Writer == Feed \/ BrokenPipe

CommandNext ==
    \/ Runner \/ Writer
    \/ Emit \/ Read \/ LeaveHelper \/ HelperEnds \/ Expire \/ Abort
    \/ \E code \in {"0", "1", "2", "signal"}, answer \in Answers : Exit(code, answer)

CommandSpec == CommandInit /\ [][CommandNext]_vars

(* Threads are scheduled, time passes; a hook prints what it has to print. *)
(* Nothing makes it read its input or end, and helpers end only if the     *)
(* constant says so.                                                       *)
FairSpec ==
    /\ CommandSpec
    /\ WF_vars(Runner) /\ WF_vars(Writer) /\ WF_vars(Expire) /\ WF_vars(Emit)
    /\ HelpersEnd => WF_vars(HelperEnds)

-----------------------------------------------------------------------------
(* Properties *)

TypeOK ==
    /\ event \in Events /\ limited \in BOOLEAN
    /\ pc \in {"start", "next", "poll", "collect", "join", "done"}
    /\ how \in {"none", "finished", "cancelled", "timed_out"}
    /\ outcomes \in Seq(Outcomes) /\ Len(outcomes) <= Commands
    /\ shell \in {"none", "running", "exited"}
    /\ helper \in BOOLEAN /\ expired \in BOOLEAN /\ aborted \in BOOLEAN
    /\ want \in 0..MaxOutput /\ out \in 0..PipeSize
    /\ left \in 0..Payload /\ inp \in 0..PipeSize

(* run_commands keeps its promise: the flags and the overrides it merges   *)
(* on the way are the verdict on the answers in the order of the commands. *)
Implements == Spec

(* Between two commands and after the run nothing of the run is left: no   *)
(* shell runs, no process holds its pipes and no thread writes to one.     *)
NothingLeftBehind ==
    pc \in {"next", "done"} => shell # "running" /\ ~helper /\ left = 0

(* Every run ends, by the limits of its commands or by the user's abort,   *)
(* whatever the commands do with their pipes: neither the joined writer    *)
(* thread nor the output read to its end can hold it for good.             *)
RunEnds == (limited \/ aborted) ~> (pc = "done")
=============================================================================
