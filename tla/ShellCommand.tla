---------------------------- MODULE ShellCommand ----------------------------
(***************************************************************************)
(* The shell tools in the foreground: bash (runtime/bash.rs, driven by     *)
(* tokio) and PowerShell (execute_shell_command of tools/lib.rs, a polling *)
(* loop).  A command may print more than a pipe holds, go on for ever, and *)
(* leave helpers behind that keep its pipe.  (Commands in the background   *)
(* are in TaskBoard.)                                                      *)
(*                                                                         *)
(* stdout and stderr are one pipe here: bash cuts each by itself.  Output  *)
(* is UTF-8 (what is not becomes so before the cut); the sandbox and the   *)
(* wording of the result are left out.                                     *)
(***************************************************************************)
EXTENDS Naturals, FiniteSetsExt

CONSTANTS PipeSize,      \* bytes a pipe holds
          MaxOutput,     \* bound of the model: bytes a command prints
          MaxBytes       \* MAX_OUTPUT_BYTES

SizesFit == PipeSize \in Nat \ {0} /\ MaxOutput \in Nat /\ MaxBytes \in Nat

VARIABLES tool, limited, \* "bash" or "powershell"; has the call a time limit
          pc,            \* of the tool
          late,          \* the limit has passed
          shell,         \* "none", "running", "exited"
          helper,        \* a process the shell left behind holds the pipe
          want,          \* bytes the shell has still to print
          ends,          \* the bytes of its output behind which a character ends
          pipe, open,    \* bytes in the pipe; does somebody hold its reading end
          printed, got,  \* bytes ever put into the pipe, and read from it
          result,        \* of the call
          output         \* what it tells of the output: the first bytes, and
                         \* whether a mark says that there were more

call == <<tool, limited>>
process == <<shell, helper, want, ends>>
answer == <<result, output>>
vars == <<call, pc, late, process, pipe, open, printed, got, answer>>

(* bash, and PowerShell without a limit, read while they wait; PowerShell  *)
(* with a limit asks every 10 ms whether the shell has ended.              *)
Polls == tool = "powershell" /\ limited
AllRead == shell = "exited" /\ ~helper /\ pipe = 0

Whole(n) == [bytes |-> n, marked |-> FALSE]
Return(is, told) == pc' = "done" /\ result' = is /\ output' = told

(* Where the characters of n bytes may end: each has four bytes at most.   *)
Characters(n) ==
    {e \in SUBSET (0..n) :
        /\ {0, n} \subseteq e
        /\ \A i \in e \ {n} : \E j \in e : i < j /\ j <= i + 4}

(* Faulty variant: the cut goes through a character.                       *)
TruncatedAnywhere(n) ==
    IF n <= MaxBytes THEN Whole(n) ELSE [bytes |-> MaxBytes, marked |-> TRUE]

(* Faulty variant: what just fits is cut.                                  *)
TruncatedWhenFull(n) ==
    IF n < MaxBytes THEN Whole(n)
    ELSE [bytes |-> Max({e \in ends : e <= MaxBytes}), marked |-> TRUE]

(* truncate_output: back to the end of a character, and a mark.            *)
Truncated(n) ==
    IF n <= MaxBytes THEN Whole(n)
    ELSE [bytes |-> Max({e \in ends : e <= MaxBytes}), marked |-> TRUE]

-----------------------------------------------------------------------------
(* The tool *)

(* A test run on a branch that is behind is answered without a shell;      *)
(* there may be no shell to run.                                           *)
Start ==
    /\ pc = "start"
    /\ \/ \E is \in {"stale", "error"} : Return(is, Whole(0))
          /\ UNCHANGED <<shell, want, ends, open>>
       \/ /\ pc' = (IF Polls THEN "poll" ELSE "wait")
          /\ shell' = "running" /\ want' \in 0..MaxOutput /\ ends' \in Characters(want')
          /\ open' = TRUE /\ UNCHANGED answer
    /\ UNCHANGED <<call, late, helper, pipe, printed, got>>

Read ==
    /\ pc \in {"wait", "collect", "killed"} /\ pipe > 0
    /\ pipe' = pipe - 1 /\ got' = got + 1
    /\ UNCHANGED <<call, pc, late, process, open, printed, answer>>

(* Faulty variant: the end of the shell is the end of its output.          *)
FinishAtExit ==
    /\ pc \in {"wait", "collect"} /\ shell = "exited"
    /\ Return("finished", IF tool = "bash" THEN Truncated(got) ELSE Whole(got))
    /\ open' = FALSE
    /\ UNCHANGED <<call, late, process, pipe, printed, got>>

(* output(), wait_with_output: the shell has ended and nobody can print    *)
(* any more.  Only bash shortens what it has read.                         *)
Finish ==
    /\ pc \in {"wait", "collect"} /\ AllRead
    /\ Return("finished", IF tool = "bash" THEN Truncated(got) ELSE Whole(got))
    /\ open' = FALSE
    /\ UNCHANGED <<call, late, process, pipe, printed, got>>

(* Faulty variant: the limit counts as long as the shell itself runs.      *)
TimeOutOfShell ==
    /\ pc = "wait" /\ tool = "bash" /\ late /\ shell = "running"
    /\ Return("timeout", Whole(0)) /\ open' = FALSE /\ pipe' = 0
    /\ UNCHANGED <<call, late, process, printed, got>>

(* bash: the future is dropped, and with it the pipe; the shell goes on.   *)
TimeOut ==
    /\ pc = "wait" /\ tool = "bash" /\ late /\ ~AllRead
    /\ Return("timeout", Whole(0)) /\ open' = FALSE /\ pipe' = 0
    /\ UNCHANGED <<call, late, process, printed, got>>

(* PowerShell: has the shell ended; if not, is it time to kill it.         *)
Poll ==
    /\ pc = "poll"
    /\ \/ shell = "exited" /\ pc' = "collect" /\ UNCHANGED <<shell, want>>
       \/ shell # "exited" /\ late /\ pc' = "killed" /\ shell' = "exited" /\ want' = 0
    /\ UNCHANGED <<call, late, helper, ends, pipe, open, printed, got, answer>>

CollectKilled ==
    /\ pc = "killed" /\ AllRead
    /\ Return("timeout", Whole(got)) /\ open' = FALSE
    /\ UNCHANGED <<call, late, process, pipe, printed, got>>

-----------------------------------------------------------------------------
(* The command *)

(* There is room, or nobody reads any more, which ends the shell.          *)
PrintMore ==
    /\ shell = "running" /\ want > 0
    /\ \/ /\ open /\ pipe < PipeSize
          /\ pipe' = pipe + 1 /\ printed' = printed + 1 /\ want' = want - 1
          /\ UNCHANGED shell
       \/ ~open /\ shell' = "exited" /\ want' = 0 /\ UNCHANGED <<pipe, printed>>
    /\ UNCHANGED <<call, pc, late, helper, ends, open, got, answer>>

LeaveHelper ==
    /\ shell = "running" /\ ~helper /\ helper' = TRUE
    /\ UNCHANGED <<call, pc, late, shell, want, ends, pipe, open, printed, got, answer>>

Exit ==
    /\ shell = "running" /\ want = 0 /\ shell' = "exited"
    /\ UNCHANGED <<call, pc, late, helper, want, ends, pipe, open, printed, got, answer>>

HelperEnds ==
    /\ helper /\ helper' = FALSE
    /\ UNCHANGED <<call, pc, late, shell, want, ends, pipe, open, printed, got, answer>>

Expire ==
    /\ limited /\ ~late /\ pc \in {"wait", "poll"} /\ late' = TRUE
    /\ UNCHANGED <<call, pc, process, pipe, open, printed, got, answer>>

Init ==
    /\ tool \in {"bash", "powershell"} /\ limited \in BOOLEAN
    /\ pc = "start" /\ late = FALSE /\ shell = "none" /\ helper = FALSE /\ want = 0
    /\ ends = {} /\ pipe = 0 /\ open = FALSE /\ printed = 0 /\ got = 0
    /\ result = "none" /\ output = Whole(0)

Tool == Start \/ Read \/ Finish \/ TimeOut \/ Poll \/ CollectKilled
Next == Tool \/ PrintMore \/ LeaveHelper \/ Exit \/ HelperEnds \/ Expire

(* The tool is scheduled and time passes.  A shell need not print or exit, *)
(* a helper need not end.                                                  *)
Spec == Init /\ [][Next]_vars /\ WF_vars(Tool) /\ WF_vars(Expire)

-----------------------------------------------------------------------------
(* Properties *)

TypeOK ==
    /\ pc \in {"start", "wait", "poll", "collect", "killed", "done"}
    /\ shell \in {"none", "running", "exited"} /\ pipe \in 0..PipeSize
    /\ want \in 0..MaxOutput /\ printed \in 0..MaxOutput /\ got \in 0..MaxOutput
    /\ ends \subseteq 0..MaxOutput /\ output \in [bytes : 0..MaxOutput, marked : BOOLEAN]
    /\ pc = "done" <=> result # "none"

(* A result is that of a shell that has ended by itself or, at the limit,  *)
(* was killed, and all that was printed has been read.  The result tells   *)
(* it all; of bash, if it is too long, as many whole characters as fit,    *)
(* and a mark.  Only bash gives up what was printed, and leaves a shell    *)
(* running, and that only at the limit.                                    *)
ToldInPart == /\ output.marked /\ output.bytes \in ends /\ output.bytes <= MaxBytes
              /\ MaxBytes < output.bytes + 4
ResultsTell ==
    /\ result = "finished" =>
          /\ AllRead /\ got = printed /\ want = 0
          /\ IF tool = "powershell" \/ printed <= MaxBytes THEN output = Whole(printed)
             ELSE ToldInPart
    /\ result = "timeout" =>
          /\ late /\ limited
          /\ IF tool = "powershell" THEN AllRead /\ got = printed /\ output = Whole(printed)
             ELSE output = Whole(0)

(* A limit ends a bash call whatever the command does, and a PowerShell    *)
(* call unless a helper holds the pipe of the shell that was killed or has *)
(* ended.  A call without one ends with its command.                       *)
CallsEnd ==
    /\ (pc = "wait" /\ tool = "bash" /\ limited) ~> pc = "done"
    /\ pc = "poll" ~> (pc = "done" \/ helper)
    /\ (pc \in {"wait", "collect", "killed"} /\ shell = "exited" /\ ~helper) ~> pc = "done"
=============================================================================
