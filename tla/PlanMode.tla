------------------------------ MODULE PlanMode ------------------------------
(***************************************************************************)
(* EnterPlanMode and ExitPlanMode (tools/src/lib.rs): the permission mode  *)
(* in settings.local.json is overridden with "plan", and what it was is    *)
(* kept in tool-state/plan-mode.json.  The tool may be cut short between   *)
(* two writes, and the user may change the setting by hand or with the     *)
(* Config tool between two calls.                                          *)
(*                                                                         *)
(* One session at a time uses the worktree: two that enter and leave at    *)
(* the same time can lose the mode (README, observations).                 *)
(***************************************************************************)
EXTENDS Naturals

CONSTANTS Modes                \* permission modes apart from "plan"

VARIABLES mode,                \* permissions.defaultMode of the local settings
          kept,                \* the state file
          op,                  \* the call under way: what it read, what is next
          before               \* history: the mode that the tool's plan replaced

vars == <<mode, kept, op, before>>

Unset == "unset"
Values == Modes \cup {Unset, "plan"}
NoState == [had |-> FALSE, prev |-> Unset, there |-> FALSE]
State(m) == [had |-> m # Unset, prev |-> m, there |-> TRUE]
NoOp == [tool |-> "none", pc |-> "idle", read |-> Unset]
ByHand == "by hand"            \* plan was not entered with the tool

Goto(pc) == op' = [op EXCEPT !.pc = pc]

-----------------------------------------------------------------------------
(* execute_enter_plan_mode *)

(* Faulty variant: what an earlier override has kept is kept on.           *)
EnterKeepsStale ==
    /\ op = NoOp
    /\ op' = [tool |-> "enter", read |-> mode,
              pc |-> IF mode = "plan" THEN "return" ELSE IF kept.there THEN "override" ELSE "keep"]
    /\ UNCHANGED <<mode, kept, before>>

(* Both files are read; an override that is there already is left alone.   *)
Enter ==
    /\ op = NoOp
    /\ op' = [tool |-> "enter", read |-> mode,
              pc |-> IF mode = "plan" THEN "return" ELSE IF kept.there THEN "dropStale" ELSE "keep"]
    /\ UNCHANGED <<mode, kept, before>>

DropStale ==
    /\ op.pc = "dropStale" /\ Goto("keep")
    /\ kept' = NoState
    /\ UNCHANGED <<mode, before>>

Keep ==
    /\ op.pc = "keep" /\ Goto("override")
    /\ kept' = State(op.read)
    /\ UNCHANGED <<mode, before>>

Override ==
    /\ op.pc = "override" /\ Goto("return")
    /\ mode' = "plan" /\ before' = op.read
    /\ UNCHANGED kept

-----------------------------------------------------------------------------
(* execute_exit_plan_mode *)

(* Faulty variant: the state is cleared before the mode is restored.       *)
ExitClearsFirst ==
    /\ op = NoOp
    /\ op' = [tool |-> "exit", read |-> kept.prev,
              pc |-> IF kept.there /\ mode = "plan" THEN "restore" ELSE "return"]
    /\ kept' = NoState
    /\ UNCHANGED <<mode, before>>

(* Without a state nothing is done; a state whose mode is gone is cleared. *)
Exit ==
    /\ op = NoOp
    /\ op' = [tool |-> "exit", read |-> kept.prev,
              pc |-> IF ~kept.there THEN "return" ELSE IF mode = "plan" THEN "restore" ELSE "clear"]
    /\ UNCHANGED <<mode, kept, before>>

(* The mode there was, or none: what it was is removed with its key.       *)
Restore ==
    /\ op.pc = "restore" /\ Goto("clear")
    /\ mode' = IF kept.had THEN kept.prev ELSE Unset
    /\ before' = ByHand
    /\ UNCHANGED kept

Clear ==
    /\ op.pc = "clear" /\ Goto("return")
    /\ kept' = NoState
    /\ UNCHANGED <<mode, before>>

-----------------------------------------------------------------------------
Return ==
    /\ op.pc = "return" /\ op' = NoOp
    /\ UNCHANGED <<mode, kept, before>>

(* A crash, or an error of a read or a write; a write that is cut short    *)
(* leaves an empty file, which is read as one without the setting.         *)
CutShort ==
    /\ op # NoOp /\ op' = NoOp
    /\ kept' \in {kept} \cup {NoState : w \in {"keep"} \cap {op.pc}}
    /\ mode' \in {mode} \cup {Unset : w \in {"override", "restore"} \cap {op.pc}}
    /\ before' = IF mode' = mode THEN before ELSE ByHand

(* The user changes the setting between two calls.                         *)
SetByHand ==
    /\ op = NoOp
    /\ \E m \in Values \ {mode} : mode' = m
    /\ before' = ByHand
    /\ UNCHANGED <<kept, op>>

Init ==
    /\ mode \in Values /\ kept = NoState
    /\ op = NoOp /\ before = ByHand

Next ==
    \/ Enter \/ DropStale \/ Keep \/ Override \/ Exit \/ Restore \/ Clear
    \/ Return \/ CutShort \/ SetByHand

Spec == Init /\ [][Next]_vars

-----------------------------------------------------------------------------
(* Properties *)

(* Files, call and history are well formed.                                *)
TypeOK ==
    /\ {mode, kept.prev, op.read} \subseteq Values
    /\ {kept.had, kept.there} \subseteq BOOLEAN
    /\ before \in Values \cup {ByHand}

(* Wherever a call was cut short: while the tool's override is in force,   *)
(* the mode it replaced is on disk, so that ExitPlanMode can restore it.   *)
PriorModeIsKept ==
    mode = "plan" /\ before # ByHand => kept = State(before)
=============================================================================
