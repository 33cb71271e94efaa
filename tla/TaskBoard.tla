----------------------------- MODULE TaskBoard -----------------------------
(***************************************************************************)
(* The task and team registries (runtime/src/task_registry.rs and          *)
(* team_cron_registry.rs) under the tool handlers that use them            *)
(* (tools/src/lib.rs): tasks on a list, background commands that are       *)
(* tracked as tasks, and teams.  A registry has a lock for each call, a    *)
(* handler makes several calls and other threads come between.             *)
(***************************************************************************)
EXTENDS Naturals, FiniteSets

CONSTANTS Tasks, Teams,       \* ids, each handed out once
          MaxMessages         \* bound of the model: TaskUpdate calls per task

VARIABLES task,               \* the registry's records
          spawn,              \* a background command: how far its two threads are
          child,              \* its process and the code it ends with
          killing,            \* TaskStop calls about to signal the pid they read
          team, joining       \* teams; tasks a TeamCreate has yet to assign

vars == <<task, spawn, child, killing, team, joining>>
teams == <<team, joining>>

Terminal == {"completed", "failed", "stopped"}
Unassigned == "none"
NoTask == [status |-> "absent", pid |-> FALSE, note |-> "none", team |-> Unassigned, messages |-> 0]
Codes == {"zero", "other"}
NoChild == [st |-> "none", code |-> "none"]

Known(t) == task[t].status # "absent"
AtSpawn(t, pc) == spawn[t] = pc
Next2(t, pc) == spawn' = [spawn EXCEPT ![t] = pc]

-----------------------------------------------------------------------------
(* Tasks *)

(* TaskCreate, RunTaskPacket: nothing in the program runs such a task.     *)
Create(t) ==
    /\ ~Known(t)
    /\ task' = [task EXCEPT ![t].status = "created"]
    /\ UNCHANGED <<spawn, child, killing, teams>>

(* TaskUpdate appends to the messages in any status.                       *)
Update(t) ==
    /\ Known(t) /\ task[t].messages < MaxMessages
    /\ task' = [task EXCEPT ![t].messages = @ + 1]
    /\ UNCHANGED <<spawn, child, killing, teams>>

(* TaskStop refuses what has ended, marks the rest and reads the pid.      *)
Stop(t) ==
    /\ task[t].status \in {"created", "running"}
    /\ task' = [task EXCEPT ![t].status = "stopped"]
    /\ killing' = IF task[t].pid THEN killing \cup {t} ELSE killing
    /\ UNCHANGED <<spawn, child, teams>>

(* terminate_pid: the child may take no notice of the signal, and a child  *)
(* that has been waited for has no pid any more.                           *)
Kill(t) ==
    /\ t \in killing
    /\ killing' = killing \ {t}
    /\ \/ child[t].st = "running" /\ child' = [child EXCEPT ![t] = [st |-> "exited", code |-> "other"]]
       \/ UNCHANGED child
    /\ UNCHANGED <<task, spawn, teams>>

-----------------------------------------------------------------------------
(* A background command: spawn_tracked_background_bash *)

Background(t) ==
    /\ ~Known(t)
    /\ task' = [task EXCEPT ![t].status = "created"] /\ Next2(t, "made")
    /\ UNCHANGED <<child, killing, teams>>

(* A log file or a process that cannot be made leaves the task as it is.   *)
Spawn(t) ==
    /\ AtSpawn(t, "made")
    /\ \/ Next2(t, "spawned") /\ child' = [child EXCEPT ![t].st = "running"]
       \/ Next2(t, "failed") /\ UNCHANGED child
    /\ UNCHANGED <<task, killing, teams>>

AttachProcess(t) ==
    /\ AtSpawn(t, "spawned") /\ Next2(t, "attached")
    /\ task' = [task EXCEPT ![t].pid = TRUE]
    /\ UNCHANGED <<child, killing, teams>>

(* The status is set whatever it is by now, and the watcher starts.        *)
SetRunning(t) ==
    /\ AtSpawn(t, "attached") /\ Next2(t, "watching")
    /\ task' = [task EXCEPT ![t].status = "running"]
    /\ UNCHANGED <<child, killing, teams>>

Exits(t) ==
    /\ child[t].st = "running"
    /\ \E code \in Codes : child' = [child EXCEPT ![t] = [st |-> "exited", code |-> code]]
    /\ UNCHANGED <<task, spawn, killing, teams>>

(* The watcher: wait, clear_pid, append_output, set_status.                *)
Reap(t) ==
    /\ AtSpawn(t, "watching") /\ child[t].st = "exited" /\ Next2(t, "reaped")
    /\ child' = [child EXCEPT ![t].st = "reaped"]
    /\ UNCHANGED <<task, killing, teams>>

ClearPid(t) ==
    /\ AtSpawn(t, "reaped") /\ Next2(t, "cleared")
    /\ task' = [task EXCEPT ![t].pid = FALSE]
    /\ UNCHANGED <<child, killing, teams>>

AppendCode(t) ==
    /\ AtSpawn(t, "cleared") /\ Next2(t, "noted")
    /\ task' = [task EXCEPT ![t].note = child[t].code]
    /\ UNCHANGED <<child, killing, teams>>

(* Faulty variant: only the success of the child is recorded.              *)
SetOutcomeOfSuccess(t) ==
    /\ AtSpawn(t, "noted") /\ Next2(t, "done")
    /\ task' = [task EXCEPT ![t].status = IF child[t].code = "zero" THEN "completed" ELSE @]
    /\ UNCHANGED <<child, killing, teams>>

SetOutcome(t) ==
    /\ AtSpawn(t, "noted") /\ Next2(t, "done")
    /\ task' = [task EXCEPT ![t].status = IF child[t].code = "zero" THEN "completed" ELSE "failed"]
    /\ UNCHANGED <<child, killing, teams>>

-----------------------------------------------------------------------------
(* Teams: run_team_create, run_team_delete *)

(* The ids given are taken as they are, known or not.                      *)
TeamCreate(m) ==
    /\ team[m].status = "absent"
    /\ \E ids \in (SUBSET Tasks) \ {{}} :
         /\ team' = [team EXCEPT ![m] = [status |-> "created", ids |-> ids]]
         /\ joining' = [joining EXCEPT ![m] = ids]
    /\ UNCHANGED <<task, spawn, child, killing>>

(* assign_team, one task after another; an id that is unknown is skipped.  *)
Assign(m) ==
    /\ \E t \in joining[m] :
         /\ joining' = [joining EXCEPT ![m] = @ \ {t}]
         /\ task' = IF Known(t) THEN [task EXCEPT ![t].team = m] ELSE task
    /\ UNCHANGED <<spawn, child, killing, team>>

(* A team is deleted once or again; its tasks keep its name.               *)
TeamDelete(m) ==
    /\ team[m].status # "absent"
    /\ team' = [team EXCEPT ![m].status = "deleted"]
    /\ UNCHANGED <<task, spawn, child, killing, joining>>

-----------------------------------------------------------------------------
Init ==
    /\ task = [t \in Tasks |-> NoTask]
    /\ spawn = [t \in Tasks |-> "none"] /\ child = [t \in Tasks |-> NoChild]
    /\ killing = {}
    /\ team = [m \in Teams |-> [status |-> "absent", ids |-> {}]]
    /\ joining = [m \in Teams |-> {}]

Watch(t) == Reap(t) \/ ClearPid(t) \/ AppendCode(t) \/ SetOutcome(t)
Begin(t) == Spawn(t) \/ AttachProcess(t) \/ SetRunning(t)

Next ==
    \/ \E t \in Tasks : \/ Create(t) \/ Update(t) \/ Stop(t) \/ Kill(t)
                        \/ Background(t) \/ Begin(t) \/ Exits(t) \/ Watch(t)
    \/ \E m \in Teams : TeamCreate(m) \/ Assign(m) \/ TeamDelete(m)

Fairness == \A t \in Tasks : WF_vars(Begin(t)) /\ WF_vars(Watch(t))
Spec == Init /\ [][Next]_vars /\ Fairness

-----------------------------------------------------------------------------
(* Properties *)

(* Records, threads and teams are well formed.                             *)
TypeOK ==
    /\ \A t \in Tasks : /\ task[t].status \in Terminal \cup {"absent", "created", "running"}
                        /\ task[t].team \in Teams \cup {Unassigned}
                        /\ task[t].messages \in 0..MaxMessages
    /\ child \in [Tasks -> [st : {"none", "running", "exited", "reaped"}, code : Codes \cup {"none"}]]
    /\ killing \subseteq Tasks /\ joining \in [Teams -> SUBSET Tasks]

(* Whoever sees a task completed or failed (TaskWait returns on it) also   *)
(* sees the exit code in its output and no pid, and the code is the one    *)
(* the command ended with.                                                 *)
OutcomeIsReal ==
    \A t \in Tasks : task[t].status \in {"completed", "failed"} =>
        /\ child[t].st = "reaped" /\ ~task[t].pid /\ task[t].note = child[t].code
        /\ (task[t].status = "completed") = (child[t].code = "zero")

(* A command that ends is recorded as completed or failed, whatever was    *)
(* said of the task before: TaskStop, TaskUpdate or a team.                *)
ExitsAreRecorded ==
    \A t \in Tasks : child[t].st = "exited" ~> task[t].status \in {"completed", "failed"}
=============================================================================
