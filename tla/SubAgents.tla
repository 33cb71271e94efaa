----------------------------- MODULE SubAgents -----------------------------
(***************************************************************************)
(* Background sub-agents (tools/src/lib.rs, `Agent` tool): an agent is a   *)
(* manifest file, a supervisor thread that waits for a slot and for the    *)
(* worker, and a worker thread that runs a turn.  Several processes share  *)
(* the directory of manifests; a process that starts as a REPL marks the   *)
(* agents whose process is gone.                                           *)
(*                                                                         *)
(* Nothing is assumed of a worker: it may run for ever.  The time limit is *)
(* on (CLAWD_AGENT_TIMEOUT_SECS is not 0).                                 *)
(***************************************************************************)
EXTENDS Naturals, FiniteSets

CONSTANTS Agents,        \* ids, each handed out once
          Procs,         \* processes of the program, each with a pid of its own
          Slots          \* agent_concurrency_limit()

VARIABLES manifest,      \* the file of an agent: its status, the process it names
          job,           \* the supervisor thread and what it is to record
          worker,        \* the worker thread and what it sent, read or not
          proc,          \* a process: its state and its scan of the manifests
          free,          \* slots its semaphore has
          queue          \* its notifications not drained

vars == <<manifest, job, worker, proc, free, queue>>

Outcomes == {"completed", "failed", "timed_out"}
Final == Outcomes \cup {"interrupted"}

Nobody == "nobody"
NoFile == [status |-> "none", owner |-> Nobody]
NoJob == [at |-> "none", outcome |-> "none"]
NotHeld == [id |-> Nobody, status |-> "none"]
(* a scan: what is left to look at, what was read last, what could not be  *)
(* written; gone is history: who had gone when the process started          *)
Off == [st |-> "off", todo |-> {}, held |-> NotHeld, missed |-> {}, gone |-> {}]

Alive(p) == proc[p].st \in {"scanning", "on"}
Owned(p) == {a \in Agents : job[a].at # "none" /\ manifest[a].owner = p}

-----------------------------------------------------------------------------
(* Launching: execute_agent_with_spawn *)

Launch(p, a) ==
    /\ proc[p].st = "on" /\ manifest[a].status = "none"
    /\ \/ /\ manifest' = [manifest EXCEPT ![a] = [status |-> "running", owner |-> p]]
          /\ job' = [job EXCEPT ![a].at = "queued"]
       \/ /\ \E status \in {"failed", "running"} :       \* no thread; written or not
               manifest' = [manifest EXCEPT ![a] = [status |-> status, owner |-> p]]
          /\ job' = [job EXCEPT ![a] = [at |-> "done", outcome |-> "failed"]]
    /\ UNCHANGED <<worker, proc, free, queue>>

-----------------------------------------------------------------------------
(* The supervisor thread: supervise_agent_job *)

(* acquire_agent_permit, and the worker that starts or does not.           *)
Acquire(a) ==
    /\ job[a].at = "queued" /\ free[manifest[a].owner] > 0
    /\ free' = [free EXCEPT ![manifest[a].owner] = @ - 1]
    /\ \/ job' = [job EXCEPT ![a].at = "waiting"] /\ worker' = [worker EXCEPT ![a] = "running"]
       \/ job' = [job EXCEPT ![a] = [at |-> "final", outcome |-> "failed"]] /\ UNCHANGED worker
    /\ UNCHANGED <<manifest, proc, queue>>

(* recv_timeout finds the worker's message; a panic is a failure.          *)
Receive(a) ==
    /\ job[a].at = "waiting" /\ worker[a] \in {"completed", "failed"}
    /\ job' = [job EXCEPT ![a] = [at |-> "final", outcome |-> worker[a]]]
    /\ UNCHANGED <<manifest, worker, proc, free, queue>>

(* Faulty variant: the limit is looked at when the worker has ended.       *)
TimeOutAfterwards(a) ==
    /\ job[a].at = "waiting" /\ worker[a] # "running"
    /\ job' = [job EXCEPT ![a] = [at |-> "final", outcome |-> "timed_out"]]
    /\ UNCHANGED <<manifest, worker, proc, free, queue>>

TimeOut(a) ==
    /\ job[a].at = "waiting" /\ worker[a] = "running"
    /\ job' = [job EXCEPT ![a] = [at |-> "final", outcome |-> "timed_out"]]
    /\ UNCHANGED <<manifest, worker, proc, free, queue>>

(* persist_agent_terminal_state: what cannot be written stays as it was or *)
(* is left cut short, and the supervisor goes on.                          *)
Finalize(a) ==
    /\ job[a].at = "final"
    /\ job' = [job EXCEPT ![a].at = "notify"]
    /\ \E status \in {job[a].outcome, "torn", manifest[a].status} :
         manifest' = [manifest EXCEPT ![a].status = status]
    /\ UNCHANGED <<worker, proc, free, queue>>

(* Faulty variant: the slot goes back only with the worker.                *)
NotifyKeepsSlot(a) ==
    /\ job[a].at = "notify"
    /\ job' = [job EXCEPT ![a].at = "done"]
    /\ queue' = [queue EXCEPT ![manifest[a].owner] = @ \cup {a}]
    /\ free' = [free EXCEPT ![manifest[a].owner] = IF worker[a] = "running" THEN @ ELSE @ + 1]
    /\ UNCHANGED <<manifest, worker, proc>>

(* push_agent_notification, and the permit is dropped.                     *)
Notify(a) ==
    /\ job[a].at = "notify"
    /\ job' = [job EXCEPT ![a].at = "done"]
    /\ queue' = [queue EXCEPT ![manifest[a].owner] = @ \cup {a}]
    /\ free' = [free EXCEPT ![manifest[a].owner] = @ + 1]
    /\ UNCHANGED <<manifest, worker, proc>>

(* The worker's turn ends: run_agent_job.                                  *)
WorkerEnds(a) ==
    /\ worker[a] = "running"
    /\ \E outcome \in {"completed", "failed"} : worker' = [worker EXCEPT ![a] = outcome]
    /\ UNCHANGED <<manifest, job, proc, free, queue>>

(* drain_agent_notifications, between two turns.                           *)
Drain(p) ==
    /\ proc[p].st = "on" /\ queue[p] # {}
    /\ queue' = [queue EXCEPT ![p] = {}]
    /\ UNCHANGED <<manifest, job, worker, proc, free>>

-----------------------------------------------------------------------------
(* Processes, and the scan at start: reconcile_orphaned_agents *)

(* A REPL scans, a one-shot prompt does not.                               *)
Start(p) ==
    /\ proc[p].st = "off"
    /\ \E st \in {"scanning", "on"} :
         proc' = [proc EXCEPT ![p] =
                    IF st = "on" THEN [Off EXCEPT !.st = st]
                    ELSE [Off EXCEPT !.st = st, !.gone = {q \in Procs : proc[q].st = "dead"},
                                     !.todo = {a \in Agents : manifest[a].status # "none"}]]
    /\ UNCHANGED <<manifest, job, worker, free, queue>>

(* Faulty variant: what has ended is not passed over.                      *)
ScanReadAll(p, a) ==
    /\ proc[p].held = NotHeld /\ a \in proc[p].todo
    /\ proc' = [proc EXCEPT ![p].todo = @ \ {a},
                            ![p].held = [id |-> a, status |-> manifest[a].status]]
    /\ UNCHANGED <<manifest, job, worker, free, queue>>

(* The manifest is read.  What does not parse or has ended is passed over. *)
ScanRead(p, a) ==
    /\ proc[p].held = NotHeld /\ a \in proc[p].todo
    /\ proc' = [proc EXCEPT ![p].todo = @ \ {a},
                            ![p].held = IF manifest[a].status = "running"
                                        THEN [id |-> a, status |-> "running"] ELSE NotHeld]
    /\ UNCHANGED <<manifest, job, worker, free, queue>>

(* process_is_alive: `kill -0` says yes of any process with that pid.      *)
PidAlive(q) == Alive(q) \/ proc[q].st = "reused"

(* Faulty variant: every other process is taken for dead.                  *)
ScanWriteUnasked(p) ==
    LET a == proc[p].held.id IN
    /\ a # Nobody
    /\ proc' = [proc EXCEPT ![p].held = NotHeld]
    /\ manifest' = [manifest EXCEPT ![a].status = "interrupted"]
    /\ UNCHANGED <<job, worker, free, queue>>

(* Faulty variant: a manifest that cannot be written ends the scan.        *)
ScanWriteGivesUp(p) ==
    LET a == proc[p].held.id IN
    /\ a # Nobody
    /\ \/ /\ PidAlive(manifest[a].owner)
          /\ proc' = [proc EXCEPT ![p].held = NotHeld] /\ UNCHANGED manifest
       \/ /\ ~PidAlive(manifest[a].owner)
          /\ proc' = [proc EXCEPT ![p].held = NotHeld]
          /\ manifest' = [manifest EXCEPT ![a].status = "interrupted"]
       \/ /\ ~PidAlive(manifest[a].owner)
          /\ proc' = [proc EXCEPT ![p].held = NotHeld, ![p].todo = {}, ![p].missed = @ \cup {a}]
          /\ UNCHANGED manifest
    /\ UNCHANGED <<job, worker, free, queue>>

(* The owner is asked after, and the manifest that was read written back.  *)
(* The file may have changed since it was read.                            *)
ScanWrite(p) ==
    LET a == proc[p].held.id IN
    /\ a # Nobody
    /\ \/ /\ PidAlive(manifest[a].owner)
          /\ proc' = [proc EXCEPT ![p].held = NotHeld] /\ UNCHANGED manifest
       \/ /\ ~PidAlive(manifest[a].owner)
          /\ proc' = [proc EXCEPT ![p].held = NotHeld]
          /\ manifest' = [manifest EXCEPT ![a].status = "interrupted"]
       \/ /\ ~PidAlive(manifest[a].owner)
          /\ proc' = [proc EXCEPT ![p].held = NotHeld, ![p].missed = @ \cup {a}]
          /\ manifest' \in {manifest, [manifest EXCEPT ![a].status = "torn"]}
    /\ UNCHANGED <<job, worker, free, queue>>

ScanEnds(p) ==
    /\ proc[p].st = "scanning" /\ proc[p].todo = {} /\ proc[p].held = NotHeld
    /\ proc' = [proc EXCEPT ![p] = [Off EXCEPT !.st = "on"]]
    /\ UNCHANGED <<manifest, job, worker, free, queue>>

(* A process exits or is killed: its threads go with it, and a manifest    *)
(* one of them was writing may be left cut short.                          *)
Dies(p) ==
    /\ Alive(p)
    /\ proc' = [proc EXCEPT ![p] = [Off EXCEPT !.st = "dead"]]
    /\ job' = [a \in Agents |-> IF a \in Owned(p) THEN [job[a] EXCEPT !.at = "none"] ELSE job[a]]
    /\ worker' = [a \in Agents |-> IF a \in Owned(p) THEN "none" ELSE worker[a]]
    /\ queue' = [queue EXCEPT ![p] = {}] /\ UNCHANGED free
    /\ LET writing == {a \in Owned(p) : job[a].at = "final"}
                      \cup {a \in Agents \ {Nobody} : a = proc[p].held.id /\ ~PidAlive(manifest[a].owner)}
       IN \E torn \in SUBSET writing :
            manifest' = [a \in Agents |->
                           IF a \in torn THEN [manifest[a] EXCEPT !.status = "torn"] ELSE manifest[a]]

(* Another program is given the pid of one that is gone.                   *)
PidReused(p) ==
    /\ proc[p].st = "dead"
    /\ proc' = [proc EXCEPT ![p].st = "reused"]
    /\ UNCHANGED <<manifest, job, worker, free, queue>>

-----------------------------------------------------------------------------
Init ==
    /\ manifest = [a \in Agents |-> NoFile]
    /\ job = [a \in Agents |-> NoJob] /\ worker = [a \in Agents |-> "none"]
    /\ proc = [p \in Procs |-> Off]
    /\ free = [p \in Procs |-> Slots] /\ queue = [p \in Procs |-> {}]

Supervise(a) == Acquire(a) \/ Receive(a) \/ TimeOut(a) \/ Finalize(a) \/ Notify(a)

Next ==
    \/ \E p \in Procs, a \in Agents : Launch(p, a) \/ ScanRead(p, a)
    \/ \E a \in Agents : Supervise(a) \/ WorkerEnds(a)
    \/ \E p \in Procs : \/ Start(p) \/ ScanWrite(p) \/ ScanEnds(p)
                        \/ Drain(p) \/ Dies(p) \/ PidReused(p)

Spec == Init /\ [][Next]_vars /\ \A a \in Agents : WF_vars(Supervise(a))

-----------------------------------------------------------------------------
(* Properties *)

(* Files, threads and scans are well formed, and the permits a live        *)
(* process has and those its supervisors hold are the limit together.      *)
TypeOK ==
    /\ manifest \in [Agents -> [status : Final \cup {"none", "torn", "running"},
                                owner : Procs \cup {Nobody}]]
    /\ job \in [Agents -> [at : {"none", "queued", "waiting", "final", "notify", "done"},
                           outcome : Outcomes \cup {"none"}]]
    /\ worker \in [Agents -> {"none", "running", "completed", "failed"}]
    /\ \A p \in Procs : Alive(p) =>
         free[p] + Cardinality({a \in Owned(p) : job[a].at \in {"waiting", "final", "notify"}}) = Slots

(* A manifest can be believed, whoever reads it: of an agent that          *)
(* completed or failed no thread is at work any more, and interrupted is   *)
(* none whose process still runs.  (One that timed out may be at work.)    *)
StatusIsTrue ==
    \A a \in Agents :
        /\ manifest[a].status \in {"completed", "failed"} => worker[a] # "running"
        /\ manifest[a].status = "interrupted" => ~Alive(manifest[a].owner)

(* "Exactly once": the outcome of an agent stays what it is.  The one who  *)
(* may still replace it is a scan that read the manifest before the agent  *)
(* ended and asks for its process after that is gone.                      *)
OutcomesStand ==
    [][\A a \in Agents :
         manifest[a].status \in Final /\ manifest'[a].status # manifest[a].status
         => \E p \in Procs : /\ proc[p].held = [id |-> a, status |-> "running"]
                             /\ ~Alive(manifest[a].owner)]_vars

(* When the scan of a REPL is over, no agent of a process that was gone    *)
(* when it began is said to be running, if its pid was not given away and  *)
(* its file could be written.                                              *)
StartHeals ==
    \A p \in Procs : proc[p].st = "scanning" /\ proc[p].todo = {} /\ proc[p].held = NotHeld =>
        \A a \in Agents : manifest[a].status = "running" /\ manifest[a].owner \in proc[p].gone =>
            a \in proc[p].missed \/ proc[manifest[a].owner].st = "reused"

(* Whatever its worker does, an agent that waits for a slot is recorded    *)
(* and announced as ended, unless its process ends before.                 *)
AgentsEnd == \A a \in Agents : job[a].at = "queued" ~> job[a].at \in {"done", "none"}
=============================================================================
