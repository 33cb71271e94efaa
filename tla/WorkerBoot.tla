----------------------------- MODULE WorkerBoot -----------------------------
(***************************************************************************)
(* The worker-boot control plane: runtime/src/worker_boot.rs.              *)
(*                                                                         *)
(* A registry keeps one record per worker.  An orchestrator creates        *)
(* workers, feeds the registry what is on their terminals (observe),       *)
(* clears trust prompts, dispatches prompts, restarts and terminates.      *)
(* Every operation takes the registry's mutex for its whole body, so each  *)
(* one is a single action here; the hazards are the orders in which they   *)
(* are called, since a screen is read, judged and acted upon by different  *)
(* parties.                                                                *)
(*                                                                         *)
(* A screen is abstracted to what the detectors see in it.  The event log  *)
(* is abstracted to the status of its last entry and to the number of      *)
(* prompt events since the worker was created or restarted.                *)
(***************************************************************************)
EXTENDS Integers

CONSTANTS
  Prompts,      \* the texts an orchestrator may dispatch
  MaxWorkers,   \* bound: how many workers are created
  MaxAttempts,  \* bound: dispatches to a worker between two restarts
  None          \* Rust's Option::None

ASSUME BootAssumption ==
  /\ None \notin Prompts
  /\ None \notin {"TrustGate", "PromptDelivery", "Provider"}
  /\ MaxWorkers \in Nat
  /\ MaxAttempts \in Nat

VARIABLES
  counter,      \* WorkerRegistryInner.counter: the last id handed out
  worker        \* WorkerRegistryInner.workers, by id

vars == <<counter, worker>>

-----------------------------------------------------------------------------
Ids == 1..MaxWorkers
Created == 1..counter

Status == {"Spawning", "TrustRequired", "ReadyForPrompt", "Running",
           "Finished", "Failed"}

\* WorkerFailureKind; the code never constructs its Protocol variant.
Failure == {"TrustGate", "PromptDelivery", "Provider"}

Worker == [ status       : Status,
            autoResolve  : BOOLEAN,              \* trust_auto_resolve
            autoRecover  : BOOLEAN,              \* auto_recover_prompt_misdelivery
            gateCleared  : BOOLEAN,              \* trust_gate_cleared
            attempts     : Nat,                  \* prompt_delivery_attempts
            inFlight     : BOOLEAN,              \* prompt_in_flight
            lastPrompt   : Prompts \cup {None},
            replay       : Prompts \cup {None},  \* replay_prompt
            lastError    : Failure \cup {None},
            booted       : BOOLEAN,              \* boot_duration_ms is Some
            lastEvent    : Status,               \* events.last().status
            misdelivered : Nat,                  \* PromptMisdelivery events
            given        : SUBSET Prompts ]      \* history: prompts the caller
                                                 \* supplied since (re)start

\* What the detectors find on a screen: the trust prompt, a ready cue, a
\* running cue, a shell error, a shell prompt in a foreign directory, and
\* the prompts whose first line is visible.
Screen == [ trust : BOOLEAN, ready : BOOLEAN, cue : BOOLEAN,
            shellError : BOOLEAN, foreignCwd : BOOLEAN,
            shows : SUBSET Prompts ]

\* A record as create() fills it.
Fresh(autoResolve, autoRecover) ==
  [ status |-> "Spawning", autoResolve |-> autoResolve,
    autoRecover |-> autoRecover, gateCleared |-> FALSE, attempts |-> 0,
    inFlight |-> FALSE, lastPrompt |-> None, replay |-> None,
    lastError |-> None, booted |-> FALSE, lastEvent |-> "Spawning",
    misdelivered |-> 0, given |-> {} ]

Init ==
  /\ counter = 0
  /\ worker = [i \in Ids |-> Fresh(FALSE, FALSE)]

-----------------------------------------------------------------------------
\* The detectors.

\* prompt_misdelivery_is_relevant and detect_prompt_misdelivery: a prompt in
\* flight is visible next to a foreign shell prompt, or next to a shell error.
Misdelivered(w, s) ==
  /\ w.inFlight
  /\ w.lastPrompt \in s.shows
  /\ s.foreignCwd \/ s.shellError

\* The trust dialogue is on screen and this worker's gate is still closed.
TrustPending(w, s) == s.trust /\ ~w.gateCleared

\* The record after observe()'s first block on an allowlisted worker: the
\* prompt is noted and resolved at once.
AfterTrust(w, s) ==
  IF TrustPending(w, s)
  THEN [w EXCEPT !.gateCleared = TRUE, !.lastError = None,
                 !.status = "Spawning", !.lastEvent = "Spawning"]
  ELSE w

\* The running cue: a prompt in flight has been picked up.  No event is pushed.
AfterCue(w, s) ==
  IF s.cue /\ w.inFlight
  THEN [w EXCEPT !.inFlight = FALSE, !.status = "Running", !.lastError = None]
  ELSE w

\* Faulty variant: the trust complaint survives readiness.
AfterReadyKeepsError(w, s) ==
  IF s.ready /\ w.status # "ReadyForPrompt"
  THEN [w EXCEPT !.status = "ReadyForPrompt", !.inFlight = FALSE,
                 !.lastEvent = "ReadyForPrompt", !.booted = TRUE]
  ELSE w

\* The ready cue: the first one stops the boot clock.
AfterReady(w, s) ==
  IF s.ready /\ w.status # "ReadyForPrompt"
  THEN [w EXCEPT !.status = "ReadyForPrompt", !.inFlight = FALSE,
                 !.lastError = IF @ = "TrustGate" THEN None ELSE @,
                 !.lastEvent = "ReadyForPrompt", !.booted = TRUE]
  ELSE w

-----------------------------------------------------------------------------
\* Operations.

\* The worker behind the mutable reference an operation works on.
Put(i, w) ==
  /\ worker' = [worker EXCEPT ![i] = w]
  /\ UNCHANGED counter

Create ==
  /\ counter < MaxWorkers
  /\ counter' = counter + 1
  /\ \E autoResolve, autoRecover \in BOOLEAN :
       worker' = [worker EXCEPT ![counter + 1] = Fresh(autoResolve, autoRecover)]

\* observe(), returning early on a trust prompt nobody may clear for us.
ObserveTrustPrompt(i) ==
  \E s \in Screen :
    /\ TrustPending(worker[i], s)
    /\ ~worker[i].autoResolve
    /\ Put(i, [worker[i] EXCEPT !.status = "TrustRequired",
                                !.lastError = "TrustGate",
                                !.lastEvent = "TrustRequired"])

\* observe() got past its trust block.
PastTrust(i, s) == TrustPending(worker[i], s) => worker[i].autoResolve

\* A lost prompt: armed for replay where the worker recovers by itself.
Lost(w) ==
  [w EXCEPT !.lastError = "PromptDelivery", !.inFlight = FALSE,
            !.misdelivered = @ + 1,
            !.replay = IF w.autoRecover THEN w.lastPrompt ELSE @,
            !.status = IF w.autoRecover THEN "ReadyForPrompt" ELSE "Failed",
            !.lastEvent = IF w.autoRecover THEN "ReadyForPrompt" ELSE "Failed"]

\* observe(), returning early after a misdelivered prompt: replay it or fail.
ObserveMisdelivery(i) ==
  \E s \in Screen :
    /\ PastTrust(i, s)
    /\ Misdelivered(AfterTrust(worker[i], s), s)
    /\ Put(i, Lost(AfterTrust(worker[i], s)))

\* observe(), running to its end.
ObserveProgress(i) ==
  \E s \in Screen :
    /\ PastTrust(i, s)
    /\ ~Misdelivered(AfterTrust(worker[i], s), s)
    /\ Put(i, AfterReady(AfterCue(AfterTrust(worker[i], s), s), s))

ResolveTrust(i) ==
  /\ worker[i].status = "TrustRequired"
  /\ Put(i, [worker[i] EXCEPT !.gateCleared = TRUE, !.lastError = None,
                              !.status = "Spawning", !.lastEvent = "Spawning"])

\* Faulty variant: a dispatch keeps the armed replay.
DispatchKeepsReplay(i, p, supplied) ==
  /\ worker[i].status = "ReadyForPrompt"
  /\ worker[i].attempts < MaxAttempts
  /\ Put(i, [worker[i] EXCEPT !.attempts = @ + 1, !.inFlight = TRUE,
                              !.lastPrompt = p, !.lastError = None,
                              !.status = "Running", !.lastEvent = "Running",
                              !.given = @ \cup supplied])

\* send_prompt(): the caller's text, or with no text the armed replay;
\* `supplied' is what the caller handed over.
Dispatch(i, p, supplied) ==
  /\ worker[i].status = "ReadyForPrompt"
  /\ worker[i].attempts < MaxAttempts
  /\ Put(i, [worker[i] EXCEPT !.attempts = @ + 1, !.inFlight = TRUE,
                              !.lastPrompt = p, !.replay = None,
                              !.lastError = None, !.status = "Running",
                              !.lastEvent = "Running",
                              !.given = @ \cup supplied])

SendPrompt(i) == \E p \in Prompts : Dispatch(i, p, {p})

ReplayPrompt(i) ==
  /\ worker[i].replay # None
  /\ Dispatch(i, worker[i].replay, {})

\* Faulty variant: the armed replay survives the restart.
RestartKeepsReplay(i) ==
  Put(i, [Fresh(worker[i].autoResolve, worker[i].autoRecover)
            EXCEPT !.replay = worker[i].replay])

Restart(i) == Put(i, Fresh(worker[i].autoResolve, worker[i].autoRecover))

Terminate(i) ==
  Put(i, [worker[i] EXCEPT !.status = "Finished", !.inFlight = FALSE,
                           !.lastEvent = "Finished"])

\* observe_completion(): a provider failure, or a normal finish.
ObserveCompletion(i) ==
  \/ Put(i, [worker[i] EXCEPT !.lastError = "Provider", !.status = "Failed",
                              !.inFlight = FALSE, !.lastEvent = "Failed"])
  \/ Put(i, [worker[i] EXCEPT !.status = "Finished", !.inFlight = FALSE,
                              !.lastError = None, !.lastEvent = "Finished"])

Operation(i) ==
  \/ ObserveTrustPrompt(i)
  \/ ObserveMisdelivery(i)
  \/ ObserveProgress(i)
  \/ ResolveTrust(i)
  \/ SendPrompt(i)
  \/ ReplayPrompt(i)
  \/ Restart(i)
  \/ Terminate(i)
  \/ ObserveCompletion(i)

Next == Create \/ \E i \in Created : Operation(i)

Spec == Init /\ [][Next]_vars

-----------------------------------------------------------------------------
(***************************************************************************)
(* Properties.                                                             *)
(***************************************************************************)

\* Every record is a Worker and ids are handed out in order.
TypeOK ==
  /\ counter \in 0..MaxWorkers
  /\ worker \in [Ids -> Worker]

\* An armed replay is the very prompt that was dispatched last, it is not in
\* flight any more, and it was lost once: send_prompt(None) can neither
\* dispatch a prompt twice at a time nor one that never went astray.
ReplayIsLostPrompt ==
  \A i \in Created :
    worker[i].replay # None =>
      /\ worker[i].replay = worker[i].lastPrompt
      /\ ~worker[i].inFlight
      /\ worker[i].misdelivered > 0

\* What a worker is sent, by text or by replay, was handed over after its
\* last restart: no prompt of an earlier life comes back.
NoPromptFromEarlierLife ==
  \A i \in Created :
    /\ worker[i].lastPrompt \in worker[i].given \cup {None}
    /\ worker[i].replay \in worker[i].given \cup {None}

\* However often a screen is observed, each dispatch is reported as
\* misdelivered at most once, and not while it still counts as in flight.
OneMisdeliveryPerDispatch ==
  \A i \in Created :
    worker[i].misdelivered + (IF worker[i].inFlight THEN 1 ELSE 0)
      <= worker[i].attempts

\* A worker that was given a prompt, or waits for one, has finished booting,
\* so worker_done telemetry reports the duration of this boot.
PromptedMeansBooted ==
  \A i \in Created :
    (worker[i].attempts > 0 \/ worker[i].status \in {"ReadyForPrompt", "Running"})
      => worker[i].booted

\* last_error agrees with the state the orchestrator sees in await_ready():
\* a blocked worker says why, an advancing one carries no stale complaint,
\* and a ready worker never reports the trust gate.
ErrorExplainsStatus ==
  \A i \in Created :
    LET w == worker[i]
    IN /\ w.status = "TrustRequired" => w.lastError = "TrustGate" /\ ~w.gateCleared
       /\ w.status = "Failed" => w.lastError \in {"PromptDelivery", "Provider"}
       /\ w.status \in {"Spawning", "Running"} => w.lastError = None
       /\ w.status = "ReadyForPrompt" => w.lastError # "TrustGate"

\* The event log tells the worker's status: a consumer that only reads the
\* last event is wrong about nothing but a worker that resumed running on a
\* running cue, which pushes no event.
LogTellsStatus ==
  \A i \in Created :
    worker[i].status # "Running" => worker[i].lastEvent = worker[i].status
=============================================================================
